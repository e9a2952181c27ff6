------------------------- MODULE LifecycleProperties -------------------------
(***************************************************************************)
(* What the life of a module must keep (ModuleLifecycle).                  *)
(***************************************************************************)
EXTENDS ModuleLifecycle

(* The sizes of the memories that the imports and the memory sections      *)
(* declare.                                                                *)
Memories ==
  (UNION {{file.sections[s].items[i].type : i \in ImportsOf(s, "memory")} : s \in SectionsOf("import")})
  \cup (UNION {ToSet(file.sections[s].items) : s \in SectionsOf("memory")})

(* A file as the standard orders it, that stays within what the runtime    *)
(* has room for: sections once and in order, no import of a table, one     *)
(* memory of less than 2^32 bytes, segments within their memory and table, *)
(* at an offset that is a constant or an imported global.                  *)
Order == <<"type", "import", "func", "table", "memory", "global", "export",
           "start", "element", "code", "data">>
Rank(id) == CHOOSE r \in 1 .. Len(Order) : Order[r] = id
Regular ==
  LET s == file.sections
      named == {i \in DOMAIN s : s[i].id # "custom"}
  IN  /\ \A i, j \in named : i < j => Rank(s[i].id) < Rank(s[j].id)
      /\ ImportCount("table") = 0 /\ Slots("memory") <= 1
      /\ Memories \subseteq 0 .. PageLimit - 1
      /\ \A i \in SectionsOf("data") : \A k \in DOMAIN s[i].items :
           /\ s[i].items[k].fits /\ Memories # {} /\ 0 \notin Memories
           /\ s[i].items[k].global \in 0 .. ImportCount("global")
      /\ \A i \in SectionsOf("element") : \A k \in DOMAIN s[i].items :
           /\ s[i].items[k].table \in 0 .. Slots("table") - 1
           /\ s[i].items[k].global \in 0 .. ImportCount("global")

(* wasm_module_destory frees no block twice, neither a type that several   *)
(* entries share nor what a failed loader left behind, and no block that   *)
(* is not allocated, but one, and only when the program was run: the       *)
(* memory, which memory.grow has freed when the pages added up to 2^32.    *)
FreedOnce ==
  fault = "free" =>
    ~Repeats(Frees) /\ Released \ heap = {<<"memory_data">>} /\ <<"stack">> \in heap

(* For a regular file everything up to the exit is defined, but for four   *)
(* places: a thread of the validator that cannot be created is joined; the *)
(* value of an imported global is read and was never written; after a      *)
(* failure of wasm_instantiate wasm_module_destory subtracts the imports   *)
(* from a count that does not yet include them; and it frees the memory    *)
(* that the program has freed.                                             *)
RegularDefined ==
  fault # "none" /\ Regular =>
    \/ fault = "thread"
    \/ fault = "import value" /\ m.imports["global"] > 0
    \/ fault = "function count" /\ m.stage = "Instantiate" /\ Base > Bodies
    \/ fault = "free" /\ <<"stack">> \in heap

(* What is still allocated at the exit.  Some blocks no code ever frees;   *)
(* besides them only the section that failed, or one that a later section  *)
(* of its kind replaced, the branch table of a body that was rejected and  *)
(* the table queues of its open blocks, and after a failed instantiation   *)
(* what is counted without the imports.                                    *)
NeverFreed == {<<"node", 1>>, <<"node", 2>>, <<"exec_env">>, <<"stack">>} \cup WasiBlocks
OfSections == {b \in heap : Len(b) >= 2 /\ b[1] \notin {"wasi", "stacks", "branches", "queues",
                                                    "node", "table_data"}}
LeaksConfined ==
  pc = "exited" =>
    \A b \in heap :
      \/ b \in NeverFreed
      \/ b[1] = "stacks"
      \/ /\ b \in OfSections
         /\ b[2] = pos \/ \E r \in SectionsOf(file.sections[b[2]].id) : r > b[2]
      \/ b[1] \in {"branches", "queues"} /\ m.functions[b[2]].table = Null
      \/ /\ m.stage = "Instantiate" /\ m.wasi = Null
         /\ \/ b[1] \in {"branches", "offsets", "locals"} /\ Base > 0
            \/ b[1] = "table_data" /\ m.imports["table"] > 0

(* The exit code 0 tells that every body was accepted, although one thread *)
(* that accepts its bodies is enough for the module to be run: the         *)
(* exception of a rejected body makes the execution fail.  A body that was *)
(* rejected for want of memory leaves no exception, and only a build       *)
(* without threads notices it.                                             *)
Serial == \A t \in Threads : threads[t].state = "none"
CleanExit ==
  pc = "exited" /\ exit = 0 =>
    /\ ~exception
    /\ Serial => silent = {}
    /\ silent = {} => \A k \in Base + 1 .. Bodies : m.functions[k].verdict = "valid"

(* When the program runs, the k-th import of a function sits in slot k and *)
(* is linked to the native function of its name, whose signature fits.     *)
LinkedImports ==
  pc = "running" =>
    \A k \in 1..Base :
      /\ m.functions[k].from = k
      /\ \E n \in DOMAIN Symbols :
           /\ Symbols[n].name = m.functions[k].name
           /\ CheckSymbolSignature(TypeOf(m.functions[k].type), Symbols[n].sig)

(* main comes to its end, unless the program runs for ever or something    *)
(* undefined was met: no loader, thread or failure path blocks it.         *)
Terminates == <>(pc \in {"exited", "undefined", "running"})
=============================================================================
