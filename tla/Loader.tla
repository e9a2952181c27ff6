------------------------------- MODULE Loader -------------------------------
(***************************************************************************)
(* main (main.c) up to the loaded module: the native functions, the file,  *)
(* wasm_module_create, and wasm_loader with init_load and a loader for     *)
(* each section.  The sections of a file come in any order and any number, *)
(* and any allocation may fail.  ModuleLifecycle goes on from here.        *)
(*                                                                         *)
(* The content of a section is reduced to what decides which blocks are    *)
(* allocated, which slots are written and which check fails.  A section    *)
(* has items and a flaw: "early", an item that cannot be read, or "late",  *)
(* bytes behind the last item.  Blocks of memory are named by what they    *)
(* hold and where they came from.                                          *)
(***************************************************************************)
EXTENDS NativeLink, FiniteSets, FiniteSetsExt, SequencesExt

CONSTANTS
  Files,      \* the files: a header and a sequence of sections
  FuncTypes,  \* function types by name, each with param and result
  Symbols,    \* the native functions, in the order of the source
  ThreadNum   \* WASM_VALIDATE_THREAD_NUM

Threads == 0 .. ThreadNum - 1
ImportKinds == {"func", "table", "memory", "global"}
SectionIds == ImportKinds \cup
  {"type", "import", "export", "start", "element", "code", "data", "custom"}

IsSequence(s) == s \in Seq(ToSet(s))

ASSUME LoaderAssumption ==
  /\ ThreadNum \in Nat \ {0}
  /\ Symbols \in SymbolTables
  /\ \A f \in Files :
       /\ IsSequence(f.sections)
       /\ \A s \in DOMAIN f.sections :
            /\ f.sections[s].id \in SectionIds
            /\ f.sections[s].flaw \in {"none", "early", "late"}
            /\ IsSequence(f.sections[s].items)
            /\ f.sections[s].id = "global" => ToSet(f.sections[s].items) \subseteq Nat

VARIABLES
  file,      \* the bytes of the file
  pc,        \* what main does next; "exited" and "undefined" are final
  pos,       \* the section wasm_loader reads next
  m,         \* the WASMModule
  natives,   \* g_native_symbols_list: number of nodes, and their one table
  heap,      \* the blocks that are allocated
  exception, \* cur_exception is not empty
  threads,   \* of the validator: the next function, and how a thread ended
  exit,      \* the exit code
  fault,     \* history: the undefined behaviour met, or "none"
  silent     \* history: the functions rejected without an exception

vars == <<file, pc, pos, m, natives, heap, exception, threads, exit, fault, silent>>

----------------------------------------------------------------------------
(* The module and its slots *)

Null == <<"null">>

(* WASMFunction and WASMGlobal.  "from" is the import that filled a slot:  *)
(* of a global its type, never its value.  "type" is func_type, "room" the *)
(* parameters local_offsets has room for, -1 without a body.               *)
NoFunction == [from |-> 0, type |-> Null, name |-> 0, params |-> 0,
               verdict |-> "invalid", branches |-> FALSE,
               room |-> -1, types |-> Null, offsets |-> Null, table |-> Null]
NoGlobal == [from |-> -1, target |-> 0]

(* wasm_module_create *)
NewModule ==
  [stage |-> "Load", start |-> -1,
   imports |-> [k \in ImportKinds |-> 0], counts |-> [k \in ImportKinds |-> 0],
   arrays |-> {}, functions |-> <<>>, globals |-> <<>>, tables |-> 0, pages |-> 0,
   types |-> <<>>, refs |-> [b \in {} |-> 0], typesBlock |-> Null,
   exports |-> <<>>, exportsBlock |-> Null,
   elements |-> <<>>, elementsBlock |-> Null,
   data |-> <<>>, dataBlock |-> Null,
   globalData |-> Null, memoryData |-> Null, tableData |-> <<>>,
   exportFuncs |-> Null, wasi |-> Null]

Init ==
  /\ file \in Files
  /\ pc = "init_env"
  /\ pos = 1
  /\ m = NewModule
  /\ natives = [nodes |-> 0, table |-> Symbols]
  /\ heap = {}
  /\ exception = FALSE
  /\ threads = [t \in Threads |-> [next |-> t, state |-> "none", ret |-> FALSE]]
  /\ exit = 0
  /\ fault = "none"
  /\ silent = {}

----------------------------------------------------------------------------
(* How a step of main ends *)

Untouched == UNCHANGED <<file, natives, threads, exit, silent>>

(* The step succeeds and main goes on.                                     *)
Goto(next, mod, blocks) ==
  /\ m' = mod /\ heap' = heap \cup blocks /\ pc' = next
  /\ Untouched /\ UNCHANGED <<pos, exception, fault>>

(* A check fails: the exception is set and main turns to the destruction.  *)
Rejected(mod, blocks) ==
  /\ m' = mod /\ heap' = heap \cup blocks /\ pc' = "fail"
  /\ exception' = TRUE
  /\ Untouched /\ UNCHANGED <<pos, fault>>

(* An allocation fails, and the code says nothing of it.                   *)
Exhausted(mod, blocks) == Goto("fail", mod, blocks)

(* The code uses memory it must not use: nothing is said of what follows.  *)
Undefined(what) ==
  /\ fault' = what /\ pc' = "undefined"
  /\ Untouched /\ UNCHANGED <<pos, m, heap, exception>>

----------------------------------------------------------------------------
(* main, up to the loader *)

(* wasm_native_init: two nodes, and the table sorted for each.  When the   *)
(* second fails the list is destroyed; main goes on in any case.           *)
InitEnv ==
  /\ pc = "init_env"
  /\ \E nodes \in 0..2 :
       /\ natives' = [nodes |-> IF nodes = 2 THEN 2 ELSE 0,
                      table |-> IF nodes = 0 THEN Symbols ELSE QuickSort(Symbols)]
       /\ heap' = IF nodes = 2 THEN {<<"node", 1>>, <<"node", 2>>} ELSE {}
  /\ pc' = "options"
  /\ UNCHANGED <<file, pos, m, exception, threads, exit, fault, silent>>

(* The options: a wrong one, or one too many, ends the program at once.    *)
Options ==
  /\ pc = "options"
  /\ \/ pc' = "read" /\ UNCHANGED exit
     \/ pc' = "exited" /\ exit' = 1
  /\ UNCHANGED <<file, pos, m, natives, heap, exception, threads, fault, silent>>

(* platform_read_file *)
ReadFile ==
  /\ pc = "read"
  /\ \/ pc' = "create" /\ heap' = heap \cup {<<"file">>} /\ UNCHANGED exit
     \/ pc' = "exited" /\ exit' = -1 /\ UNCHANGED heap
  /\ UNCHANGED <<file, pos, m, natives, exception, threads, fault, silent>>

(* wasm_module_create, or create_module_fail *)
CreateModule ==
  /\ pc = "create"
  /\ \/ pc' = "header" /\ heap' = heap \cup {<<"module">>} /\ UNCHANGED exit
     \/ pc' = "exited" /\ heap' = heap \ {<<"file">>} /\ exit' = -1
  /\ m' = NewModule
  /\ UNCHANGED <<file, pos, natives, exception, threads, fault, silent>>

----------------------------------------------------------------------------
(* init_load *)

SectionsOf(id) == {s \in DOMAIN file.sections : file.sections[s].id = id}

ImportsOf(s, kind) ==
  {i \in DOMAIN file.sections[s].items : file.sections[s].items[i].kind = kind}

(* Mutant: the last import of a section is not counted.                    *)
ImportCountShort(kind) ==
  Cardinality(UNION {{s} \X (ImportsOf(s, kind) \ {Len(file.sections[s].items)}) :
                       s \in SectionsOf("import")})

(* The imports of all import sections are counted; of the other sections   *)
(* of a kind the last one tells the count.                                 *)
ImportCount(kind) ==
  Cardinality(UNION {{s} \X ImportsOf(s, kind) : s \in SectionsOf("import")})

SectionCount(id) ==
  IF SectionsOf(id) = {} THEN 0 ELSE Len(file.sections[Max(SectionsOf(id))].items)

Slots(kind) == ImportCount(kind) + SectionCount(kind)

Arrays == <<"globals", "functions", "tables">>

(* The magic and version words, then init_load.                            *)
InitLoad ==
  LET counted == [m EXCEPT !.imports = [k \in ImportKinds |-> ImportCount(k)],
                           !.counts  = [k \in ImportKinds |-> SectionCount(k)]]
      zeroed  == [counted EXCEPT !.functions = [i \in 1 .. Slots("func") |-> NoFunction],
                                 !.globals = [i \in 1 .. Slots("global") |-> NoGlobal],
                                 !.tables = Slots("table"),
                              !.tableData = [i \in 1 .. Slots("table") |-> Null]]
      Blocks(n) == {<<Arrays[i]>> : i \in 1..n}
  IN  /\ pc = "header"
      /\ \/ file.header # "ok" /\ Rejected(m, {})
         \/ /\ file.header = "ok"
            /\ \/ Goto("sections", [zeroed EXCEPT !.arrays = Blocks(3)], Blocks(3))
               \/ \E n \in 0..2 :
                    Exhausted([zeroed EXCEPT !.arrays = Blocks(n)], Blocks(n))

----------------------------------------------------------------------------
(* wasm_loader: one section after the other *)

Flaw == file.sections[pos].flaw

Section(id) ==
  /\ pc = "sections" /\ pos \in DOMAIN file.sections
  /\ file.sections[pos].id = id

(* All items are read: the section must end here.                          *)
Loaded(mod, blocks) ==
  IF Flaw = "late" THEN Rejected(mod, blocks)
  ELSE /\ m' = mod /\ heap' = heap \cup blocks
       /\ pos' = pos + 1
       /\ Untouched /\ UNCHANGED <<pc, exception, fault>>

SkipSection == Section("custom") /\ Loaded(m, {})

LoaderDone ==
  /\ pc = "sections" /\ pos \notin DOMAIN file.sections
  /\ Goto("validate", m, {})

(* load_type_section: equal types share a block, which counts them.  The   *)
(* types reach the module when all of them are read.                       *)
LoadTypeSection ==
  LET items == file.sections[pos].items
      First(i) == Min({j \in 1..i : FuncTypes[items[j]] = FuncTypes[items[i]]})
      Block(i) == <<"type", pos, First(i)>>
      Blocks(k) == {<<"types", pos>>} \cup {Block(i) : i \in 1..k}
      all == 1 .. Len(items)
  IN  /\ Section("type")
      /\ \/ all = {} /\ Flaw # "early" /\ Loaded(m, {})
         \/ /\ all # {} /\ Flaw # "early"
            /\ Loaded([m EXCEPT !.types = [i \in all |-> Block(i)],
                                !.refs = [b \in {Block(i) : i \in all} |->
                                            Cardinality({i \in all : Block(i) = b})],
                                !.typesBlock = <<"types", pos>>],
                      Blocks(Len(items)))
         \/ all # {} /\ Exhausted(m, {})
         \/ \E i \in all : Exhausted(m, Blocks(i - 1))
         \/ Flaw = "early" /\ \E i \in {0} \cup all : Rejected(m, IF all = {} THEN {} ELSE Blocks(i))

(* The type with an index (from 0), of those the module knows; and what a  *)
(* type is, to the functions that keep a pointer to it.                    *)
TypeKnown(t) == t \in 0 .. Len(m.types) - 1
TypeAt(t) == m.types[t + 1]
TypeOf(block) == FuncTypes[file.sections[block[2]].items[block[3]]]

(* load_import_section and its helpers: where import i of the section      *)
(* goes.  A table import moves the pointer of the globals instead of its   *)
(* own.                                                                    *)
ImportSlot(i) ==
  LET Of(kinds) ==
        Cardinality({j \in 1 .. i - 1 : file.sections[pos].items[j].kind \in kinds})
  IN  CASE file.sections[pos].items[i].kind = "func"   -> 1 + Of({"func"})
        [] file.sections[pos].items[i].kind = "global" -> 1 + Of({"global", "table"})
        [] file.sections[pos].items[i].kind = "memory" -> 1 + Of({"memory"})
        [] OTHER -> 1

ImportSlots(kind) == CASE kind = "func"   -> Len(m.functions)
                       [] kind = "global" -> Len(m.globals)
                       [] kind = "memory" -> 1
                       [] OTHER           -> m.tables

ImportReadable(import) ==
  /\ import.kind \in ImportKinds
  /\ import.kind = "func" => TypeKnown(import.type)

(* The module after the first n imports of the section.  The value of a    *)
(* global that is imported is not written, here or anywhere.               *)
WithImports(items, n) ==
  LET Filled(kind, k) == {i \in 1..n : items[i].kind = kind /\ ImportSlot(i) = k}
      Ordinal(i) == Cardinality({j \in 1..i : items[j].kind = items[i].kind})
  IN  [m EXCEPT
        !.functions = [k \in DOMAIN @ |->
          IF Filled("func", k) = {} THEN @[k]
          ELSE LET i == Max(Filled("func", k))
               IN  [@[k] EXCEPT !.from = Ordinal(i), !.type = TypeAt(items[i].type),
                                !.name = items[i].name]],
        !.globals = [k \in DOMAIN @ |->
          IF Filled("global", k) = {} THEN @[k]
          ELSE [@[k] EXCEPT !.from = Ordinal(Max(Filled("global", k)))]],
        !.pages = IF Filled("memory", 1) = {} THEN @ ELSE items[Max(Filled("memory", 1))].type]

LoadImportSection ==
  LET items == file.sections[pos].items
      read == {0} \cup {n \in DOMAIN items : \A i \in 1..n : ImportReadable(items[i])}
      n == Max(read)
  IN  /\ Section("import")
      /\ \/ Flaw = "early" /\ Rejected(m, {})
         \/ /\ Flaw # "early"
            /\ \E i \in 1..n : ImportSlot(i) > ImportSlots(items[i].kind)
            /\ Undefined("import slots")
         \/ /\ Flaw # "early"
            /\ \A i \in 1..n : ImportSlot(i) <= ImportSlots(items[i].kind)
            /\ IF n < Len(items) THEN Rejected(WithImports(items, n), {})
                                 ELSE Loaded(WithImports(items, n), {})

(* load_function_section writes where the imports end, whatever the number *)
(* of slots.                                                               *)
LoadFunctionSection ==
  LET items == file.sections[pos].items
      base == m.imports["func"]
      known == Max({0} \cup {n \in DOMAIN items : \A i \in 1..n : TypeKnown(items[i])})
      touched == IF known < Len(items) THEN known + 1 ELSE known
      mod == [m EXCEPT !.functions = [k \in DOMAIN @ |->
                IF k - base \in 1..known
                THEN [@[k] EXCEPT !.type = TypeAt(items[k - base]),
                                  !.params = Len(TypeOf(TypeAt(items[k - base])).param)]
                ELSE @[k]]]
  IN  /\ Section("func")
      /\ IF Flaw = "early" THEN Rejected(m, {})
         ELSE IF base + touched > Len(m.functions) THEN Undefined("function slots")
         ELSE IF known < Len(items) THEN Rejected(mod, {})
         ELSE Loaded(mod, {})

LoadTableSection ==
  /\ Section("table")
  /\ IF Flaw = "early" THEN Rejected(m, {})
     ELSE IF m.imports["table"] + Len(file.sections[pos].items) > m.tables
          THEN Undefined("table slots")
     ELSE Loaded(m, {})

(* load_memory_section: the module has room for one memory.                *)
LoadMemorySection ==
  LET items == file.sections[pos].items
  IN  /\ Section("memory")
      /\ IF Flaw = "early" THEN Rejected(m, {})
         ELSE IF items # <<>> /\ m.imports["memory"] + Len(items) > 1
              THEN Undefined("memory slots")
         ELSE Loaded(IF items = <<>> THEN m ELSE [m EXCEPT !.pages = Last(items)], {})

(* load_global_section.  A target t > 0 is the global t - 1, which must be *)
(* an import.                                                              *)
LoadGlobalSection ==
  LET items == file.sections[pos].items
      base == m.imports["global"]
      good == Max({0} \cup {n \in DOMAIN items : \A i \in 1..n : items[i] <= base})
      mod == [m EXCEPT !.globals = [k \in DOMAIN @ |->
                IF k - base \in 1..good THEN [from |-> 0, target |-> items[k - base]]
                ELSE @[k]]]
  IN  /\ Section("global")
      /\ IF Flaw = "early" THEN Rejected(m, {})
         ELSE IF base + Len(items) > Len(m.globals) THEN Undefined("global slots")
         ELSE IF good < Len(items) THEN Rejected(mod, {})
         ELSE Loaded(mod, {})

(* load_export_section: the array reaches the module when it is complete.  *)
LoadExportSection ==
  LET items == file.sections[pos].items
      block == IF items = <<>> THEN {} ELSE {<<"exports", pos>>}
  IN  /\ Section("export")
      /\ \/ Flaw = "early" /\ Rejected(m, block)
         \/ /\ Flaw # "early"
            /\ Loaded(IF items = <<>> THEN m
                      ELSE [m EXCEPT !.exports = items, !.exportsBlock = <<"exports", pos>>],
                      block)
         \/ items # <<>> /\ Exhausted(m, {})

LoadStartSection ==
  LET f == file.sections[pos].items[1]
  IN  /\ Section("start")
      /\ IF Flaw = "early" \/ f >= m.counts["func"] + m.imports["func"]
         THEN Rejected(m, {})
         ELSE Loaded([m EXCEPT !.start = f], {})

(* load_element_section: an element owns an array when it has functions.   *)
LoadElementSection ==
  LET items == file.sections[pos].items
      all == 1 .. Len(items)
      Blocks(k) == {<<"elements", pos>>} \cup
                   {<<"indexes", pos, i>> : i \in {j \in 1..k : items[j].funcs > 0}}
  IN  /\ Section("element")
      /\ \/ /\ Flaw # "early"
            /\ IF all = {} THEN Loaded(m, {})
               ELSE Loaded([m EXCEPT !.elements = [i \in all |->
                                        [item |-> items[i],
                                         block |-> IF items[i].funcs > 0
                                                   THEN <<"indexes", pos, i>> ELSE Null]],
                                     !.elementsBlock = <<"elements", pos>>],
                           Blocks(Len(items)))
         \/ all # {} /\ Exhausted(m, {})
         \/ \E i \in all : items[i].funcs > 0 /\ Exhausted(m, Blocks(i - 1))
         \/ Flaw = "early" /\ IF all = {} THEN Rejected(m, {})
                              ELSE \E i \in all : Rejected(m, Blocks(i))

(* load_data_section: the array reaches the module at once.                *)
LoadDataSection ==
  LET items == file.sections[pos].items
      mod == [m EXCEPT !.data = items, !.dataBlock = <<"data", pos>>]
  IN  /\ Section("data")
      /\ \/ items = <<>> /\ IF Flaw = "early" THEN Rejected(m, {}) ELSE Loaded(m, {})
         \/ /\ items # <<>>
            /\ IF Flaw = "early" THEN Rejected(mod, {mod.dataBlock})
                                 ELSE Loaded(mod, {mod.dataBlock})
         \/ items # <<>> /\ Rejected([mod EXCEPT !.dataBlock = Null], {})

(* load_code_section.  Both arrays of a body reach the function together;  *)
(* the parameters are those the function has at this time.                 *)
LoadCodeSection ==
  LET items == file.sections[pos].items
      base == m.imports["func"]
      Types(i) == IF items[i].locals > 0 THEN <<"locals", pos, i>> ELSE Null
      Offsets(i) == IF items[i].locals + m.functions[base + i].params > 0
                    THEN <<"offsets", pos, i>> ELSE Null
      Mod(n) == [m EXCEPT !.functions = [k \in DOMAIN @ |->
                  IF k - base \in 1..n
                  THEN [@[k] EXCEPT !.types = Types(k - base),
                                    !.offsets = Offsets(k - base),
                                    !.room = m.functions[k].params,
                                    !.verdict = items[k - base].verdict,
                                    !.branches = items[k - base].branches]
                  ELSE @[k]]]
      Blocks(n) == (UNION {{Types(i), Offsets(i)} : i \in 1..n}) \ {Null}
  IN  /\ Section("code")
      /\ IF m.counts["func"] # Len(items) THEN Rejected(m, {})
         ELSE \/ Flaw # "early" /\ Loaded(Mod(Len(items)), Blocks(Len(items)))
              \/ /\ Flaw = "early"
                 /\ \E n \in {0} \cup DOMAIN items : Rejected(Mod(n), Blocks(n))
              \/ \E i \in DOMAIN items :
                   \/ Types(i) # Null /\ Rejected(Mod(i - 1), Blocks(i - 1))
                   \/ /\ Offsets(i) # Null
                      /\ Rejected(Mod(i - 1), (Blocks(i - 1) \cup {Types(i)}) \ {Null})

LoadSection ==
  \/ LoadTypeSection \/ LoadImportSection \/ LoadFunctionSection
  \/ LoadTableSection \/ LoadMemorySection \/ LoadGlobalSection
  \/ LoadExportSection \/ LoadStartSection \/ LoadElementSection
  \/ LoadDataSection \/ LoadCodeSection \/ SkipSection \/ LoaderDone
=============================================================================
