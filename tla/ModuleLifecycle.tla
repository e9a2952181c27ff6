--------------------------- MODULE ModuleLifecycle ---------------------------
(***************************************************************************)
(* A module from the loader to its destruction: wasm_validator with its    *)
(* threads, wasm_instantiate, wasm_runtime_wasi_init, execute_main and     *)
(* wasm_module_destory, in the order of main.  What a body means to the    *)
(* validator is module Validator; here a body is valid or not.  The        *)
(* execution of the program (module Interpreter) is one step, and may      *)
(* never come to its end.                                                  *)
(***************************************************************************)
EXTENDS Loader

----------------------------------------------------------------------------
(* wasm_validator *)

Base == m.imports["func"]
Bodies == m.counts["func"]
InRange(export) ==
  /\ export.kind \in ImportKinds
  /\ export.index < m.counts[export.kind] + m.imports[export.kind]

ExportsValid ==
  /\ \A i \in DOMAIN m.exports : InRange(m.exports[i])
  /\ \A i, j \in DOMAIN m.exports : m.exports[i].name = m.exports[j].name => i = j

(* A global has the value of an import, which was never written: what it   *)
(* is read for is undefined, or goes on with any value.                    *)
ImportValued(g) == g <= m.imports["global"] \/ m.globals[g].target > 0

(* The exports and the globals initialised by an import; then the bodies,  *)
(* by threads or, without WASM_ENABLE_THREAD, by main itself.  A thread    *)
(* that cannot be created is joined all the same.                          *)
StartValidator ==
  /\ pc = "validate"
  /\ LET mod == [m EXCEPT !.stage = "Validate"]
         copies == {g \in DOMAIN m.globals : m.globals[g].target > 0}
         unset == {g \in copies : m.globals[m.globals[g].target].from = -1}
     IN  \/ ~ExportsValid /\ Rejected(mod, {})
         \/ ExportsValid /\ unset # {} /\ Undefined("global slots")
         \/ ExportsValid /\ copies # {} /\ Undefined("import value")
         \/ ExportsValid /\ Undefined("thread")
         \/ /\ ExportsValid /\ unset = {}
            /\ m' = mod /\ UNCHANGED <<file, pos, natives, heap, exception, exit, fault, silent>>
            /\ \/ pc' = "serial" /\ UNCHANGED threads
               \/ /\ pc' = "join"
                  /\ threads' = [t \in Threads |-> [threads[t] EXCEPT !.state = "running"]]

Branches(k) == IF m.functions[k].branches THEN {<<"branches", k>>} ELSE {}

(* A thread goes on with the function ThreadNum further on ...             *)
Continued(t) == [threads[t] EXCEPT !.next = @ + ThreadNum, !.ret = TRUE]

(* Mutant: the thread tries the body again.                                *)
StoppedNot(t) == [threads[t] EXCEPT !.ret = FALSE]

(* ... or is ended by a body that is rejected.                             *)
Stopped(t) == [threads[t] EXCEPT !.state = "done", !.ret = FALSE]

(* What the branches of the blocks that are open take beside the table.    *)
Queues(k) == IF m.functions[k].branches THEN {<<"queues", k>>} ELSE {}

(* wasm_validator_code on function k: a body that is accepted keeps the    *)
(* validator's stacks allocated, one that is not keeps the branch table it *)
(* has got so far and the table queues of the blocks it has not ended.     *)
Accept(k) ==
  /\ m.functions[k].verdict = "valid"
  /\ m' = [m EXCEPT !.functions[k].table = IF Branches(k) = {} THEN Null ELSE <<"branches", k>>]
  /\ heap' = heap \cup {<<"stacks", k>>} \cup Branches(k)
  /\ UNCHANGED <<exception, silent>>

Reject(k) ==
  /\ heap' \in {heap, heap \cup Branches(k), heap \cup Branches(k) \cup Queues(k)}
  /\ \/ /\ m.functions[k].verdict # "valid"
        /\ exception' = TRUE /\ UNCHANGED silent
     \/ /\ silent' = silent \cup {k} /\ UNCHANGED exception
  /\ UNCHANGED m

(* What wasm_validator_code needs of a function and does not check.        *)
Unusable(k) ==
  IF m.functions[k].type = Null THEN Undefined("function slots")
  ELSE m.functions[k].room \in 0 .. m.functions[k].params - 1 /\ Undefined("local offsets")

(* wasm_validator_code_callback, one function further ...                  *)
ValidateBody(t) ==
  LET k == Base + threads[t].next + 1
  IN  /\ pc = "join" /\ threads[t].state = "running"
      /\ threads[t].next < Bodies
      /\ \/ Unusable(k)
         \/ /\ m.functions[k].type # Null
            /\ \/ Accept(k) /\ threads' = [threads EXCEPT ![t] = Continued(t)]
               \/ Reject(k) /\ threads' = [threads EXCEPT ![t] = Stopped(t)]
            /\ UNCHANGED <<file, pc, pos, natives, exit, fault>>

(* ... and at its end.  A thread without any function returns a value that *)
(* was never written.                                                      *)
ThreadExit(t) ==
  /\ pc = "join" /\ threads[t].state = "running"
  /\ threads[t].next >= Bodies
  /\ \E ret \in IF threads[t].next = t THEN BOOLEAN ELSE {TRUE} :
       threads' = [threads EXCEPT ![t].state = "done", ![t].ret = ret]
  /\ UNCHANGED <<file, pc, pos, m, natives, heap, exception, exit, fault, silent>>

(* The loop of a build without threads, which counts in threads[0].next.   *)
ValidateSerially ==
  LET k == Base + threads[0].next + 1
  IN  /\ pc = "serial"
      /\ IF threads[0].next >= Bodies THEN Goto("globals", m, {})
         ELSE \/ Unusable(k)
              \/ /\ m.functions[k].type # Null
                 /\ \/ Accept(k) /\ threads' = [threads EXCEPT ![0].next = @ + 1] /\ UNCHANGED pc
                    \/ Reject(k) /\ pc' = "fail" /\ UNCHANGED threads
                 /\ UNCHANGED <<file, pos, natives, exit, fault>>

(* The results are or-ed to a variable that was never written.             *)
JoinThreads ==
  /\ pc = "join" /\ \A t \in Threads : threads[t].state = "done"
  /\ \E unset \in BOOLEAN :
       IF unset \/ \E t \in Threads : threads[t].ret
       THEN Goto("globals", m, {}) ELSE Goto("fail", m, {})

----------------------------------------------------------------------------
(* wasm_instantiate *)

(* Nothing is allocated for an array without entries.                      *)
Allocated(block) == {block} \ {Null}

GlobalsInstantiate ==
  LET n == Len(m.globals)
      staged == [m EXCEPT !.stage = "Instantiate"]
      done == [staged EXCEPT !.counts["global"] = n,
                             !.globalData = IF n = 0 THEN Null ELSE <<"global_data">>]
  IN  /\ pc = "globals"
      /\ IF \E g \in 1..n : m.globals[g].from = -1 THEN Undefined("global slots")
         ELSE \/ Goto("memories", done, Allocated(done.globalData))
              \/ n > 0 /\ Rejected(staged, {})
              \/ (\E g \in 1..n : ImportValued(g)) /\ Undefined("import value")

(* The offset of a segment: global g + 1 is global g, whatever g is, and 0 *)
(* a constant.                                                             *)
NoSuchGlobal(segment) == segment.global > Len(m.globals)
AnyOffset(segment) ==
  segment.global \in 1 .. Len(m.globals) /\ ImportValued(segment.global)

(* The pages that 2^32 bytes have.                                         *)
PageLimit == 65536

(* memories_instantiate: a size of 2^32 bytes is cut to none, and behind   *)
(* the one memory the module has room for is something else.               *)
MemoriesInstantiate ==
  LET n == m.imports["memory"] + m.counts["memory"]
      none == n = 0 \/ m.pages = 0
      done == [m EXCEPT !.counts["memory"] = n,
                        !.memoryData = IF none THEN Null ELSE <<"memory_data">>]
      lost == {i \in DOMAIN m.data : NoSuchGlobal(m.data[i])}
      outside == {i \in DOMAIN m.data : none \/ ~m.data[i].fits}
      anywhere == {i \in DOMAIN m.data : AnyOffset(m.data[i])}
  IN  /\ pc = "memories"
      /\ \/ ~none /\ Rejected(m, {})
         \/ ~none /\ m.pages >= PageLimit /\ Undefined("memory size")
         \/ n > 1 /\ Undefined("memory slots")
         \/ /\ n <= 1 /\ (none \/ m.pages < PageLimit)
            /\ \/ lost # {} /\ Undefined("global slots")
               \/ outside # {} /\ Undefined("data segment")
               \/ anywhere # {} /\ Undefined("import value")
               \/ /\ lost \cup outside = {}
                  /\ Goto("tables", done, Allocated(done.memoryData))

(* tables_instantiate: elements are checked against their table, but the   *)
(* indexes of the table and of the global that is the offset are not.      *)
TablesInstantiate ==
  LET n == m.tables
      Data(k) == [m EXCEPT !.tableData = [i \in 1..n |->
                             IF i <= k THEN <<"table_data", i>> ELSE Null]]
      Blocks(k) == {<<"table_data", i>> : i \in 1..k}
      Item(e) == m.elements[e].item
      Found(e) == Item(e).table < n /\ ~NoSuchGlobal(Item(e))
      all == DOMAIN m.elements
      Reached(e) == \A d \in 1 .. e - 1 : Found(d) /\ Item(d).fits
  IN  /\ pc = "tables"
      /\ \/ \E k \in 0 .. n - 1 : Rejected(Data(k), Blocks(k))
         \/ \E e \in all : /\ Reached(e) /\ Item(e).table >= n
                           /\ Undefined("element")
         \/ \E e \in all : /\ Reached(e) /\ NoSuchGlobal(Item(e))
                           /\ Undefined("global slots")
         \/ \E e \in all : /\ Reached(e) /\ Found(e)
                           /\ ~Item(e).fits \/ AnyOffset(Item(e))
                           /\ Rejected(Data(n), Blocks(n))
         \/ /\ \A e \in all : Found(e) /\ Item(e).fits
            /\ Goto("exports", [Data(n) EXCEPT !.counts["table"] = n], Blocks(n))

ExportInstantiate ==
  /\ pc = "exports"
  /\ \/ Goto("functions", [m EXCEPT !.exportFuncs = <<"export_functions">>],
             {<<"export_functions">>})
     \/ Rejected(m, {})

(* functions_instantiate: each import is linked, and only then the count   *)
(* includes the imports.                                                   *)
FunctionsInstantiate ==
  LET Linked(k) == Resolves(natives.table, natives.nodes, m.functions[k].name,
                            TypeOf(m.functions[k].type))
      bad == {k \in 1..Base : m.functions[k].from = 0 \/ ~Linked(k)}
  IN  /\ pc = "functions"
      /\ IF bad = {} THEN Goto("wasi", [m EXCEPT !.counts["func"] = @ + Base], {})
         ELSE IF m.functions[Min(bad)].from = 0 THEN Undefined("function slots")
         ELSE Rejected(m, {})

----------------------------------------------------------------------------
(* wasm_runtime_wasi_init *)

(* What it allocates behind the context.  Its failure path frees all of    *)
(* it; wasm_module_destory frees the context alone.                        *)
WasiBlocks == {<<"wasi", b>> : b \in
  {"argv_list", "argv_buf", "env_list", "curfds", "prestats", "argv_environ",
   "addr_pool", "entries", "ns_lookup_list"}}

WasiInit ==
  /\ pc = "wasi"
  /\ LET mod == [m EXCEPT !.wasi = <<"wasi_ctx">>]
     IN  \/ Goto("execute", mod, {<<"wasi_ctx">>} \cup WasiBlocks)
         \/ Rejected(mod, {<<"wasi_ctx">>})
         \/ Exhausted(m, {})

----------------------------------------------------------------------------
(* execute_main *)

(* wasm_lookup_function: the function of the first export with the name.   *)
ExportsOf(name) ==
  {i \in DOMAIN m.exports : m.exports[i].kind = "func" /\ m.exports[i].name = name}
Exported(name) ==
  IF ExportsOf(name) = {} THEN NoFunction
  ELSE m.functions[m.exports[Min(ExportsOf(name))].index + 1]

MainNames == <<"main", "__main_argc_argv", "_main">>

(* _start when it has no parameters and no results, or else main in the    *)
(* first spelling there is, which check_main_func_type must accept.        *)
EntryPoint ==
  LET start == Exported("_start")
      spelt == {i \in DOMAIN MainNames : ExportsOf(MainNames[i]) # {}}
      main == IF spelt = {} THEN NoFunction ELSE Exported(MainNames[Min(spelt)])
      StartType(t) == t.param = <<>> /\ t.result = <<>>
      MainType(t) == t.param \in {<<>>, <<"i32", "i32">>} /\ t.result \in {<<>>, <<"i32">>}
  IN  IF start.type # Null /\ StartType(TypeOf(start.type)) THEN start
      ELSE IF main.type # Null /\ MainType(TypeOf(main.type)) THEN main
      ELSE NoFunction

ExecuteMain ==
  /\ pc = "execute"
  /\ \/ Rejected(m, {})
     \/ Rejected(m, {<<"exec_env">>})
     \/ /\ EntryPoint = NoFunction
        /\ Rejected(m, {<<"exec_env">>, <<"stack">>})
     \/ /\ EntryPoint # NoFunction
        /\ Goto("running", m, {<<"exec_env">>, <<"stack">>})

(* Mutant: the exception is not asked for.                                 *)
CallSucceeds(raised) == TRUE

(* wasm_call_function                                                      *)
CallSucceeded(raised) == ~raised

(* The program ends, or is trapped.  By memory.grow it may have got the    *)
(* memory that it was given none of; or freed it, when the pages add up to *)
(* 2^32, and then the module still points to it.  What the native          *)
(* functions allocate is not looked at.                                    *)
Return ==
  /\ pc = "running"
  /\ \/ UNCHANGED <<m, heap>>
     \/ /\ m.counts["memory"] > 0
        /\ m' = [m EXCEPT !.memoryData = <<"memory_data">>]
        /\ heap' \in {heap \cup {m'.memoryData}, heap \ {m'.memoryData}}
  /\ exception' \in {exception, TRUE}
  /\ pc' = IF CallSucceeded(exception') THEN "destroy" ELSE "fail"
  /\ UNCHANGED <<file, pos, natives, threads, exit, fault, silent>>

----------------------------------------------------------------------------
(* wasm_module_destory *)

(* The functions it takes for defined ones.                                *)
Defined == IF m.stage = "Instantiate" THEN Bodies - Base ELSE Bodies

Own(k) == m.functions[Base + k]

(* Mutant: a type is freed for each of its entries.                        *)
TypeFreesEach == m.types

(* Entries of the array of types: the last reference frees the type.       *)
TypeFrees ==
  LET n == Len(m.types)
      Before(i) == Cardinality({j \in 1 .. i - 1 : m.types[j] = m.types[i]})
  IN  [i \in 1..n |-> IF m.refs[m.types[i]] - Before(i) <= 1 THEN m.types[i] ELSE Null]

FreesOfInstance ==
  <<m.globalData, m.wasi, m.exportFuncs>>
  \o SubSeq(m.tableData, 1, m.counts["table"])
  \o (IF m.counts["memory"] > 0 THEN <<m.memoryData>> ELSE <<>>)

FreesOfValidation == [k \in 1 .. Defined |-> Own(k).table]

(* Mutant: the exports are forgotten.                                      *)
ArraysOfSectionsNoExports == <<m.typesBlock, m.elementsBlock, m.dataBlock>>

ArraysOfSections == <<m.typesBlock, m.exportsBlock, m.elementsBlock, m.dataBlock>>

ArraysOfSlots ==
  [i \in DOMAIN Arrays |-> IF <<Arrays[i]>> \in m.arrays THEN <<Arrays[i]>> ELSE Null]

FreesOfLoad ==
  TypeFrees \o ArraysOfSections \o ArraysOfSlots
  \o (IF <<"functions">> \in m.arrays
      THEN [k \in 1 .. Defined |-> Own(k).offsets] \o [k \in 1 .. Defined |-> Own(k).types]
      ELSE <<>>)
  \o [e \in DOMAIN m.elements |-> m.elements[e].block]

(* The stage tells how much there is to free.  Freeing Null does nothing.  *)
Frees ==
  (IF m.stage = "Instantiate" THEN FreesOfInstance ELSE <<>>)
  \o (IF m.stage # "Load" THEN FreesOfValidation ELSE <<>>)
  \o FreesOfLoad \o << <<"module">>, <<"file">> >>

Released == ToSet(Frees) \ {Null}

Repeats(s) == \E i, j \in DOMAIN s : i < j /\ s[i] = s[j] /\ s[i] # Null

(* The label fail of main; the exception is printed.                       *)
Fail ==
  /\ pc = "fail"
  /\ pc' = "destroy" /\ exit' = -1
  /\ UNCHANGED <<file, pos, m, natives, heap, exception, threads, fault, silent>>

(* A negative number of functions is a very large one to the loops.        *)
Destroy ==
  /\ pc = "destroy"
  /\ IF <<"functions">> \in m.arrays /\ Defined \notin 0 .. Len(m.functions) - Base
     THEN Undefined("function count")
     ELSE IF ~Released \subseteq heap \/ Repeats(Frees)
     THEN Undefined("free")
     ELSE /\ heap' = heap \ Released
          /\ pc' = "exited"
          /\ UNCHANGED <<file, pos, m, natives, exception, threads, exit, fault, silent>>

----------------------------------------------------------------------------

Instantiate ==
  \/ GlobalsInstantiate \/ MemoriesInstantiate \/ TablesInstantiate
  \/ ExportInstantiate \/ FunctionsInstantiate

(* main does everything but the validator's threads.                       *)
Main ==
  \/ InitEnv \/ Options \/ ReadFile \/ CreateModule \/ InitLoad \/ LoadSection
  \/ StartValidator \/ ValidateSerially \/ JoinThreads
  \/ Instantiate \/ WasiInit \/ ExecuteMain
  \/ Fail \/ Destroy

ThreadStep(t) == ValidateBody(t) \/ ThreadExit(t)

Next == Main \/ Return \/ \E t \in Threads : ThreadStep(t)

(* The process and its threads are scheduled; that the program comes to an *)
(* end is not assumed.                                                     *)
Fairness == WF_vars(Main) /\ \A t \in Threads : WF_vars(ThreadStep(t))

Spec == Init /\ [][Next]_vars /\ Fairness
=============================================================================
