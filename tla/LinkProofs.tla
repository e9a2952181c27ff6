----------------------------- MODULE LinkProofs -----------------------------
(***************************************************************************)
(* What is left at the exit, and what the imports are linked to, for all   *)
(* files, all tables of native functions and any number of threads: what   *)
(* is never freed is one of a few named things; and when the program runs  *)
(* its imports are linked to native functions of their names and types,    *)
(* which are what lookup_symbol finds and quick_sort_symbols leaves in the *)
(* table (NativeLink).                                                     *)
(***************************************************************************)
EXTENDS LifecycleProofs

----------------------------------------------------------------------------
(* What is left at the exit                                                *)

(* The blocks of the list of native functions.                             *)
Nodes == {<<"node", 1>>, <<"node", 2>>}

(* The kinds of blocks that the loader of a section allocates ...          *)
SectionTag(id, tag) ==
  \/ id = "type" /\ tag \in {"types", "type"}
  \/ id = "export" /\ tag = "exports"
  \/ id = "element" /\ tag \in {"elements", "indexes"}
  \/ id = "data" /\ tag = "data"
  \/ id = "code" /\ tag \in {"locals", "offsets"}

(* ... and the blocks that the loader of section s did.                    *)
FromSection(b, s) ==
  /\ s \in DOMAIN file.sections /\ Len(b) >= 2 /\ b[2] = s
  /\ SectionTag(file.sections[s].id, b[1])

(* A later section of the same kind was in the file.                      *)
Replaced(s) == \E r \in SectionsOf(file.sections[s].id) : r > s

(* The slot of the module for a block of this kind names it.               *)
Named(mod, b) ==
  \/ b[1] = "types" /\ b = mod.typesBlock
  \/ b[1] = "type" /\ \E i \in DOMAIN mod.types : b = mod.types[i]
  \/ b[1] = "exports" /\ b = mod.exportsBlock
  \/ b[1] = "elements" /\ b = mod.elementsBlock
  \/ b[1] = "indexes" /\ \E e \in DOMAIN mod.elements : b = mod.elements[e].block
  \/ b[1] = "data" /\ b = mod.dataBlock
  \/ /\ <<"functions">> \in mod.arrays
     /\ \E k \in DOMAIN mod.functions :
          /\ k > mod.imports["func"]
          /\ \/ b[1] = "locals" /\ b = mod.functions[k].types
             \/ b[1] = "offsets" /\ b = mod.functions[k].offsets

(* A block of a section that was read names its slot still, or a later     *)
(* section of the kind took the slot.                                      *)
Traced(mod, b, p) ==
  \E s \in DOMAIN file.sections :
    FromSection(b, s) /\ s < p /\ (Replaced(s) \/ Named(mod, b))

(* The blocks that do not come from a section.                             *)
Owned(mod, b) ==
  \/ b \in NeverFreed \/ b \in {<<"module">>, <<"file">>}
  \/ b \in mod.arrays /\ \E i \in DOMAIN Arrays : b = <<Arrays[i]>>
  \/ b[1] = "stacks"
  \/ /\ mod.stage # "Load"
     /\ \E k \in DOMAIN mod.functions :
          /\ k > mod.imports["func"]
          /\ b = <<"branches", k>> \/ (b = <<"queues", k>> /\ mod.functions[k].table = Null)
  \/ /\ mod.stage = "Instantiate"
     /\ \/ \E i \in DOMAIN mod.tableData : b = <<"table_data", i>> /\ b = mod.tableData[i]
        \/ b = <<"global_data">> /\ b = mod.globalData
        \/ b = <<"memory_data">> /\ b = mod.memoryData
        \/ b = <<"export_functions">> /\ b = mod.exportFuncs
        \/ b = <<"wasi_ctx">> /\ b = mod.wasi

(* On the way to the destruction the section that failed has blocks that   *)
(* nothing names.                                                          *)
Ending == {"fail", "destroy"}
Ledger(mod, h, p, next) ==
  \A b \in h : \/ Owned(mod, b) \/ Traced(mod, b, p)
               \/ next \in Ending /\ FromSection(b, p)

(* What is not yet instantiated where main goes on.                        *)
BeforeGlobals == {"header", "sections", "validate", "join", "serial", "globals"}
BeforeMemories == BeforeGlobals \cup {"memories"}
BeforeTables == BeforeMemories \cup {"tables"}
BeforeWasi == BeforeTables \cup {"exports", "functions"}

(* wasm_instantiate has not yet added the imports to the counts.           *)
Unlinked(mod, kind) == mod.stage = "Instantiate" /\ mod.wasi = Null /\ mod.imports[kind] > 0

(* The functions that wasm_module_destory takes for defined ones are all   *)
(* that follow the imports, and the tables it frees all that there are.    *)
FunctionsTaken(mod) ==
  DOMAIN mod.functions =
    1 .. IF mod.stage = "Instantiate" THEN mod.counts["func"]
         ELSE mod.imports["func"] + mod.counts["func"]
TablesTaken(mod) ==
  \A i \in DOMAIN mod.tableData : mod.tableData[i] = Null \/ i <= mod.counts["table"]

(* How far the counts and the slots of the instance have come.             *)
InPhase(mod, next) ==
  /\ next \in BeforeGlobals <=> (mod.stage # "Instantiate" /\ next \notin Ending)
  /\ next \in {"header", "sections", "validate"} => mod.stage = "Load"
  /\ next \in {"join", "serial"} => mod.stage # "Load"
  /\ next \in BeforeMemories => mod.memoryData = Null
  /\ mod.memoryData # Null => mod.counts["memory"] > 0
  /\ next \in BeforeTables =>
       /\ \A i \in DOMAIN mod.tableData : mod.tableData[i] = Null
       /\ mod.tables = mod.imports["table"] + mod.counts["table"]
  /\ next \notin BeforeTables \cup Ending => mod.counts["table"] = mod.tables
  /\ next \in BeforeWasi =>
       /\ mod.wasi = Null
       /\ DOMAIN mod.functions = 1 .. mod.imports["func"] + mod.counts["func"]
  /\ next \notin BeforeWasi \cup Ending => DOMAIN mod.functions = 1 .. mod.counts["func"]
  /\ next \in Ending =>
       /\ FunctionsTaken(mod) \/ Unlinked(mod, "func")
       /\ TablesTaken(mod) \/ Unlinked(mod, "table")

(* The counts are numbers.                                                *)
Numbers(mod) ==
  \A kind \in {"func", "table", "memory"} : mod.imports[kind] \in Nat /\ mod.counts[kind] \in Nat

(* The inductive invariant: every block is accounted for.                  *)
Accounting ==
  /\ pc \in {"options", "read"} => heap \subseteq Nodes
  /\ pc = "create" => heap \subseteq Nodes \cup {<<"file">>}
  /\ pc = "header" => heap \subseteq Nodes \cup {<<"file">>, <<"module">>}
  /\ pc \notin Early \cup {"exited", "undefined"} =>
       Numbers(m) /\ InPhase(m, pc) /\ Ledger(m, heap, pos, pc)
  /\ LeaksConfined

(* A step that comes to an accounted module.                               *)
LEMMA StepAccounted ==
  ASSUME file' = file, pc' \notin Over \cup {"header"},
         pc' # "undefined" =>
           Numbers(m') /\ InPhase(m', pc') /\ Ledger(m', heap', pos', pc')
  PROVE  Accounting'
<1>1. \A id : SectionsOf(id)' = SectionsOf(id)
  BY DEF SectionsOf
<1>2. \A s : Replaced(s)' <=> Replaced(s)
  BY <1>1 DEF Replaced
<1>3. \A b, s : FromSection(b, s)' <=> FromSection(b, s)
  BY DEF FromSection
<1>4. \A b : Traced(m, b, pos)' <=> Traced(m', b, pos')
  BY <1>2, <1>3 DEF Traced, Named
<1>5. \A b : Owned(m, b)' <=> Owned(m', b)
  BY Zenon DEF Owned
<1>6. FromSection(pc, pos)' = FromSection(pc', pos') /\ \A b : FromSection(b, pos)' <=> FromSection(b, pos')
  BY DEF FromSection
<1>7. pc' # "undefined" => Ledger(m, heap, pos, pc)'
  BY <1>4, <1>5, <1>6 DEF Ledger
<1>8. pc' # "undefined" => (Numbers(m) /\ InPhase(m, pc))'
  BY DEF Numbers, InPhase, FunctionsTaken, TablesTaken, Unlinked
<1>9. LeaksConfined'
  BY DEF LeaksConfined, Final, Over
<1> QED BY <1>7, <1>8, <1>9 DEF Accounting, Early, Final, Over

(* What was accounted for still is when the module names as much as        *)
(* before, and the new blocks are its own or those of a failed section.    *)
LEMMA LedgerGrown ==
  ASSUME NEW mod, NEW new, NEW h, NEW p, NEW next, NEW goal, NEW blocks, Ledger(mod, h, p, next),
         next \in Ending => goal \in Ending,
         \A b \in h : /\ Owned(mod, b) => Owned(new, b)
                      /\ Named(mod, b) => Named(new, b),
         \A b \in blocks : Owned(new, b) \/ (goal \in Ending /\ FromSection(b, p))
  PROVE  Ledger(new, h \cup blocks, p, goal)
<1>1. \A b \in h : Traced(mod, b, p) => Traced(new, b, p)
  BY Zenon DEF Traced
<1> QED BY <1>1 DEF Ledger

(* main goes on with a module that is accounted for.                      *)
LEMMA GotoAccounted ==
  ASSUME NEW next, next \notin Over \cup {"header"}, NEW mod, NEW blocks, Goto(next, mod, blocks),
         next # "undefined" =>
           Numbers(mod) /\ InPhase(mod, next) /\ Ledger(mod, heap \cup blocks, pos, next)
  PROVE  Accounting'
<1>1. /\ file' = file /\ pc' = next /\ m' = mod /\ heap' = heap \cup blocks /\ pos' = pos
  BY DEF Goto, Untouched
<1> QED BY <1>1, StepAccounted, Zenon

(* main gives up with a module that is accounted for.                     *)
LEMMA RejectedAccounted ==
  ASSUME NEW mod, NEW blocks, Rejected(mod, blocks) \/ Exhausted(mod, blocks),
         Numbers(mod), InPhase(mod, "fail"), Ledger(mod, heap \cup blocks, pos, "fail")
  PROVE  Accounting'
<1>1. /\ file' = file /\ pc' = "fail" /\ m' = mod /\ heap' = heap \cup blocks /\ pos' = pos
  BY DEF Rejected, Exhausted, Goto, Untouched
<1>2. "fail" \notin Over \cup {"header"} /\ "fail" # "undefined"
  BY DEF Final, Over, Early
<1> QED BY <1>1, <1>2, StepAccounted, Zenon

(* Nothing is claimed of what follows undefined behaviour.                *)
LEMMA UndefinedAccounted ==
  ASSUME NEW what, Undefined(what)
  PROVE  Accounting'
<1>1. file' = file /\ pc' = "undefined" /\ "undefined" \notin Over \cup {"header"}
  BY DEF Undefined, Untouched, Final, Over, Early
<1> QED BY <1>1, StepAccounted

(* What is known where there is a module.                                  *)
LEMMA Accounted ==
  ASSUME Possession, Accounting, pc \notin Final \/ pc \in Ending
  PROVE  /\ Numbers(m) /\ InPhase(m, pc) /\ Ledger(m, heap, pos, pc)
         /\ Holdings(m, Known) /\ DOMAIN m = DOMAIN NewModule /\ file \in Files
         /\ pc \notin Final => Holdings(m, heap)
<1>1. pc \notin Early \cup {"exited", "undefined"}
  BY DEF Final, Over, Early, Ending
<1>2. Holdings(m, Known)
  BY <1>1 DEF Possession
<1> QED BY <1>1, <1>2, SlotsHeld DEF Accounting, Possession, Holdings

(* From every phase main may turn to the destruction.                      *)
LEMMA PhaseFails ==
  ASSUME NEW mod, NEW next, InPhase(mod, next), Numbers(mod), NEW h, HoldsTables(mod, h)
  PROVE  InPhase(mod, "fail")
<1>0. /\ "fail" \in Ending /\ "fail" \notin BeforeWasi /\ "fail" \notin BeforeTables
      /\ "fail" \notin BeforeMemories /\ "fail" \notin BeforeGlobals
      /\ "fail" \notin {"header", "sections", "validate", "join", "serial"}
  BY DEF Ending, BeforeGlobals, BeforeMemories, BeforeTables, BeforeWasi
<1>1. /\ mod.imports["func"] \in Nat /\ mod.counts["func"] \in Nat
      /\ mod.counts["table"] \in Nat /\ mod.tables \in Nat
  BY DEF Numbers, HoldsTables
<1>2. FunctionsTaken(mod) \/ Unlinked(mod, "func")
  <2>1. CASE next \in Ending
    BY <2>1 DEF InPhase
  <2>2. CASE next \in BeforeGlobals
    <3>1. next \in BeforeWasi /\ mod.stage # "Instantiate"
      BY <2>2 DEF InPhase, BeforeTables, BeforeMemories, BeforeWasi
    <3> QED BY <3>1 DEF InPhase, FunctionsTaken
  <2>3. CASE next \in BeforeWasi \ BeforeGlobals
    <3>1. mod.stage = "Instantiate" /\ mod.wasi = Null
          /\ DOMAIN mod.functions = 1 .. mod.imports["func"] + mod.counts["func"]
      BY <2>3 DEF InPhase, BeforeWasi, BeforeTables, BeforeMemories, BeforeGlobals, Ending
    <3>2. CASE mod.imports["func"] > 0
      BY <3>1, <3>2 DEF Unlinked
    <3>3. CASE ~(mod.imports["func"] > 0)
      <4>1. mod.imports["func"] + mod.counts["func"] = mod.counts["func"]
        BY <1>1, <3>3
      <4> QED BY <3>1, <4>1 DEF FunctionsTaken
    <3> QED BY <3>2, <3>3
  <2>4. CASE next \notin BeforeWasi \cup Ending
    <3>1. mod.stage = "Instantiate" /\ DOMAIN mod.functions = 1 .. mod.counts["func"]
      BY <2>4 DEF InPhase, BeforeWasi, BeforeTables, BeforeMemories
    <3> QED BY <3>1 DEF FunctionsTaken
  <2> QED BY <2>1, <2>2, <2>3, <2>4
<1>3. TablesTaken(mod) \/ Unlinked(mod, "table")
  <2>1. CASE next \in Ending
    BY <2>1 DEF InPhase
  <2>2. CASE next \in BeforeTables
    BY <2>2 DEF InPhase, TablesTaken
  <2>3. CASE next \notin BeforeTables \cup Ending
    <3>1. mod.counts["table"] = mod.tables
      BY <2>3 DEF InPhase
    <3>2. DOMAIN mod.tableData = 1 .. mod.tables
      BY DEF HoldsTables, Counted
    <3> QED BY <1>1, <3>1, <3>2 DEF TablesTaken
  <2> QED BY <2>1, <2>2, <2>3
<1>4. mod.memoryData # Null => mod.counts["memory"] > 0
  BY DEF InPhase
<1> QED BY <1>0, <1>2, <1>3, <1>4 DEF InPhase

----------------------------------------------------------------------------
(* The accounts of the loader                                              *)

(* main up to wasm_module_create.                                          *)
LEMMA EarlyAccounted ==
  ASSUME Possession, Accounting, InitEnv \/ Options \/ ReadFile \/ CreateModule
  PROVE  Accounting'
<1>1. ASSUME heap' \subseteq Nodes \cup {<<"file">>}, pc' \in {"options", "read", "create", "exited"},
             pc' # "create" => heap' \subseteq Nodes
      PROVE  Accounting'
  <2>1. LeaksConfined'
    <3>1. ASSUME pc' = "exited", NEW b \in heap' PROVE b \in NeverFreed
      BY <1>1, <3>1 DEF Nodes, NeverFreed
    <3> QED BY <3>1 DEF LeaksConfined, NeverFreed
  <2> QED BY <1>1, <2>1 DEF Accounting, Early
<1>2. CASE InitEnv
  <2>1. pc' = "options" /\ heap' \subseteq Nodes
    BY <1>2 DEF InitEnv, Nodes
  <2> QED BY <1>1, <2>1
<1>3. CASE Options
  <2>1. pc' \in {"read", "exited"} /\ heap' = heap /\ heap \subseteq Nodes
    BY <1>3 DEF Options, Accounting
  <2> QED BY <1>1, <2>1
<1>4. CASE ReadFile
  <2>1. heap \subseteq Nodes
    BY <1>4 DEF ReadFile, Accounting
  <2>2. CASE pc' = "create" /\ heap' = heap \cup {<<"file">>}
    BY <1>1, <2>1, <2>2
  <2>3. CASE pc' = "exited" /\ heap' = heap
    BY <1>1, <2>1, <2>3
  <2> QED BY <1>4, <2>2, <2>3 DEF ReadFile
<1>5. CASE CreateModule
  <2>1. heap \subseteq Nodes \cup {<<"file">>} /\ m' = NewModule /\ file' = file
        /\ \/ pc' = "header" /\ heap' = heap \cup {<<"module">>}
           \/ pc' = "exited" /\ heap' = heap \ {<<"file">>}
    BY <1>5 DEF CreateModule, Accounting
  <2>2. CASE pc' = "exited" /\ heap' = heap \ {<<"file">>}
    <3>1. heap' \subseteq Nodes
      BY <2>1, <2>2
    <3> QED BY <1>1, <2>2, <3>1
  <2>3. CASE pc' = "header" /\ heap' = heap \cup {<<"module">>}
    <3>2. Numbers(NewModule)
      BY DEF Numbers, NewModule, ImportKinds
    <3>3. InPhase(NewModule, "header")
      <4>1. /\ "header" \in BeforeGlobals /\ "header" \in BeforeMemories /\ "header" \in BeforeTables
            /\ "header" \in BeforeWasi /\ "header" \notin Ending
        BY DEF BeforeGlobals, BeforeMemories, BeforeTables, BeforeWasi, Ending
      <4>2. /\ NewModule.stage = "Load" /\ NewModule.globalData = Null /\ NewModule.memoryData = Null
            /\ NewModule.tableData = <<>> /\ NewModule.tables = 0 /\ NewModule.wasi = Null
            /\ NewModule.imports["table"] = 0 /\ NewModule.counts["table"] = 0
            /\ NewModule.imports["func"] = 0 /\ NewModule.counts["func"] = 0
            /\ NewModule.functions = <<>>
        BY DEF NewModule, ImportKinds
      <4>3. DOMAIN <<>> = 1 .. 0 + 0 /\ \A i \in DOMAIN <<>> : FALSE
        OBVIOUS
      <4> QED BY <4>1, <4>2, <4>3 DEF InPhase
    <3>4. (Numbers(m) /\ InPhase(m, pc) /\ Ledger(m, heap, pos, pc))'
      BY <2>1, <2>3, <3>2, <3>3
      DEF Numbers, InPhase, FunctionsTaken, TablesTaken, Unlinked, Ledger, Owned, Nodes, NeverFreed
    <3>5. heap' \subseteq Nodes \cup {<<"file">>, <<"module">>}
      BY <2>1, <2>3
    <3> QED BY <2>3, <3>4, <3>5 DEF Accounting, LeaksConfined
  <2> QED BY <2>1, <2>2, <2>3
<1> QED BY <1>2, <1>3, <1>4, <1>5

(* init_load: the arrays of slots, as far as there was memory for them.    *)
LEMMA InitLoadAccounted ==
  ASSUME Possession, Accounting, InitLoad
  PROVE  Accounting'
<1> DEFINE counted == [m EXCEPT !.imports = [k \in ImportKinds |-> ImportCount(k)],
                                !.counts  = [k \in ImportKinds |-> SectionCount(k)]]
           zeroed  == [counted EXCEPT !.functions = [i \in 1 .. Slots("func") |-> NoFunction],
                                      !.globals = [i \in 1 .. Slots("global") |-> NoGlobal],
                                      !.tables = Slots("table"),
                              !.tableData = [i \in 1 .. Slots("table") |-> Null]]
           Blocks(n) == {<<Arrays[i]>> : i \in 1..n}
           With(n) == [zeroed EXCEPT !.arrays = Blocks(n)]
<1>1. pc = "header" /\ pc \notin Final /\ pc # "undefined"
  BY DEF InitLoad, Final, Over, Early
<1>2. /\ Numbers(m) /\ InPhase(m, pc) /\ Ledger(m, heap, pos, pc)
      /\ Holdings(m, heap) /\ DOMAIN m = DOMAIN NewModule /\ file \in Files
  BY <1>1, Accounted
<1>3. m = NewModule
  BY <1>1 DEF Possession
<1>4. \A k \in ImportKinds : ImportCount(k) \in Nat /\ SectionCount(k) \in Nat
  BY <1>2, SectionCountNat, ImportCountNat
<1>5. ASSUME NEW n
      PROVE  /\ With(n).arrays = Blocks(n) /\ With(n).stage = "Load"
             /\ With(n).functions = [i \in 1 .. Slots("func") |-> NoFunction]
             /\ With(n).imports = [k \in ImportKinds |-> ImportCount(k)]
             /\ With(n).counts = [k \in ImportKinds |-> SectionCount(k)]
             /\ With(n).tables = Slots("table")
             /\ With(n).tableData = [i \in 1 .. Slots("table") |-> Null]
             /\ With(n).globalData = Null /\ With(n).memoryData = Null /\ With(n).wasi = Null
  BY <1>3, ModuleFields DEF NewModule
<1>6. \/ Rejected(m, {}) \/ Goto("sections", With(3), Blocks(3))
      \/ \E n \in 0..2 : Exhausted(With(n), Blocks(n))
  BY DEF InitLoad
<1> HIDE DEF With, Blocks
<1>8. ASSUME NEW n PROVE Numbers(With(n)) /\ InPhase(With(n), "sections")
  <2> DEFINE new == With(n)
  <2>1. /\ new.stage = "Load" /\ new.globalData = Null /\ new.memoryData = Null /\ new.wasi = Null
        /\ new.functions = [i \in 1 .. Slots("func") |-> NoFunction]
        /\ new.tables = Slots("table") /\ new.tableData = [i \in 1 .. Slots("table") |-> Null]
        /\ \A k \in ImportKinds : new.imports[k] = ImportCount(k) /\ new.counts[k] = SectionCount(k)
    BY <1>5
  <2> HIDE DEF new
  <2>2. {"func", "table", "memory"} \subseteq ImportKinds
    BY DEF ImportKinds
  <2>3. Numbers(new)
    BY <1>4, <2>1, <2>2 DEF Numbers
  <2>4. /\ "sections" \in BeforeGlobals /\ "sections" \in BeforeMemories
        /\ "sections" \in BeforeTables /\ "sections" \in BeforeWasi /\ "sections" \notin Ending
    BY DEF BeforeGlobals, BeforeMemories, BeforeTables, BeforeWasi, Ending
  <2>5. /\ new.tables = new.imports["table"] + new.counts["table"]
        /\ DOMAIN new.functions = 1 .. new.imports["func"] + new.counts["func"]
        /\ \A i \in DOMAIN new.tableData : new.tableData[i] = Null
    BY <2>1, <2>2 DEF Slots
  <2>6. InPhase(new, "sections")
    BY <2>1, <2>4, <2>5 DEF InPhase
  <2> QED BY <2>3, <2>6 DEF new
<1>7. ASSUME NEW n \in 0 .. 3, NEW b \in Blocks(n)
      PROVE  \E i \in DOMAIN Arrays : b = <<Arrays[i]>>
  BY <1>7 DEF Blocks, Arrays
<1>9. ASSUME NEW n \in 0 .. 3, NEW next
      PROVE  Ledger(With(n), heap \cup Blocks(n), pos, next)
  <2>1. heap \subseteq Nodes \cup {<<"file">>, <<"module">>}
    BY <1>1 DEF Accounting
  <2>2. With(n).arrays = Blocks(n)
    BY <1>5
  <2>3. ASSUME NEW b \in heap PROVE Owned(With(n), b)
    BY <2>1 DEF Owned, Nodes, NeverFreed
  <2>4. ASSUME NEW b \in Blocks(n) PROVE Owned(With(n), b)
    BY <1>7, <2>2 DEF Owned
  <2> QED BY <2>3, <2>4 DEF Ledger
<1>10. ASSUME NEW n \in 0 .. 3, Goto("sections", With(n), Blocks(n))
       PROVE  Accounting'
  <2>1. "sections" \notin Over \cup {"header"}
    BY DEF Final, Over, Early
  <2> QED BY <1>8, <1>9, <1>10, <2>1, GotoAccounted
<1>11. ASSUME NEW n \in 0 .. 3, Exhausted(With(n), Blocks(n))
       PROVE  Accounting'
  <2>1. Possession'
    BY InitLoadKept
  <2>2. m' = With(n) /\ heap' = heap \cup Blocks(n) /\ pc' = "fail"
    BY <1>11 DEF Exhausted, Goto
  <2>3. HoldsTables(With(n), heap)
    <3>1. HoldsTables(With(n), Known')
      BY <2>1, <2>2 DEF Possession, Early, Holdings
    <3>2. With(n).tableData = [i \in 1 .. Slots("table") |-> Null]
      BY <1>5
    <3> QED BY <3>1, <3>2 DEF HoldsTables
  <2>4. InPhase(With(n), "fail")
    BY <1>8, <2>3, PhaseFails
  <2> QED BY <1>8, <1>9, <1>11, <2>4, RejectedAccounted
<1>12. CASE Rejected(m, {})
  <2>1. InPhase(m, "fail")
    BY <1>2, PhaseFails DEF Holdings
  <2>2. Ledger(m, heap \cup {}, pos, "fail")
    BY <1>1, <1>2, LedgerGrown DEF Ending
  <2> QED BY <1>2, <1>12, <2>1, <2>2, RejectedAccounted
<1>13. 3 \in 0 .. 3 /\ \A n \in 0 .. 2 : n \in 0 .. 3
  OBVIOUS
<1> QED BY <1>6, <1>10, <1>11, <1>12, <1>13

(* What no loader of a section changes.                                    *)
Framed(new) ==
  /\ new.stage = m.stage /\ new.imports = m.imports /\ new.counts = m.counts
  /\ new.arrays = m.arrays /\ new.tables = m.tables /\ new.tableData = m.tableData
  /\ new.globalData = m.globalData /\ new.memoryData = m.memoryData
  /\ new.exportFuncs = m.exportFuncs /\ new.wasi = m.wasi
  /\ DOMAIN new.functions = DOMAIN m.functions

(* Such a change leaves the accounts of everything else as they are.       *)
LEMMA FramedSame ==
  ASSUME NEW new, Framed(new)
  PROVE  /\ Numbers(m) => Numbers(new)
         /\ \A next : InPhase(m, next) => InPhase(new, next)
         /\ m.stage = "Load" => \A b : Owned(m, b) => Owned(new, b)
<1>1. Numbers(m) => Numbers(new)
  BY DEF Framed, Numbers
<1>2. ASSUME NEW next PROVE InPhase(m, next) => InPhase(new, next)
  BY DEF Framed, InPhase, FunctionsTaken, TablesTaken, Unlinked
<1>3. ASSUME m.stage = "Load", NEW b PROVE Owned(m, b) => Owned(new, b)
  <2>1. m.stage # "Instantiate"
    BY <1>3
  <2> QED BY <1>3, <2>1, Zenon DEF Framed, Owned
<1> QED BY <1>1, <1>2, <1>3

(* A module that differs in none of the fields the phases are about.      *)
LEMMA FramedAgree ==
  ASSUME NEW new, DOMAIN m = DOMAIN NewModule, DOMAIN new.functions = DOMAIN m.functions,
         Agree(new, m, {"start", "functions", "globals", "pages", "types", "refs", "typesBlock",
                        "exports", "exportsBlock", "elements", "elementsBlock", "data", "dataBlock"})
  PROVE  Framed(new)
BY ModuleFields DEF Agree, Framed

(* A section fails: its blocks are those of the section that failed, and   *)
(* what it took a slot from had its blocks from an earlier section.        *)
LEMMA SectionFails ==
  ASSUME Possession, Accounting, NEW id, Section(id), NEW new, Framed(new), NEW blocks,
         Rejected(new, blocks) \/ Exhausted(new, blocks),
         \A b \in blocks : FromSection(b, pos),
         \A b : Named(m, b) => Named(new, b) \/ SectionTag(id, b[1])
  PROVE  Accounting'
<1>1. /\ pc = "sections" /\ pos \in DOMAIN file.sections /\ file.sections[pos].id = id
      /\ pc \notin Final /\ pc # "undefined"
  BY DEF Section, Final, Over, Early
<1>2. /\ Numbers(m) /\ InPhase(m, pc) /\ Ledger(m, heap, pos, pc) /\ Holdings(m, heap)
  BY <1>1, Accounted
<1>3. InPhase(m, "fail")
  BY <1>2, PhaseFails DEF Holdings
<1>4. Ledger(new, heap \cup blocks, pos, "fail")
  <2>1. ASSUME NEW b \in heap, Owned(m, b) PROVE Owned(new, b)
    <3>1. m.stage = "Load"
      BY <1>1, <1>2 DEF Section, InPhase
    <3> QED BY <2>1, <3>1, FramedSame
  <2>2. ASSUME NEW b \in heap, NEW s \in DOMAIN file.sections,
               FromSection(b, s), s < pos, Named(m, b)
        PROVE  Replaced(s) \/ Named(new, b)
    <3>1. CASE SectionTag(id, b[1])
      <4>1. file.sections[s].id = id
        BY <2>2, <3>1 DEF FromSection, SectionTag
      <4>2. pos > s /\ pos \in SectionsOf(file.sections[s].id)
        BY <1>1, <2>2, <4>1, FileShape DEF SectionsOf, Possession, Counted
      <4> QED BY <4>2 DEF Replaced
    <3> QED BY <2>2, <3>1
  <2>3. ASSUME NEW b \in heap, Traced(m, b, pos) PROVE Traced(new, b, pos)
    BY <2>2, <2>3, Zenon DEF Traced
  <2>4. \A b \in heap : Owned(m, b) \/ Traced(m, b, pos)
    BY <1>1, <1>2 DEF Ledger, Ending
  <2> QED BY <2>1, <2>3, <2>4 DEF Ledger, Ending
<1> QED BY <1>2, <1>3, <1>4, FramedSame, RejectedAccounted

(* A section is loaded: the module names the new blocks.                   *)
LEMMA SectionPasses ==
  ASSUME Possession, Accounting, NEW id, Section(id), NEW new, Framed(new), NEW blocks,
         Loaded(new, blocks),
         \A b \in blocks : FromSection(b, pos) /\ Named(new, b),
         \A b : Named(m, b) => Named(new, b) \/ SectionTag(id, b[1])
  PROVE  Accounting'
<1>1. /\ pc = "sections" /\ pos \in DOMAIN file.sections /\ file.sections[pos].id = id
      /\ pc \notin Final /\ pc # "undefined"
  BY DEF Section, Final, Over, Early
<1>2. /\ Numbers(m) /\ InPhase(m, pc) /\ Ledger(m, heap, pos, pc) /\ file \in Files
  BY <1>1, Accounted
<1>3. CASE Flaw = "late"
  <2>1. Rejected(new, blocks)
    BY <1>3 DEF Loaded
  <2> QED BY <2>1, SectionFails
<1>4. CASE Flaw # "late"
  <2>0. /\ m' = new /\ heap' = heap \cup blocks /\ pos' = pos + 1 /\ file' = file /\ pc' = pc
    BY <1>4 DEF Loaded, Untouched
  <2>1. ASSUME NEW b \in heap, Owned(m, b) PROVE Owned(new, b)
    <3>1. m.stage = "Load"
      BY <1>1, <1>2 DEF Section, InPhase
    <3> QED BY <2>1, <3>1, FramedSame
  <2>2. DOMAIN file.sections \subseteq Nat
    BY <1>2, FileShape DEF Counted
  <2>3. ASSUME NEW b \in heap, Traced(m, b, pos) PROVE Traced(new, b, pos + 1)
    <3>1. PICK s \in DOMAIN file.sections :
            FromSection(b, s) /\ s < pos /\ (Replaced(s) \/ Named(m, b))
      BY <2>3 DEF Traced
    <3>2. s < pos + 1 /\ pos > s
      BY <1>1, <2>2, <3>1
    <3>3. Replaced(s) \/ Named(new, b)
      <4>1. CASE SectionTag(id, b[1])
        <5>1. file.sections[s].id = id
          BY <3>1, <4>1 DEF FromSection, SectionTag
        <5>2. pos \in SectionsOf(file.sections[s].id)
          BY <1>1, <5>1 DEF SectionsOf
        <5> QED BY <3>2, <5>2 DEF Replaced
      <4> QED BY <3>1, <4>1
    <3> QED BY <3>1, <3>2, <3>3 DEF Traced
  <2>4. ASSUME NEW b \in blocks PROVE Traced(new, b, pos + 1)
    <3>1. pos < pos + 1
      BY <1>1, <2>2
    <3> QED BY <1>1, <3>1 DEF Traced
  <2>5. \A b \in heap : Owned(m, b) \/ Traced(m, b, pos)
    BY <1>1, <1>2 DEF Ledger, Ending
  <2>6. Ledger(new, heap \cup blocks, pos + 1, pc)
    BY <2>1, <2>3, <2>4, <2>5 DEF Ledger
  <2>7. Numbers(new) /\ InPhase(new, pc)
    BY <1>2, FramedSame
  <2>8. pc' \notin Over \cup {"header"}
    BY <1>1, <2>0 DEF Final, Over, Early
  <2> QED BY <2>0, <2>6, <2>7, <2>8, StepAccounted
<1> QED BY <1>3, <1>4

(* A section leaves the module as it was.                                  *)
LEMMA SectionUnchanged ==
  ASSUME Possession, Accounting, NEW id, Section(id), NEW blocks,
         Rejected(m, blocks) \/ Exhausted(m, blocks) \/ (blocks = {} /\ Loaded(m, blocks)),
         \A b \in blocks : FromSection(b, pos)
  PROVE  Accounting'
<1>1. Framed(m)
  BY DEF Framed
<1> QED BY <1>1, SectionFails, SectionPasses

(* A block of the section that is read.                                    *)
LEMMA NewBlocks ==
  ASSUME NEW id, Section(id), NEW tag, SectionTag(id, tag)
  PROVE  FromSection(<<tag, pos>>, pos) /\ \A i : FromSection(<<tag, pos, i>>, pos)
<1>1. ASSUME NEW i
      PROVE  Len(<<tag, pos, i>>) = 3 /\ <<tag, pos, i>>[1] = tag /\ <<tag, pos, i>>[2] = pos
  OBVIOUS
<1>2. Len(<<tag, pos>>) = 2 /\ <<tag, pos>>[1] = tag /\ <<tag, pos>>[2] = pos
  OBVIOUS
<1> QED BY <1>1, <1>2 DEF Section, FromSection

(* The functions name the same blocks as before.                           *)
LEMMA NamesSame ==
  ASSUME NEW new, DOMAIN m = DOMAIN NewModule,
         Agree(new, m, {"start", "functions", "globals", "pages", "exports", "data"}),
         DOMAIN new.functions = DOMAIN m.functions,
         \A k \in DOMAIN m.functions : /\ new.functions[k].types = m.functions[k].types
                                       /\ new.functions[k].offsets = m.functions[k].offsets
  PROVE  Framed(new) /\ \A b : Named(m, b) => Named(new, b)
<1>1. Framed(new)
  <2>1. Agree(new, m, {"start", "functions", "globals", "pages", "types", "refs", "typesBlock",
                       "exports", "exportsBlock", "elements", "elementsBlock", "data", "dataBlock"})
    BY DEF Agree
  <2> QED BY <2>1, FramedAgree
<1>2. /\ new.typesBlock = m.typesBlock /\ new.types = m.types /\ new.exportsBlock = m.exportsBlock
      /\ new.elementsBlock = m.elementsBlock /\ new.elements = m.elements
      /\ new.dataBlock = m.dataBlock /\ new.imports = m.imports /\ new.arrays = m.arrays
  BY ModuleFields DEF Agree
<1>3. ASSUME NEW b, Named(m, b) PROVE Named(new, b)
  BY <1>2, <1>3 DEF Named
<1> QED BY <1>1, <1>3

(* The sections whose loaders allocate nothing.                            *)
LEMMA PlainAccounted ==
  ASSUME Possession, Accounting,
         LoadImportSection \/ LoadFunctionSection \/ LoadTableSection \/ LoadMemorySection
           \/ LoadGlobalSection \/ LoadStartSection \/ SkipSection \/ LoaderDone
  PROVE  Accounting'
<1> DEFINE items == file.sections[pos].items
<1>1. pc = "sections" /\ pc \notin Final /\ pc # "undefined"
  BY DEF LoadImportSection, LoadFunctionSection, LoadTableSection, LoadMemorySection,
     LoadGlobalSection, LoadStartSection, SkipSection, LoaderDone, Section, Final, Over, Early
<1>2. /\ Numbers(m) /\ InPhase(m, pc) /\ Ledger(m, heap, pos, pc)
      /\ HoldsFunctions(m, heap) /\ DOMAIN m = DOMAIN NewModule
  BY <1>1, Accounted DEF Holdings
<1>3. ASSUME NEW id, Section(id), NEW new, Framed(new), \A b : Named(m, b) => Named(new, b),
             Rejected(new, {}) \/ Loaded(new, {})
      PROVE  Accounting'
  BY <1>3, SectionFails, SectionPasses
<1>4. ASSUME NEW id, Section(id), Rejected(m, {}) \/ Loaded(m, {})
      PROVE  Accounting'
  BY <1>4, SectionUnchanged
<1>5. ASSUME NEW what, Undefined(what) PROVE Accounting'
  BY <1>5, UndefinedAccounted
<1>6. ASSUME NEW new, Agree(new, m, {"start", "globals", "pages", "exports", "data"})
      PROVE  Framed(new) /\ \A b : Named(m, b) => Named(new, b)
  <2>1. new.functions = m.functions
    BY <1>2, <1>6, ModuleFields DEF Agree
  <2>2. Agree(new, m, {"start", "functions", "globals", "pages", "exports", "data"})
    BY <1>6 DEF Agree
  <2> QED BY <1>2, <2>1, <2>2, NamesSame
<1>7. CASE LoadImportSection
  <2>1. Section("import")
    BY <1>7 DEF LoadImportSection
  <2>2. ASSUME NEW n
        PROVE  /\ Framed(WithImports(items, n))
               /\ \A b : Named(m, b) => Named(WithImports(items, n), b)
    <3> DEFINE new == WithImports(items, n)
    <3>1. /\ Agree(new, m, {"functions", "globals", "pages"})
          /\ DOMAIN new.functions = DOMAIN m.functions
          /\ \A k \in DOMAIN m.functions :
               \/ new.functions[k] = m.functions[k]
               \/ \E from, type, name :
                    new.functions[k] = [m.functions[k] EXCEPT !.from = from, !.type = type, !.name = name]
      BY <1>2, ModuleFields DEF WithImports, Agree
    <3> HIDE DEF new
    <3>2. ASSUME NEW k \in DOMAIN m.functions
          PROVE  /\ new.functions[k].types = m.functions[k].types
                 /\ new.functions[k].offsets = m.functions[k].offsets
      <4>1. DOMAIN m.functions[k] = DOMAIN NoFunction
        BY <1>2 DEF HoldsFunctions
      <4> QED BY <3>1, <4>1, FunctionFields
    <3>3. Agree(new, m, {"start", "functions", "globals", "pages", "exports", "data"})
      BY <3>1 DEF Agree
    <3>4. Framed(new) /\ \A b : Named(m, b) => Named(new, b)
      BY <1>2, <3>1, <3>2, <3>3, NamesSame
    <3> QED BY <3>4 DEF new
  <2>3. \/ Rejected(m, {}) \/ Undefined("import slots")
        \/ \E n : Rejected(WithImports(items, n), {}) \/ Loaded(WithImports(items, n), {})
    BY <1>7 DEF LoadImportSection
  <2> HIDE DEF items
  <2> QED BY <1>3, <1>4, <1>5, <2>1, <2>2, <2>3
<1>8. CASE LoadFunctionSection
  <2> DEFINE base == m.imports["func"]
             known == Max({0} \cup {n \in DOMAIN items : \A i \in 1..n : TypeKnown(items[i])})
             new == [m EXCEPT !.functions = [k \in DOMAIN @ |->
                      IF k - base \in 1..known
                      THEN [@[k] EXCEPT !.type = TypeAt(items[k - base]),
                                        !.params = Len(TypeOf(TypeAt(items[k - base])).param)]
                      ELSE @[k]]]
  <2>1. Section("func")
    BY <1>8 DEF LoadFunctionSection
  <2>2. \/ Rejected(m, {}) \/ Undefined("function slots") \/ Rejected(new, {}) \/ Loaded(new, {})
    BY <1>8 DEF LoadFunctionSection
  <2>3. /\ Agree(new, m, {"functions", "globals", "pages"})
        /\ DOMAIN new.functions = DOMAIN m.functions
        /\ \A k \in DOMAIN m.functions :
             \/ new.functions[k] = m.functions[k]
             \/ \E type, params :
                  new.functions[k] = [m.functions[k] EXCEPT !.type = type, !.params = params]
    <3> HIDE DEF known, items
    <3> QED BY <1>2, ModuleFields DEF Agree
  <2> HIDE DEF new
  <2>4. ASSUME NEW k \in DOMAIN m.functions
        PROVE  /\ new.functions[k].types = m.functions[k].types
               /\ new.functions[k].offsets = m.functions[k].offsets
    <3>1. DOMAIN m.functions[k] = DOMAIN NoFunction
      BY <1>2 DEF HoldsFunctions
    <3> QED BY <2>3, <3>1, FunctionFields
  <2>5. Agree(new, m, {"start", "functions", "globals", "pages", "exports", "data"})
    BY <2>3 DEF Agree
  <2>6. Framed(new) /\ \A b : Named(m, b) => Named(new, b)
    BY <1>2, <2>3, <2>4, <2>5, NamesSame
  <2> QED BY <1>3, <1>4, <1>5, <2>1, <2>2, <2>6
<1>9. CASE LoadTableSection
  BY <1>4, <1>5, <1>9 DEF LoadTableSection
<1>10. CASE LoadMemorySection
  <2> DEFINE new == [m EXCEPT !.pages = Last(items)]
  <2>1. Agree(new, m, {"start", "globals", "pages", "exports", "data"})
    BY <1>2 DEF Agree
  <2>2. /\ Section("memory")
        /\ Rejected(m, {}) \/ Undefined("memory slots") \/ Loaded(m, {}) \/ Loaded(new, {})
    BY <1>10 DEF LoadMemorySection
  <2> HIDE DEF new
  <2> QED BY <1>3, <1>4, <1>5, <1>6, <2>1, <2>2
<1>11. CASE LoadGlobalSection
  <2> DEFINE base == m.imports["global"]
             good == Max({0} \cup {n \in DOMAIN items : \A i \in 1..n : items[i] <= base})
             new == [m EXCEPT !.globals = [k \in DOMAIN @ |->
                      IF k - base \in 1..good THEN [from |-> 0, target |-> items[k - base]]
                      ELSE @[k]]]
  <2>1. Agree(new, m, {"start", "globals", "pages", "exports", "data"})
    <3> HIDE DEF good
    <3> QED BY <1>2 DEF Agree
  <2>2. /\ Section("global")
        /\ Rejected(m, {}) \/ Undefined("global slots") \/ Rejected(new, {}) \/ Loaded(new, {})
    BY <1>11 DEF LoadGlobalSection
  <2> HIDE DEF new
  <2> QED BY <1>3, <1>4, <1>5, <1>6, <2>1, <2>2
<1>12. CASE LoadStartSection
  <2> DEFINE new == [m EXCEPT !.start = items[1]]
  <2>1. Agree(new, m, {"start", "globals", "pages", "exports", "data"})
    BY <1>2 DEF Agree
  <2>2. Section("start") /\ (Rejected(m, {}) \/ Loaded(new, {}))
    BY <1>12 DEF LoadStartSection
  <2> HIDE DEF new
  <2> QED BY <1>3, <1>4, <1>6, <2>1, <2>2
<1>13. CASE SkipSection
  BY <1>4, <1>13 DEF SkipSection
<1>14. CASE LoaderDone
  <2>1. Goto("validate", m, {}) /\ "validate" \notin Over \cup {"header"}
    BY <1>14 DEF LoaderDone, Final, Over, Early
  <2>2. InPhase(m, "validate")
    BY <1>1, <1>2 DEF InPhase, Ending, BeforeGlobals, BeforeMemories, BeforeTables, BeforeWasi
  <2>3. Ledger(m, heap \cup {}, pos, "validate")
    BY <1>1, <1>2, LedgerGrown DEF Ending
  <2> QED BY <1>2, <2>1, <2>2, <2>3, GotoAccounted
<1> QED BY <1>7, <1>8, <1>9, <1>10, <1>11, <1>12, <1>13, <1>14

(* load_export_section.                                                    *)
LEMMA ExportAccounted ==
  ASSUME Possession, Accounting, LoadExportSection
  PROVE  Accounting'
<1> DEFINE items == file.sections[pos].items
           block == IF items = <<>> THEN {} ELSE {<<"exports", pos>>}
           new == [m EXCEPT !.exports = items, !.exportsBlock = <<"exports", pos>>]
<1>1. /\ Section("export") /\ pc = "sections" /\ pc \notin Final /\ pc # "undefined"
  BY DEF LoadExportSection, Section, Final, Over, Early
<1>2. DOMAIN m = DOMAIN NewModule
  BY <1>1, Accounted
<1>3. \/ Rejected(m, block) \/ Exhausted(m, {})
      \/ (items = <<>> /\ Loaded(m, block)) \/ (items # <<>> /\ Loaded(new, block))
  <2>1. CASE items = <<>>
    BY <2>1 DEF LoadExportSection
  <2>2. CASE items # <<>>
    BY <2>2 DEF LoadExportSection
  <2> QED BY <2>1, <2>2
<1>4. \A b \in block : b = <<"exports", pos>> /\ b[1] = "exports" /\ FromSection(b, pos)
  BY <1>1, NewBlocks DEF SectionTag
<1>5. Agree(new, m, {"exports", "exportsBlock"}) /\ new.exportsBlock = <<"exports", pos>>
  BY <1>2, ModuleFields DEF Agree
<1>6. items = <<>> => block = {}
  OBVIOUS
<1> HIDE DEF new, block
<1>7. /\ new.typesBlock = m.typesBlock /\ new.types = m.types /\ new.elements = m.elements
      /\ new.elementsBlock = m.elementsBlock /\ new.functions = m.functions
      /\ new.dataBlock = m.dataBlock /\ new.imports = m.imports /\ new.arrays = m.arrays
  BY <1>2, <1>5, ModuleFields DEF Agree
<1>8. Framed(new)
  <2>1. Agree(new, m, {"start", "functions", "globals", "pages", "types", "refs", "typesBlock",
                       "exports", "exportsBlock", "elements", "elementsBlock", "data", "dataBlock"})
    BY <1>5 DEF Agree
  <2> QED BY <1>2, <1>7, <2>1, FramedAgree
<1>9. ASSUME NEW b, Named(m, b) PROVE Named(new, b) \/ SectionTag("export", b[1])
  BY <1>7, <1>9 DEF Named, SectionTag
<1>10. CASE Loaded(new, block)
  <2>1. \A b \in block : FromSection(b, pos) /\ Named(new, b)
    BY <1>4, <1>5 DEF Named
  <2> QED BY <1>1, <1>8, <1>9, <1>10, <2>1, SectionPasses
<1>11. CASE Rejected(m, block) \/ Exhausted(m, {})
  BY <1>1, <1>4, <1>11, SectionUnchanged
<1>12. CASE items = <<>> /\ Loaded(m, block)
  BY <1>1, <1>6, <1>12, SectionUnchanged
<1> QED BY <1>3, <1>10, <1>11, <1>12

(* load_data_section: the array is the module's before it is read.         *)
LEMMA DataAccounted ==
  ASSUME Possession, Accounting, LoadDataSection
  PROVE  Accounting'
<1> DEFINE items == file.sections[pos].items
           block == <<"data", pos>>
           new == [m EXCEPT !.data = items, !.dataBlock = block]
           none == [new EXCEPT !.dataBlock = Null]
<1>1. /\ Section("data") /\ pc = "sections" /\ pc \notin Final /\ pc # "undefined"
  BY DEF LoadDataSection, Section, Final, Over, Early
<1>2. DOMAIN m = DOMAIN NewModule
  BY <1>1, Accounted
<1>3. new.dataBlock = block
  BY <1>2, ModuleFields
<1>4. \/ Rejected(m, {}) \/ Loaded(m, {}) \/ Rejected(new, {block}) \/ Loaded(new, {block})
      \/ Rejected(none, {})
  BY <1>3 DEF LoadDataSection
<1>5. block[1] = "data" /\ FromSection(block, pos)
  BY <1>1, NewBlocks DEF SectionTag
<1>6. Agree(new, m, {"data", "dataBlock"}) /\ Agree(none, m, {"data", "dataBlock"})
  BY <1>2, ModuleFields DEF Agree
<1> HIDE DEF new, none, block
<1>7. ASSUME NEW mod, Agree(mod, m, {"data", "dataBlock"})
      PROVE  Framed(mod) /\ \A b : Named(m, b) => Named(mod, b) \/ SectionTag("data", b[1])
  <2>1. /\ mod.typesBlock = m.typesBlock /\ mod.types = m.types /\ mod.elements = m.elements
        /\ mod.elementsBlock = m.elementsBlock /\ mod.functions = m.functions
        /\ mod.exportsBlock = m.exportsBlock /\ mod.imports = m.imports /\ mod.arrays = m.arrays
    BY <1>2, <1>7, ModuleFields DEF Agree
  <2>2. Framed(mod)
    <3>1. Agree(mod, m, {"start", "functions", "globals", "pages", "types", "refs", "typesBlock",
                         "exports", "exportsBlock", "elements", "elementsBlock", "data", "dataBlock"})
      BY <1>7 DEF Agree
    <3> QED BY <1>2, <2>1, <3>1, FramedAgree
  <2>3. ASSUME NEW b, Named(m, b) PROVE Named(mod, b) \/ SectionTag("data", b[1])
    BY <2>1, <2>3 DEF Named, SectionTag
  <2> QED BY <2>2, <2>3
<1>8. /\ Framed(new) /\ \A b : Named(m, b) => Named(new, b) \/ SectionTag("data", b[1])
      /\ Framed(none) /\ \A b : Named(m, b) => Named(none, b) \/ SectionTag("data", b[1])
  BY <1>6, <1>7
<1>9. \A b \in {block} : FromSection(b, pos) /\ Named(new, b)
  BY <1>3, <1>5 DEF Named
<1>10. CASE Loaded(new, {block})
  BY <1>1, <1>8, <1>9, <1>10, SectionPasses
<1>11. CASE Rejected(new, {block})
  BY <1>1, <1>8, <1>9, <1>11, SectionFails
<1>12. CASE Rejected(none, {})
  BY <1>1, <1>8, <1>12, SectionFails
<1>13. CASE Rejected(m, {}) \/ Loaded(m, {})
  BY <1>1, <1>13, SectionUnchanged
<1> QED BY <1>4, <1>10, <1>11, <1>12, <1>13

(* load_element_section: the array and the indexes reach the module when   *)
(* all elements are read.                                                  *)
LEMMA ElementAccounted ==
  ASSUME Possession, Accounting, LoadElementSection
  PROVE  Accounting'
<1> DEFINE items == file.sections[pos].items
           all == 1 .. Len(items)
           Blocks(k) == {<<"elements", pos>>} \cup
                        {<<"indexes", pos, i>> : i \in {j \in 1..k : items[j].funcs > 0}}
           elements == [i \in all |-> [item |-> items[i],
                                       block |-> IF items[i].funcs > 0
                                                 THEN <<"indexes", pos, i>> ELSE Null]]
           new == [m EXCEPT !.elements = elements, !.elementsBlock = <<"elements", pos>>]
<1>1. /\ Section("element") /\ pc = "sections" /\ pc \notin Final /\ pc # "undefined"
  BY DEF LoadElementSection, Section, Final, Over, Early
<1>2. DOMAIN m = DOMAIN NewModule
  BY <1>1, Accounted
<1>3. \/ Loaded(m, {}) \/ Rejected(m, {}) \/ Exhausted(m, {}) \/ Loaded(new, Blocks(Len(items)))
      \/ \E i \in all : Exhausted(m, Blocks(i - 1)) \/ Rejected(m, Blocks(i))
  BY DEF LoadElementSection
<1>4. /\ Agree(new, m, {"elements", "elementsBlock"})
      /\ new.elementsBlock = <<"elements", pos>> /\ new.elements = elements
  <2> HIDE DEF elements
  <2> QED BY <1>2, ModuleFields DEF Agree
<1>5. ASSUME NEW k, NEW b \in Blocks(k)
      PROVE  \/ b = <<"elements", pos>>
             \/ \E i \in 1 .. k : items[i].funcs > 0 /\ b = <<"indexes", pos, i>>
  <2> HIDE DEF items
  <2> QED BY <1>5
<1>6. ASSUME NEW i \in all, items[i].funcs > 0
      PROVE  i \in DOMAIN elements /\ elements[i].block = <<"indexes", pos, i>>
  <2> HIDE DEF items
  <2> QED BY <1>6
<1> HIDE DEF new, elements, Blocks
<1>7. ASSUME NEW k PROVE \A b \in Blocks(k) : FromSection(b, pos)
  <2>1. SectionTag("element", "elements") /\ SectionTag("element", "indexes")
    BY DEF SectionTag
  <2>2. FromSection(<<"elements", pos>>, pos) /\ \A i : FromSection(<<"indexes", pos, i>>, pos)
    BY <1>1, <2>1, NewBlocks
  <2> QED BY <1>5, <2>2
<1>8. \A b \in Blocks(Len(items)) : Named(new, b)
  <2>1. ASSUME NEW b, b = <<"elements", pos>> PROVE Named(new, b)
    <3>1. b[1] = "elements"
      BY <2>1
    <3> QED BY <1>4, <2>1, <3>1 DEF Named
  <2>2. ASSUME NEW i \in all, NEW b, items[i].funcs > 0, b = <<"indexes", pos, i>>
        PROVE  Named(new, b)
    <3>1. b[1] = "indexes"
      BY <2>2
    <3>2. i \in DOMAIN new.elements /\ b = new.elements[i].block
      BY <1>4, <1>6, <2>2
    <3> QED BY <3>1, <3>2 DEF Named
  <2> HIDE DEF items
  <2> QED BY <1>5, <2>1, <2>2
<1>9. /\ new.typesBlock = m.typesBlock /\ new.types = m.types /\ new.functions = m.functions
      /\ new.exportsBlock = m.exportsBlock /\ new.dataBlock = m.dataBlock
      /\ new.imports = m.imports /\ new.arrays = m.arrays
  BY <1>2, <1>4, ModuleFields DEF Agree
<1>10. Framed(new)
  <2>1. Agree(new, m, {"start", "functions", "globals", "pages", "types", "refs", "typesBlock",
                       "exports", "exportsBlock", "elements", "elementsBlock", "data", "dataBlock"})
    BY <1>4 DEF Agree
  <2> QED BY <1>2, <1>9, <2>1, FramedAgree
<1>11. ASSUME NEW b, Named(m, b) PROVE Named(new, b) \/ SectionTag("element", b[1])
  BY <1>9, <1>11 DEF Named, SectionTag
<1> HIDE DEF items
<1>12. CASE Loaded(new, Blocks(Len(items)))
  BY <1>1, <1>7, <1>8, <1>10, <1>11, <1>12, SectionPasses
<1>13. CASE \E i \in all : Exhausted(m, Blocks(i - 1)) \/ Rejected(m, Blocks(i))
  BY <1>1, <1>7, <1>13, SectionUnchanged
<1>14. CASE Loaded(m, {}) \/ Rejected(m, {}) \/ Exhausted(m, {})
  BY <1>1, <1>14, SectionUnchanged
<1> QED BY <1>3, <1>12, <1>13, <1>14

(* load_type_section: on a failure what was read belongs to the section    *)
(* alone.                                                                  *)
LEMMA TypeAccounted ==
  ASSUME Possession, Accounting, LoadTypeSection
  PROVE  Accounting'
<1> DEFINE items == file.sections[pos].items
           First(i) == Min({j \in 1..i : FuncTypes[items[j]] = FuncTypes[items[i]]})
           Block(i) == <<"type", pos, First(i)>>
           Blocks(k) == {<<"types", pos>>} \cup {Block(i) : i \in 1..k}
           all == 1 .. Len(items)
           types == [i \in all |-> Block(i)]
           refs == [b \in {Block(i) : i \in all} |-> Cardinality({i \in all : Block(i) = b})]
           new == [m EXCEPT !.types = types, !.refs = refs, !.typesBlock = <<"types", pos>>]
<1>1. /\ Section("type") /\ pc = "sections" /\ pc \notin Final /\ pc # "undefined"
  BY DEF LoadTypeSection, Section, Final, Over, Early
<1>2. DOMAIN m = DOMAIN NewModule
  BY <1>1, Accounted
<1>3. \/ Loaded(m, {}) \/ Loaded(new, Blocks(Len(items))) \/ Exhausted(m, {}) \/ Rejected(m, {})
      \/ \E i \in all : Exhausted(m, Blocks(i - 1))
      \/ \E i \in {0} \cup all : Rejected(m, Blocks(i))
  BY DEF LoadTypeSection
<1>4. /\ Agree(new, m, {"types", "refs", "typesBlock"})
      /\ new.typesBlock = <<"types", pos>> /\ new.types = types
  <2> HIDE DEF types, refs
  <2> QED BY <1>2, ModuleFields DEF Agree
<1> HIDE DEF First
<1>5. ASSUME NEW k, NEW b \in Blocks(k)
      PROVE  b = <<"types", pos>> \/ \E i \in 1 .. k : b = Block(i)
  BY <1>5
<1>6. \A i \in all : i \in DOMAIN types /\ types[i] = Block(i)
  OBVIOUS
<1> HIDE DEF new, types, Blocks
<1>7. ASSUME NEW k PROVE \A b \in Blocks(k) : FromSection(b, pos)
  <2>1. SectionTag("type", "types") /\ SectionTag("type", "type")
    BY DEF SectionTag
  <2>2. FromSection(<<"types", pos>>, pos) /\ \A i : FromSection(<<"type", pos, i>>, pos)
    BY <1>1, <2>1, NewBlocks
  <2> QED BY <1>5, <2>2
<1>8. \A b \in Blocks(Len(items)) : Named(new, b)
  <2>1. ASSUME NEW b, b = <<"types", pos>> PROVE Named(new, b)
    <3>1. b[1] = "types"
      BY <2>1
    <3> QED BY <1>4, <2>1, <3>1 DEF Named
  <2>2. ASSUME NEW i \in all, NEW b, b = Block(i) PROVE Named(new, b)
    <3>1. b[1] = "type"
      BY <2>2
    <3>2. i \in DOMAIN new.types /\ b = new.types[i]
      BY <1>4, <1>6, <2>2
    <3> QED BY <3>1, <3>2 DEF Named
  <2> HIDE DEF items, Block
  <2> QED BY <1>5, <2>1, <2>2
<1>9. /\ new.functions = m.functions /\ new.elements = m.elements
      /\ new.exportsBlock = m.exportsBlock /\ new.dataBlock = m.dataBlock
      /\ new.elementsBlock = m.elementsBlock /\ new.imports = m.imports /\ new.arrays = m.arrays
  BY <1>2, <1>4, ModuleFields DEF Agree
<1>10. Framed(new)
  <2>1. Agree(new, m, {"start", "functions", "globals", "pages", "types", "refs", "typesBlock",
                       "exports", "exportsBlock", "elements", "elementsBlock", "data", "dataBlock"})
    BY <1>4 DEF Agree
  <2> QED BY <1>2, <1>9, <2>1, FramedAgree
<1>11. ASSUME NEW b, Named(m, b) PROVE Named(new, b) \/ SectionTag("type", b[1])
  BY <1>9, <1>11 DEF Named, SectionTag
<1> HIDE DEF items
<1>12. CASE Loaded(new, Blocks(Len(items)))
  BY <1>1, <1>7, <1>8, <1>10, <1>11, <1>12, SectionPasses
<1>13. CASE \/ \E i \in all : Exhausted(m, Blocks(i - 1))
            \/ \E i \in {0} \cup all : Rejected(m, Blocks(i))
  BY <1>1, <1>7, <1>13, SectionUnchanged
<1>14. CASE Loaded(m, {}) \/ Rejected(m, {}) \/ Exhausted(m, {})
  BY <1>1, <1>14, SectionUnchanged
<1> QED BY <1>3, <1>12, <1>13, <1>14

(* load_code_section: the bodies are as many as the functions that the     *)
(* module has slots for, so that each array has a slot that names it.      *)
LEMMA CodeAccounted ==
  ASSUME Possession, Accounting, LoadCodeSection
  PROVE  Accounting'
<1> DEFINE items == file.sections[pos].items
           base == m.imports["func"]
           Types(i) == IF items[i].locals > 0 THEN <<"locals", pos, i>> ELSE Null
           Offsets(i) == IF items[i].locals + m.functions[base + i].params > 0
                         THEN <<"offsets", pos, i>> ELSE Null
           Mod(n) == [m EXCEPT !.functions = [k \in DOMAIN @ |->
                       IF k - base \in 1..n
                       THEN [@[k] EXCEPT !.types = Types(k - base),
                                         !.offsets = Offsets(k - base),
                                         !.room = m.functions[k].params,
                                         !.verdict = items[k - base].verdict,
                                         !.branches = items[k - base].branches]
                       ELSE @[k]]]
           Blocks(n) == (UNION {{Types(i), Offsets(i)} : i \in 1..n}) \ {Null}
<1>1. /\ Section("code") /\ pc = "sections" /\ pc \notin Final /\ pc # "undefined"
  BY DEF LoadCodeSection, Section, Final, Over, Early
<1>2. /\ DOMAIN m = DOMAIN NewModule /\ InPhase(m, pc) /\ Numbers(m) /\ HoldsFunctions(m, heap)
      /\ <<"functions">> \in m.arrays /\ Counted(items)
  BY <1>1, Accounted, InSection DEF Holdings
<1>3. \/ Rejected(m, {})
      \/ m.counts["func"] = Len(items) /\ Loaded(Mod(Len(items)), Blocks(Len(items)))
      \/ \E n \in {0} \cup DOMAIN items : Rejected(Mod(n), Blocks(n))
      \/ \E i \in DOMAIN items : \/ Rejected(Mod(i - 1), Blocks(i - 1))
                                 \/ Rejected(Mod(i - 1), (Blocks(i - 1) \cup {Types(i)}) \ {Null})
  BY DEF LoadCodeSection
<1>4. \A i : /\ Types(i) \in {Null, <<"locals", pos, i>>}
             /\ Offsets(i) \in {Null, <<"offsets", pos, i>>}
  OBVIOUS
<1>5. ASSUME NEW n, NEW b \in Blocks(n)
      PROVE  b # Null /\ \E i \in 1 .. n : b = Types(i) \/ b = Offsets(i)
  <2> HIDE DEF Types, Offsets
  <2> QED BY <1>5
<1>6. ASSUME NEW n
      PROVE  /\ Agree(Mod(n), m, {"functions", "globals", "pages"})
             /\ Mod(n).functions =
                  [k \in DOMAIN m.functions |->
                    IF k - base \in 1..n
                    THEN [m.functions[k] EXCEPT !.types = Types(k - base),
                                         !.offsets = Offsets(k - base),
                                         !.room = m.functions[k].params,
                                         !.verdict = items[k - base].verdict,
                                         !.branches = items[k - base].branches]
                    ELSE m.functions[k]]
  <2> HIDE DEF Types, Offsets
  <2> QED BY <1>2, ModuleFields DEF Agree
<1> HIDE DEF Mod, Blocks, Types, Offsets
<1>7. ASSUME NEW n
      PROVE  /\ Framed(Mod(n))
             /\ \A b : Named(m, b) => Named(Mod(n), b) \/ SectionTag("code", b[1])
  <2> DEFINE new == Mod(n)
  <2>1. Agree(new, m, {"functions", "globals", "pages"}) /\ DOMAIN new.functions = DOMAIN m.functions
    BY <1>6
  <2> HIDE DEF new
  <2>2. Agree(new, m, {"start", "functions", "globals", "pages", "types", "refs", "typesBlock",
                       "exports", "exportsBlock", "elements", "elementsBlock", "data", "dataBlock"})
    BY <2>1 DEF Agree
  <2>3. Framed(new)
    BY <1>2, <2>1, <2>2, FramedAgree
  <2>4. /\ new.typesBlock = m.typesBlock /\ new.types = m.types /\ new.elements = m.elements
        /\ new.elementsBlock = m.elementsBlock /\ new.exportsBlock = m.exportsBlock
        /\ new.dataBlock = m.dataBlock
    BY <1>2, <2>1, ModuleFields DEF Agree
  <2>5. ASSUME NEW b, Named(m, b) PROVE Named(new, b) \/ SectionTag("code", b[1])
    BY <2>4, <2>5 DEF Named, SectionTag
  <2> QED BY <2>3, <2>5 DEF new
<1>8. ASSUME NEW i
      PROVE  /\ Types(i) # Null => FromSection(Types(i), pos)
             /\ Offsets(i) # Null => FromSection(Offsets(i), pos)
  <2>1. SectionTag("code", "locals") /\ SectionTag("code", "offsets")
    BY DEF SectionTag
  <2>2. FromSection(<<"locals", pos, i>>, pos) /\ FromSection(<<"offsets", pos, i>>, pos)
    BY <1>1, <2>1, NewBlocks
  <2> QED BY <1>4, <2>2
<1>9. ASSUME NEW n PROVE \A b \in Blocks(n) : FromSection(b, pos)
  BY <1>5, <1>8
<1>10. ASSUME m.counts["func"] = Len(items), NEW b \in Blocks(Len(items))
       PROVE  Named(Mod(Len(items)), b)
  <2> DEFINE n == Len(items)
             new == Mod(n)
  <2>1. b # Null /\ \E i \in 1 .. n : b = Types(i) \/ b = Offsets(i)
    BY <1>5, <1>10
  <2>2. PICK i \in 1 .. n : b = Types(i) \/ b = Offsets(i)
    BY <2>1
  <2>3. DOMAIN m.functions = 1 .. m.imports["func"] + m.counts["func"]
    BY <1>1, <1>2 DEF InPhase, BeforeWasi, BeforeTables, BeforeMemories, BeforeGlobals
  <2>4. n \in Nat /\ base \in Nat /\ m.counts["func"] = n
    BY <1>2, <1>10 DEF Numbers, Counted
  <2> DEFINE k == base + i
  <2>5. k \in DOMAIN m.functions /\ k > base /\ k - base = i
    <3> HIDE DEF n
    <3> QED BY <2>3, <2>4
  <2>6. DOMAIN m.functions[k] = DOMAIN NoFunction
    BY <1>2, <2>5 DEF HoldsFunctions
  <2>7. /\ new.functions[k].types = Types(i) /\ new.functions[k].offsets = Offsets(i)
        /\ k \in DOMAIN new.functions
    <3>1. new.functions[k] = [m.functions[k] EXCEPT !.types = Types(i),
                                         !.offsets = Offsets(i),
                                         !.room = m.functions[k].params,
                                         !.verdict = items[i].verdict,
                                         !.branches = items[i].branches]
      <4> HIDE DEF k, new, n, items
      <4>1. k - base \in 1 .. n /\ k - base = i
        BY <2>5
      <4>2. new.functions =
                  [j \in DOMAIN m.functions |->
                    IF j - base \in 1..n
                    THEN [m.functions[j] EXCEPT !.types = Types(j - base),
                                         !.offsets = Offsets(j - base),
                                         !.room = m.functions[j].params,
                                         !.verdict = items[j - base].verdict,
                                         !.branches = items[j - base].branches]
                    ELSE m.functions[j]]
        BY <1>6 DEF new
      <4> HIDE DEF base
      <4> QED BY <2>5, <4>1, <4>2, Zenon
    <3>2. k \in DOMAIN new.functions
      BY <1>6, <2>5
    <3> HIDE DEF new, k, items
    <3> QED BY <2>6, <3>1, <3>2, FunctionFields
  <2>8. new.imports = m.imports /\ new.arrays = m.arrays
    <3>1. Agree(new, m, {"functions", "globals", "pages"})
      BY <1>6
    <3> HIDE DEF new
    <3> QED BY <1>2, <3>1, ModuleFields DEF Agree
  <2>9. b = Types(i) => b[1] = "locals"
    BY <1>4, <2>1
  <2>10. b = Offsets(i) => b[1] = "offsets"
    BY <1>4, <2>1
  <2> HIDE DEF new, k, n, items
  <2>11. Named(new, b)
    BY <1>2, <2>2, <2>5, <2>7, <2>8, <2>9, <2>10 DEF Named
  <2> QED BY <2>11 DEF new, n
<1> HIDE DEF items
<1>11. ASSUME m.counts["func"] = Len(items), Loaded(Mod(Len(items)), Blocks(Len(items)))
       PROVE  Accounting'
  <2>1. \A b \in Blocks(Len(items)) : FromSection(b, pos) /\ Named(Mod(Len(items)), b)
    BY <1>9, <1>10, <1>11
  <2>2. Framed(Mod(Len(items)))
        /\ \A b : Named(m, b) => Named(Mod(Len(items)), b) \/ SectionTag("code", b[1])
    BY <1>7
  <2> QED BY <1>1, <1>11, <2>1, <2>2, SectionPasses
<1>12. ASSUME NEW n, NEW blocks, Rejected(Mod(n), blocks), \A b \in blocks : FromSection(b, pos)
       PROVE  Accounting'
  <2>1. Framed(Mod(n)) /\ \A b : Named(m, b) => Named(Mod(n), b) \/ SectionTag("code", b[1])
    BY <1>7
  <2> QED BY <1>1, <1>12, <2>1, SectionFails
<1>13. CASE \E n \in {0} \cup DOMAIN items : Rejected(Mod(n), Blocks(n))
  BY <1>9, <1>12, <1>13
<1>14. ASSUME NEW i \in DOMAIN items,
              Rejected(Mod(i - 1), (Blocks(i - 1) \cup {Types(i)}) \ {Null})
       PROVE  Accounting'
  <2>1. \A b \in (Blocks(i - 1) \cup {Types(i)}) \ {Null} : FromSection(b, pos)
    BY <1>8, <1>9
  <2> QED BY <1>12, <1>14, <2>1
<1>15. ASSUME NEW i \in DOMAIN items, Rejected(Mod(i - 1), Blocks(i - 1))
       PROVE  Accounting'
  BY <1>9, <1>12, <1>15
<1>16. CASE Rejected(m, {})
  BY <1>1, <1>16, SectionUnchanged
<1> QED BY <1>3, <1>11, <1>13, <1>14, <1>15, <1>16

(* wasm_loader.                                                            *)
LEMMA LoadSectionAccounted ==
  ASSUME Possession, Accounting, LoadSection
  PROVE  Accounting'
BY TypeAccounted, PlainAccounted, ExportAccounted, ElementAccounted, DataAccounted, CodeAccounted
   DEF LoadSection

----------------------------------------------------------------------------
(* The accounts after the loader                                           *)

(* What is named stays named.                                              *)
Later(new) ==
  /\ Agree(new, m, {"stage", "counts", "functions", "tableData", "globalData", "memoryData",
                    "exportFuncs", "wasi"})
  /\ DOMAIN new.functions = DOMAIN m.functions
  /\ \A k \in DOMAIN m.functions : /\ new.functions[k].types = m.functions[k].types
                                   /\ new.functions[k].offsets = m.functions[k].offsets
  /\ \A k \in DOMAIN m.functions :
       <<"queues", k>> \in heap /\ m.functions[k].table = Null => new.functions[k].table = Null
  /\ m.stage # "Load" => new.stage # "Load"
  /\ m.stage = "Instantiate" =>
       /\ new.stage = "Instantiate"
       /\ \A i \in DOMAIN m.tableData :
            m.tableData[i] = Null \/ (i \in DOMAIN new.tableData /\ new.tableData[i] = m.tableData[i])
       /\ m.globalData = Null \/ new.globalData = m.globalData
       /\ m.memoryData # <<"memory_data">> \/ new.memoryData = m.memoryData
       /\ m.exportFuncs # <<"export_functions">> \/ new.exportFuncs = m.exportFuncs
       /\ m.wasi # <<"wasi_ctx">> \/ new.wasi = m.wasi

(* A block is in its slot still.                                           *)
LEMMA LaterKept ==
  ASSUME DOMAIN m = DOMAIN NewModule, NEW new, Later(new), NEW b \in heap
  PROVE  (Named(m, b) => Named(new, b)) /\ (Owned(m, b) => Owned(new, b))
<1>1. /\ new.imports = m.imports /\ new.arrays = m.arrays
      /\ new.typesBlock = m.typesBlock /\ new.types = m.types /\ new.elements = m.elements
      /\ new.elementsBlock = m.elementsBlock /\ new.exportsBlock = m.exportsBlock
      /\ new.dataBlock = m.dataBlock
  BY ModuleFields DEF Later, Agree
<1>2. ASSUME Named(m, b) PROVE Named(new, b)
  BY <1>1, <1>2 DEF Named, Later
<1>3. ASSUME Owned(m, b) PROVE Owned(new, b)
  <2>1. CASE \/ b \in NeverFreed \/ b \in {<<"module">>, <<"file">>}
             \/ b \in m.arrays /\ \E i \in DOMAIN Arrays : b = <<Arrays[i]>>
             \/ b[1] = "stacks"
    BY <1>1, <2>1, Zenon DEF Owned
  <2>2. CASE m.stage # "Load" /\ \E k \in DOMAIN m.functions :
               /\ k > m.imports["func"]
               /\ b = <<"branches", k>> \/ (b = <<"queues", k>> /\ m.functions[k].table = Null)
    <3>1. PICK k \in DOMAIN m.functions :
            /\ k > m.imports["func"]
            /\ b = <<"branches", k>> \/ (b = <<"queues", k>> /\ m.functions[k].table = Null)
      BY <2>2
    <3>2. /\ k \in DOMAIN new.functions /\ k > new.imports["func"] /\ new.stage # "Load"
          /\ b = <<"queues", k>> /\ m.functions[k].table = Null => new.functions[k].table = Null
      BY <1>1, <2>2, <3>1, Zenon DEF Later
    <3> QED BY <3>1, <3>2, Zenon DEF Owned
  <2>3. CASE m.stage = "Instantiate"
             /\ \E i \in DOMAIN m.tableData : b = <<"table_data", i>> /\ b = m.tableData[i]
    <3>1. PICK i \in DOMAIN m.tableData : b = <<"table_data", i>> /\ b = m.tableData[i]
      BY <2>3
    <3>2. m.tableData[i] # Null
      BY <3>1 DEF Null
    <3>3. new.stage = "Instantiate" /\ i \in DOMAIN new.tableData /\ new.tableData[i] = b
      BY <2>3, <3>1, <3>2 DEF Later
    <3> QED BY <3>1, <3>3, Zenon DEF Owned
  <2>4. ASSUME m.stage = "Instantiate", m.globalData = b, b # Null
        PROVE  new.stage = "Instantiate" /\ new.globalData = b
    BY <2>4 DEF Later
  <2>5. ASSUME m.stage = "Instantiate", m.memoryData = b, b = <<"memory_data">>
        PROVE  new.stage = "Instantiate" /\ new.memoryData = b
    BY <2>5 DEF Later
  <2>6. ASSUME m.stage = "Instantiate", m.exportFuncs = b, b = <<"export_functions">>
        PROVE  new.stage = "Instantiate" /\ new.exportFuncs = b
    BY <2>6 DEF Later
  <2>7. ASSUME m.stage = "Instantiate", m.wasi = b, b = <<"wasi_ctx">>
        PROVE  new.stage = "Instantiate" /\ new.wasi = b
    BY <2>7 DEF Later
  <2>8. <<"global_data">> # Null
    BY DEF Null
  <2> QED BY <1>3, <2>1, <2>2, <2>3, <2>4, <2>5, <2>6, <2>7, <2>8, Zenon DEF Owned
<1> QED BY <1>2, <1>3

(* A step that allocates blocks the module owns.                           *)
LEMMA LaterAccounted ==
  ASSUME Possession, Accounting, pc \notin Final \/ pc \in Ending,
         NEW next, next \notin Over \cup {"header"}, pc \in Ending => next \in Ending,
         NEW new, Later(new), \A b \in heap' : b \in heap \/ Owned(new, b),
         file' = file, m' = new, pos' = pos, pc' = next,
         Numbers(new), InPhase(new, next)
  PROVE  Accounting'
<1>1. Ledger(m, heap, pos, pc) /\ DOMAIN m = DOMAIN NewModule
  BY Accounted
<1>2. \A b \in heap : /\ Owned(m, b) => Owned(new, b)
                      /\ Named(m, b) => Named(new, b)
  BY <1>1, LaterKept
<1>3. \A b \in heap : Traced(m, b, pos) => Traced(new, b, pos)
  BY <1>2, Zenon DEF Traced
<1>4. Ledger(new, heap', pos, next)
  BY <1>1, <1>2, <1>3 DEF Ledger
<1> QED BY <1>4, StepAccounted

(* The module is the same.                                                 *)
LEMMA LaterSame == Later(m)
BY DEF Later, Agree

(* A step of main that leaves the module as it is.                         *)
LEMMA IdleAccounted ==
  ASSUME Possession, Accounting, pc \notin Final \/ pc \in Ending, NEW next,
         next \notin Over \cup {"header"}, pc \in Ending => next \in Ending,
         file' = file, m' = m, heap' \subseteq heap \cup NeverFreed, pos' = pos, pc' = next,
         next \in Ending \/ InPhase(m, next)
  PROVE  Accounting'
<1>1. Numbers(m) /\ InPhase(m, pc) /\ Holdings(m, Known)
  BY Accounted
<1>2. InPhase(m, "fail")
  BY <1>1, PhaseFails DEF Holdings
<1>3. next \in Ending => InPhase(m, next)
  BY <1>2 DEF InPhase, Ending, BeforeGlobals, BeforeMemories, BeforeTables, BeforeWasi
<1>4. \A b \in heap' : b \in heap \/ Owned(m, b)
  BY Zenon DEF Owned
<1> QED BY <1>1, <1>3, <1>4, LaterSame, LaterAccounted

(* A check fails and leaves the module as it is.                           *)
LEMMA IdleRejected ==
  ASSUME Possession, Accounting, pc \notin Final, pc # "undefined",
         NEW blocks, blocks \subseteq NeverFreed, Rejected(m, blocks) \/ Exhausted(m, blocks)
  PROVE  Accounting'
<1>1. /\ file' = file /\ pc' = "fail" /\ m' = m /\ heap' \subseteq heap \cup NeverFreed /\ pos' = pos
  BY DEF Rejected, Exhausted, Goto, Untouched
<1>2. "fail" \in Ending /\ "fail" \notin Over \cup {"header"}
  BY DEF Ending, Final, Over, Early
<1> QED BY <1>1, <1>2, IdleAccounted

(* wasm_validator starts.                                                  *)
LEMMA StartAccounted ==
  ASSUME Possession, Accounting, StartValidator
  PROVE  Accounting'
<1> DEFINE mod == [m EXCEPT !.stage = "Validate"]
<1>1. pc = "validate" /\ pc \notin Final /\ pc # "undefined" /\ pc \notin Ending
  BY DEF StartValidator, Final, Over, Early, Ending
<1>2. /\ DOMAIN m = DOMAIN NewModule /\ Numbers(m) /\ InPhase(m, pc) /\ HoldsTables(m, heap)
  BY <1>1, Accounted DEF Holdings
<1>3. \/ Rejected(mod, {}) \/ Undefined("global slots") \/ Undefined("import value")
      \/ Undefined("thread")
      \/ m' = mod /\ heap' = heap /\ file' = file /\ pos' = pos /\ pc' \in {"serial", "join"}
  BY DEF StartValidator
<1>4. Agree(mod, m, {"stage"}) /\ mod.stage = "Validate"
  BY <1>2, ModuleFields DEF Agree
<1> HIDE DEF mod
<1>5. /\ mod.functions = m.functions /\ mod.counts = m.counts /\ mod.imports = m.imports
      /\ mod.tableData = m.tableData /\ mod.tables = m.tables /\ mod.wasi = m.wasi
      /\ mod.memoryData = m.memoryData
  BY <1>2, <1>4, ModuleFields DEF Agree
<1>6. m.stage # "Instantiate"
  BY <1>1, <1>2 DEF InPhase, BeforeGlobals, Ending
<1>7. Later(mod)
  BY <1>4, <1>5, <1>6 DEF Later, Agree
<1>8. Numbers(mod)
  BY <1>2, <1>5 DEF Numbers
<1>9. \A next \in {"serial", "join"} : InPhase(mod, next)
  BY <1>1, <1>2, <1>4, <1>5, <1>6
  DEF InPhase, BeforeGlobals, BeforeMemories, BeforeTables, BeforeWasi, Ending
<1>10. InPhase(mod, "fail")
  <2>1. HoldsTables(mod, heap)
    BY <1>2, <1>5 DEF HoldsTables
  <2> QED BY <1>8, <1>9, <2>1, PhaseFails
<1>11. "fail" \notin Over \cup {"header"} /\ "serial" \notin Over \cup {"header"}
       /\ "join" \notin Over \cup {"header"}
  BY DEF Final, Over, Early
<1>12. CASE Rejected(mod, {})
  <2>1. /\ file' = file /\ pc' = "fail" /\ m' = mod /\ heap' = heap /\ pos' = pos
    BY <1>12 DEF Rejected, Untouched
  <2> QED BY <1>1, <1>7, <1>8, <1>10, <1>11, <2>1, LaterAccounted
<1>13. CASE m' = mod /\ heap' = heap /\ file' = file /\ pos' = pos /\ pc' \in {"serial", "join"}
  BY <1>1, <1>7, <1>8, <1>9, <1>11, <1>13, LaterAccounted
<1> QED BY <1>3, <1>12, <1>13, UndefinedAccounted

----------------------------------------------------------------------------
(* No body is tried twice                                                  *)

(* Nothing is left of a validation of function k.                          *)
Untried(k) ==
  /\ <<"queues", k>> \notin heap
  /\ k \in DOMAIN m.functions => m.functions[k].table = Null

(* The bodies that main, or a thread, has still to come to: each thread    *)
(* goes on by ThreadNum, so that no two come to the same body.             *)
Turns ==
  /\ pc = "serial" => \A i \in Nat : i >= threads[0].next => Untried(Base + i + 1)
  /\ pc = "join" =>
       /\ \A t \in Threads : \E c \in Nat : threads[t].next = t + c * ThreadNum
       /\ \A t \in Threads : threads[t].state = "running" =>
            \A j \in Nat : Untried(Base + (threads[t].next + j * ThreadNum) + 1)

(* A number is that of one thread.                                         *)
LEMMA Apart ==
  ASSUME NEW s \in Threads, NEW t \in Threads, s # t, NEW c \in Nat, NEW d \in Nat
  PROVE  s + c * ThreadNum # t + d * ThreadNum
<1> DEFINE N == ThreadNum
<1>1. N \in Nat /\ N > 0 /\ s \in 0 .. N - 1 /\ t \in 0 .. N - 1
  BY LoaderAssumption DEF Threads
<1> HIDE DEF N
<1>2. ASSUME NEW a \in Nat, NEW b \in Nat, a > b PROVE a * N >= b * N + N
  <2> DEFINE x == a - b - 1
  <2>1. x \in Nat /\ a = b + 1 + x
    BY <1>2
  <2>2. x * N \in Nat
    BY <1>1, <2>1
  <2> HIDE DEF x
  <2>3. a * N = b * N + N + x * N
    BY <1>1, <2>1
  <2> QED BY <1>1, <2>2, <2>3
<1>3. CASE c = d
  <2>1. c * N = d * N /\ c * N \in Int
    BY <1>1, <1>3
  <2> QED BY <1>1, <2>1 DEF N
<1>4. CASE c > d
  <2>1. c * N >= d * N + N /\ c * N \in Int /\ d * N \in Int
    BY <1>1, <1>2, <1>4
  <2> QED BY <1>1, <2>1 DEF N
<1>5. CASE d > c
  <2>1. d * N >= c * N + N /\ c * N \in Int /\ d * N \in Int
    BY <1>1, <1>2, <1>5
  <2> QED BY <1>1, <2>1 DEF N
<1> QED BY <1>3, <1>4, <1>5

(* Before the validation nothing is tried.                                 *)
LEMMA NothingTried ==
  ASSUME Possession, Accounting, pc = "validate", NEW k
  PROVE  Untried(k)
<1>1. pc \notin Final
  BY DEF Final, Over, Early
<1>2. InPhase(m, pc) /\ Ledger(m, heap, pos, pc) /\ HoldsFunctions(m, heap)
  BY <1>1, Accounted DEF Holdings
<1>3. m.stage = "Load"
  BY <1>2 DEF InPhase
<1>4. ASSUME NEW tag \in {"queues", "branches"} PROVE <<tag, k>> \notin heap
  <2> DEFINE b == <<tag, k>>
  <2>1. b[1] = tag /\ Len(b) = 2
    OBVIOUS
  <2>2. b \notin NeverFreed /\ b \notin {<<"module">>, <<"file">>}
    BY <2>1 DEF NeverFreed, WasiBlocks
  <2>3. \A x : b # <<x>>
    BY <2>1
  <2> HIDE DEF b
  <2>4. ~Owned(m, b)
    BY <1>3, <2>1, <2>2, <2>3 DEF Owned
  <2>5. \A s : ~FromSection(b, s)
    BY <2>1 DEF FromSection, SectionTag
  <2> QED BY <1>2, <2>4, <2>5 DEF Ledger, Traced, b
<1>5. ASSUME k \in DOMAIN m.functions PROVE m.functions[k].table = Null
  BY <1>2, <1>4, <1>5 DEF HoldsFunctions
<1> QED BY <1>4, <1>5 DEF Untried

(* A body leaves the others as they are.                                   *)
LEMMA OthersUntried ==
  ASSUME Possession, pc \notin Final, NEW k, Accept(k) \/ Reject(k),
         NEW i, i # k, Untried(i)
  PROVE  Untried(i)'
<1>1. DOMAIN m = DOMAIN NewModule
  BY SlotsHeld
<1>2. <<"queues", i>> \notin heap' 
  <2>1. heap' \subseteq heap \cup {<<"stacks", k>>, <<"branches", k>>, <<"queues", k>>}
    BY DEF Accept, Reject, Branches, Queues
  <2>2. <<"queues", i>> \notin {<<"stacks", k>>, <<"branches", k>>, <<"queues", k>>}
    OBVIOUS
  <2> QED BY <2>1, <2>2 DEF Untried
<1>3. ASSUME i \in DOMAIN m'.functions PROVE m'.functions[i].table = Null
  <2>1. CASE Reject(k)
    BY <1>3, <2>1 DEF Reject, Untried
  <2>2. CASE Accept(k)
    <3> DEFINE block == IF Branches(k) = {} THEN Null ELSE <<"branches", k>>
    <3>1. m' = [m EXCEPT !.functions[k].table = block]
      BY <2>2 DEF Accept
    <3> HIDE DEF block
    <3>2. m'.functions = [m.functions EXCEPT ![k].table = block]
      BY <1>1, <3>1, ModuleFields
    <3>3. i \in DOMAIN m.functions /\ m'.functions[i] = m.functions[i]
      BY <1>3, <3>2
    <3> QED BY <3>3 DEF Untried
  <2> QED BY <2>1, <2>2
<1> QED BY <1>2, <1>3 DEF Untried

(* wasm_validator starts.                                                  *)
LEMMA StartTurned ==
  ASSUME Possession, Judgement, Accounting, StartValidator
  PROVE  Turns'
<1>1. pc = "validate" /\ threads = Unstarted
  BY DEF StartValidator, Judgement, Unvalidated
<1>2. DOMAIN m = DOMAIN NewModule
  BY <1>1, SlotsHeld DEF Final, Over, Early
<1>3. CASE pc' \notin {"join", "serial"}
  BY <1>3 DEF Turns
<1>4. CASE pc' \in {"join", "serial"}
  <2>1. /\ m' = [m EXCEPT !.stage = "Validate"] /\ heap' = heap
        /\ pc' = "join" => threads' = [t \in Threads |-> [threads[t] EXCEPT !.state = "running"]]
    BY <1>4 DEF StartValidator, Rejected, Undefined
  <2>2. m'.functions = m.functions
    BY <1>2, <2>1, ModuleFields
  <2>3. \A k : Untried(k)'
    BY <1>1, <2>1, <2>2, NothingTried DEF Untried
  <2>4. ASSUME pc' = "join", NEW t \in Threads
        PROVE  \E c \in Nat : threads'[t].next = t + c * ThreadNum
    <3>1. threads[t] = [next |-> t, state |-> "none", ret |-> FALSE]
      BY <1>1, <2>4 DEF Unstarted
    <3>2. threads'[t] = [threads[t] EXCEPT !.state = "running"]
      BY <2>1, <2>4
    <3>3. threads'[t].next = t
      BY <3>1, <3>2
    <3>4. t \in Nat /\ ThreadNum \in Nat
      BY LoaderAssumption DEF Threads
    <3>5. t = t + 0 * ThreadNum
      BY <3>4
    <3> QED BY <3>3, <3>5
  <2> QED BY <1>4, <2>3, <2>4 DEF Turns
<1> QED BY <1>3, <1>4

(* The loop without threads.                                               *)
LEMMA SerialTurned ==
  ASSUME Possession, Judgement, Turns, ValidateSerially
  PROVE  Turns'
<1> DEFINE next == threads[0].next
           k == Base + next + 1
<1>1. pc = "serial" /\ pc \notin Final
  BY DEF ValidateSerially, Final, Over, Early
<1>2. /\ next \in Nat /\ DOMAIN threads = Threads /\ DOMAIN threads[0] = {"next", "state", "ret"}
      /\ 0 \in Threads /\ Base \in Nat
  BY <1>1, LoaderAssumption DEF Judgement, OneByOne, Threads, Base
<1>3. CASE pc' \notin {"join", "serial"}
  BY <1>3 DEF Turns
<1>4. CASE pc' \in {"join", "serial"}
  <2>1. Accept(k) /\ threads' = [threads EXCEPT ![0].next = @ + 1] /\ pc' = "serial"
    BY <1>1, <1>4 DEF ValidateSerially, Goto, Unusable, Undefined
  <2>2. threads'[0].next = next + 1
    BY <1>2, <2>1
  <2>3. Base' = Base
    BY <1>1, <2>1, AcceptSettles DEF Base
  <2>4. ASSUME NEW i \in Nat, i >= next + 1 PROVE Untried(Base + i + 1)'
    <3>1. i >= next
      BY <1>2, <2>4
    <3>2. Untried(Base + i + 1)
      BY <1>1, <2>4, <3>1 DEF Turns
    <3>3. Base + i + 1 # k
      <4> HIDE DEF Base, next
      <4> QED BY <1>2, <2>4
    <3>4. \A e : e = Base + i + 1 => Untried(e)'
      BY <1>1, <2>1, <3>2, <3>3, OthersUntried
    <3> QED BY <2>3, <3>4 DEF Untried
  <2> QED BY <2>1, <2>2, <2>3, <2>4 DEF Turns
<1> QED BY <1>3, <1>4

(* A thread tries its body.                                                *)
LEMMA BodyTurned ==
  ASSUME Possession, Judgement, Turns, NEW t \in Threads, ValidateBody(t)
  PROVE  Turns'
<1> DEFINE next == threads[t].next
           k == Base + next + 1
<1>1. pc = "join" /\ pc \notin Final /\ threads[t].state = "running"
  BY DEF ValidateBody, Final, Over, Early
<1>2. Shared /\ Base \in Nat /\ ThreadNum \in Nat /\ ThreadNum > 0
  BY <1>1, LoaderAssumption DEF Judgement, Base
<1>3. CASE pc' \notin {"join", "serial"}
  BY <1>3 DEF Turns
<1>4. CASE pc' \in {"join", "serial"}
  <2>1. /\ pc' = "join"
        /\ \/ Accept(k) /\ threads' = [threads EXCEPT ![t] = Continued(t)]
           \/ Reject(k) /\ threads' = [threads EXCEPT ![t] = Stopped(t)]
    BY <1>1, <1>4 DEF ValidateBody, Unusable, Undefined
  <2>2. Base' = Base
    BY <1>1, <2>1, AcceptSettles DEF Base, Reject
  <2>3. /\ \A s \in Threads \ {t} : threads'[s] = threads[s]
        /\ \/ threads'[t].next = next /\ threads'[t].state = "done"
           \/ threads'[t].next = next + ThreadNum
    <3>1. DOMAIN threads = Threads /\ DOMAIN threads[t] = {"next", "state", "ret"}
      BY <1>2 DEF Shared
    <3>2. CASE threads' = [threads EXCEPT ![t] = Continued(t)]
      <4>1. threads'[t] = Continued(t) /\ \A s \in Threads \ {t} : threads'[s] = threads[s]
        BY <3>1, <3>2
      <4> QED BY <3>1, <4>1 DEF Continued
    <3>3. CASE threads' = [threads EXCEPT ![t] = Stopped(t)]
      <4>1. threads'[t] = Stopped(t) /\ \A s \in Threads \ {t} : threads'[s] = threads[s]
        BY <3>1, <3>3
      <4> QED BY <3>1, <4>1 DEF Stopped
    <3> QED BY <2>1, <3>2, <3>3
  <2>4. PICK c \in Nat : next = t + c * ThreadNum
    BY <1>1 DEF Turns
  <2>5. t \in Nat /\ next \in Nat
    BY <1>2, LoaderAssumption DEF Threads, Shared
  <2>6. ASSUME NEW s \in Threads
        PROVE  \E d \in Nat : threads'[s].next = s + d * ThreadNum
    <3>1. CASE s # t
      BY <1>1, <2>3, <3>1 DEF Turns
    <3>2. CASE s = t /\ threads'[t].next = next
      BY <2>4, <3>2
    <3>3. CASE s = t /\ threads'[t].next = next + ThreadNum
      <4>1. c + 1 \in Nat
        OBVIOUS
      <4>2. next + ThreadNum = t + (c + 1) * ThreadNum
        <5> HIDE DEF next
        <5> QED BY <1>2, <2>4, <2>5
      <4> QED BY <3>3, <4>1, <4>2
    <3> QED BY <2>3, <3>1, <3>2, <3>3
  <2>7. ASSUME NEW i, i # k, Untried(i) PROVE Untried(i)'
    BY <1>1, <2>1, <2>7, OthersUntried
  <2>8. ASSUME NEW s \in Threads, threads'[s].state = "running", NEW j \in Nat,
               NEW e, e = Base + (threads'[s].next + j * ThreadNum) + 1
        PROVE  Untried(e)'
    <3>1. CASE s # t
      <4>1. threads'[s] = threads[s]
        BY <2>3, <3>1
      <4>2. Untried(e)
        BY <1>1, <2>8, <4>1, Zenon DEF Turns
      <4>3. PICK d \in Nat : threads[s].next = s + d * ThreadNum
        BY <1>1 DEF Turns
      <4>4. threads[s].next + j * ThreadNum # next
        <5>1. d + j \in Nat /\ s \in Nat
          BY LoaderAssumption DEF Threads
        <5>2. s + (d + j) * ThreadNum # t + c * ThreadNum
          BY <3>1, <5>1, Apart
        <5>3. threads[s].next + j * ThreadNum = s + (d + j) * ThreadNum
          BY <1>2, <4>3, <5>1
        <5> QED BY <2>4, <5>2, <5>3
      <4>5. threads[s].next + j * ThreadNum \in Nat
        BY <1>2 DEF Shared
      <4>6. e # k
        <5> DEFINE x == threads[s].next + j * ThreadNum
        <5>1. x \in Nat /\ x # next /\ e = Base + x + 1
          BY <2>8, <4>1, <4>4, <4>5
        <5> HIDE DEF x, next, Base
        <5> QED BY <1>2, <2>5, <5>1 DEF k
      <4> QED BY <2>7, <4>2, <4>6
    <3>2. CASE s = t
      <4>1. threads'[s].next = next + ThreadNum /\ j + 1 \in Nat
        BY <2>3, <2>8, <3>2
      <4>2. threads'[s].next + j * ThreadNum = next + (j + 1) * ThreadNum
        <5> HIDE DEF next
        <5> QED BY <1>2, <2>5, <4>1
      <4>3. Untried(e)
        BY <1>1, <2>8, <3>2, <4>1, <4>2, Zenon DEF Turns
      <4>4. j * ThreadNum \in Nat
        BY <1>2
      <4>5. e # k
        <5> DEFINE x == j * ThreadNum
        <5>1. x \in Nat /\ e = Base + ((next + ThreadNum) + x) + 1
          BY <2>8, <4>1, <4>4
        <5> HIDE DEF x, next, Base
        <5> QED BY <1>2, <2>5, <5>1 DEF k
      <4> QED BY <2>7, <4>3, <4>5
    <3> QED BY <3>1, <3>2
  <2>9. ASSUME NEW s \in Threads, threads'[s].state = "running", NEW j \in Nat
        PROVE  (Untried(Base + (threads[s].next + j * ThreadNum) + 1))'
    BY <2>2, <2>8, <2>9
  <2> QED BY <2>1, <2>6, <2>9 DEF Turns
<1> QED BY <1>3, <1>4

(* A thread has no body left.                                              *)
LEMMA ExitTurned ==
  ASSUME Judgement, Turns, NEW t \in Threads, ThreadExit(t)
  PROVE  Turns'
<1>1. pc = "join" /\ pc' = "join" /\ m' = m /\ heap' = heap
  BY DEF ThreadExit
<1>2. DOMAIN threads = Threads /\ DOMAIN threads[t] = {"next", "state", "ret"}
  BY <1>1 DEF Judgement, Shared
<1>3. PICK ret : threads' = [threads EXCEPT ![t].state = "done", ![t].ret = ret]
  BY DEF ThreadExit
<1>4. threads' = [threads EXCEPT ![t] = [@ EXCEPT !.state = "done", !.ret = ret]]
  BY <1>3
<1>5. /\ threads'[t].next = threads[t].next /\ threads'[t].state = "done"
      /\ \A s \in Threads \ {t} : threads'[s] = threads[s]
  BY <1>2, <1>4
<1>6. Base' = Base /\ \A k : Untried(k) => Untried(k)'
  BY <1>1 DEF Base, Untried
<1> QED BY <1>1, <1>5, <1>6 DEF Turns

(* The validation goes on in no other way.                                 *)
LEMMA NextTurned ==
  ASSUME Possession, Judgement, Accounting, Turns, [Next]_vars
  PROVE  Turns'
<1>1. CASE pc' \notin {"join", "serial"}
  BY <1>1 DEF Turns
<1>2. CASE StartValidator
  BY <1>2, StartTurned
<1>3. CASE ValidateSerially
  BY <1>3, SerialTurned
<1>4. ASSUME NEW t \in Threads, ThreadStep(t) PROVE Turns'
  BY <1>4, BodyTurned, ExitTurned DEF ThreadStep
<1>5. CASE UNCHANGED vars
  <2>1. pc' = pc /\ m' = m /\ heap' = heap /\ threads' = threads
    BY <1>5 DEF vars
  <2>2. Base' = Base /\ \A k : Untried(k)' <=> Untried(k)
    BY <2>1 DEF Base, Untried
  <2> QED BY <2>1, <2>2 DEF Turns
<1>6. CASE InitEnv \/ Options \/ ReadFile \/ CreateModule \/ InitLoad
  BY <1>1, <1>6 DEF InitEnv, Options, ReadFile, CreateModule, InitLoad, Goto, Rejected, Exhausted
<1>7. CASE LoadSection
  BY <1>1, <1>7, LoadSectionPassed DEF Passed
<1>8. CASE JoinThreads \/ WasiInit \/ ExecuteMain \/ Return \/ Fail \/ Destroy
  BY <1>1, <1>8 DEF JoinThreads, WasiInit, ExecuteMain, Return, Fail, Destroy, Goto, Rejected,
     Exhausted, Undefined
<1>9. CASE Instantiate
  BY <1>1, <1>9 DEF Instantiate, GlobalsInstantiate, MemoriesInstantiate, TablesInstantiate,
     ExportInstantiate, FunctionsInstantiate, Goto, Rejected, Undefined
<1> QED BY <1>2, <1>3, <1>4, <1>5, <1>6, <1>7, <1>8, <1>9 DEF Next, Main

----------------------------------------------------------------------------
(* The accounts of the validation                                          *)

(* A body that is accepted or rejected: what is left has its number.       *)
LEMMA BodyAccounted ==
  ASSUME Possession, Accounting, pc \in {"join", "serial"}, NEW k \in DOMAIN m.functions, k > Base,
         Untried(k), Accept(k) \/ Reject(k), file' = file, pos' = pos, pc' \in {pc, "fail"}
  PROVE  Accounting'
<1>1. pc \notin Final /\ pc # "undefined" /\ pc \notin Ending /\ pc' \notin Over \cup {"header"}
  BY DEF Final, Over, Early, Ending
<1>2. /\ DOMAIN m = DOMAIN NewModule /\ Numbers(m) /\ InPhase(m, pc) /\ HoldsTables(m, heap)
      /\ HoldsFunctions(m, heap)
  BY <1>1, Accounted DEF Holdings
<1>3. /\ m.stage # "Load" /\ Branches(k) \subseteq {<<"branches", k>>}
      /\ Queues(k) \subseteq {<<"queues", k>>}
  BY <1>2 DEF InPhase, Branches, Queues
<1>4. PICK new : /\ Later(new) /\ Framed(new) /\ m' = new
                 /\ \/ heap' \subseteq heap \cup {<<"stacks", k>>, <<"branches", k>>}
                    \/ /\ heap' \subseteq heap \cup {<<"branches", k>>, <<"queues", k>>}
                       /\ new.functions[k].table = Null
  <2>1. CASE Reject(k)
    <3>1. m' = m /\ heap' \subseteq heap \cup Branches(k) \cup Queues(k)
          /\ m.functions[k].table = Null
      BY <2>1 DEF Reject, Untried
    <3>2. Framed(m)
      BY DEF Framed
    <3> QED BY <1>3, <3>1, <3>2, LaterSame
  <2>2. CASE Accept(k)
    <3> DEFINE block == IF Branches(k) = {} THEN Null ELSE <<"branches", k>>
               new == [m EXCEPT !.functions[k].table = block]
    <3>1. m' = new /\ heap' = heap \cup ({<<"stacks", k>>} \cup Branches(k))
      BY <2>2 DEF Accept
    <3>2. /\ Agree(new, m, {"functions"})
          /\ new.functions = [m.functions EXCEPT ![k].table = block]
      <4> HIDE DEF block
      <4> QED BY <1>2, ModuleFields DEF Agree
    <3> HIDE DEF new, block
    <3>3. ASSUME NEW j \in DOMAIN m.functions
          PROVE  /\ new.functions[j].types = m.functions[j].types
                 /\ new.functions[j].offsets = m.functions[j].offsets
      <4>1. DOMAIN m.functions[j] = DOMAIN NoFunction
        BY <1>2 DEF HoldsFunctions
      <4>2. CASE j # k
        BY <3>2, <4>2
      <4>3. CASE j = k
        BY <3>2, <4>1, <4>3, FunctionFields
      <4> QED BY <4>2, <4>3
    <3>4. DOMAIN new.functions = DOMAIN m.functions
      BY <3>2
    <3>5. /\ new.stage = m.stage /\ new.tableData = m.tableData /\ new.globalData = m.globalData
          /\ new.memoryData = m.memoryData /\ new.exportFuncs = m.exportFuncs /\ new.wasi = m.wasi
          /\ new.imports = m.imports /\ new.counts = m.counts /\ new.arrays = m.arrays
          /\ new.tables = m.tables
      BY <1>2, <3>2, ModuleFields DEF Agree
    <3>8. ASSUME NEW j \in DOMAIN m.functions, <<"queues", j>> \in heap, m.functions[j].table = Null
          PROVE  new.functions[j].table = Null
      <4>1. j # k
        BY <3>8 DEF Untried
      <4> QED BY <3>2, <3>8, <4>1
    <3>6. Later(new)
      BY <3>2, <3>3, <3>4, <3>5, <3>8 DEF Later, Agree
    <3>7. Framed(new)
      BY <3>4, <3>5 DEF Framed
    <3> QED BY <1>3, <3>1, <3>6, <3>7
  <2> QED BY <2>1, <2>2
<1>5. Numbers(new) /\ InPhase(new, pc)
  BY <1>2, <1>4, FramedSame
<1>6. HoldsTables(new, heap)
  BY <1>2, <1>4 DEF HoldsTables, Framed
<1>7. InPhase(new, pc')
  BY <1>5, <1>6, PhaseFails
<1>8. \A b \in heap' : b \in heap \/ Owned(new, b)
  <2>1. Owned(new, <<"stacks", k>>)
    <3>1. <<"stacks", k>>[1] = "stacks"
      OBVIOUS
    <3> QED BY <3>1, Zenon DEF Owned
  <2>2. Owned(new, <<"branches", k>>)
    <3>1. k \in DOMAIN new.functions /\ k > new.imports["func"] /\ new.stage # "Load"
      BY <1>3, <1>4 DEF Framed, Base
    <3> QED BY <3>1, Zenon DEF Owned
  <2>3. new.functions[k].table = Null => Owned(new, <<"queues", k>>)
    <3>1. k \in DOMAIN new.functions /\ k > new.imports["func"] /\ new.stage # "Load"
      BY <1>3, <1>4 DEF Framed, Base
    <3> QED BY <3>1, Zenon DEF Owned
  <2> QED BY <1>4, <2>1, <2>2, <2>3
<1> QED BY <1>1, <1>4, <1>5, <1>7, <1>8, LaterAccounted

(* The validation of the bodies, by main or by the threads in any order.   *)
LEMMA ValidationAccounted ==
  ASSUME Possession, Judgement, Accounting, Turns,
         ValidateSerially \/ JoinThreads \/ \E t \in Threads : ThreadStep(t)
  PROVE  Accounting'
<1>1. pc \in {"join", "serial"} /\ pc \notin Final /\ pc # "undefined" /\ pc \notin Ending
  BY DEF ValidateSerially, JoinThreads, ThreadStep, ValidateBody, ThreadExit, Final, Over, Early, Ending
<1>2. DOMAIN m.functions = 1 .. Base + Bodies /\ Base \in Nat /\ Bodies \in Nat
  BY <1>1 DEF Judgement, Base, Bodies
<1>3. ASSUME NEW next \in Nat, next < Bodies
      PROVE  Base + next + 1 \in DOMAIN m.functions /\ Base + next + 1 > Base
  <2> HIDE DEF Base, Bodies
  <2> QED BY <1>2, <1>3
<1>4. InPhase(m, "globals")
  <2>1. InPhase(m, pc)
    BY <1>1, Accounted
  <2> QED BY <1>1, <2>1 DEF InPhase, BeforeGlobals, BeforeMemories, BeforeTables, BeforeWasi, Ending
<1>5. ASSUME NEW next \in {"globals", "fail"}, Goto(next, m, {})
      PROVE  Accounting'
  <2>1. next \notin Over \cup {"header"} /\ (next \in Ending \/ InPhase(m, next))
    BY <1>4 DEF Final, Over, Early, Ending
  <2>2. file' = file /\ m' = m /\ heap' = heap /\ pos' = pos /\ pc' = next
    BY <1>5 DEF Goto, Untouched
  <2> QED BY <1>1, <2>1, <2>2, IdleAccounted
<1>6. ASSUME NEW k, Unusable(k) PROVE Accounting'
  BY <1>6, UndefinedAccounted DEF Unusable
<1>7. ASSUME NEW next \in Nat, next < Bodies, Untried(Base + next + 1),
              Accept(Base + next + 1) \/ Reject(Base + next + 1),
              file' = file, pos' = pos, pc' \in {pc, "fail"}
       PROVE  Accounting'
  <2> DEFINE k == Base + next + 1
  <2>1. k \in DOMAIN m.functions /\ k > Base
    BY <1>3, <1>7
  <2>2. Untried(k) /\ (Accept(k) \/ Reject(k))
    BY <1>7
  <2> HIDE DEF k
  <2> QED BY <1>1, <1>7, <2>1, <2>2, BodyAccounted
<1>8. CASE ValidateSerially
  <2> DEFINE k == Base + threads[0].next + 1
  <2>1. pc = "serial" /\ threads[0].next \in Nat
    BY <1>8 DEF ValidateSerially, Judgement, OneByOne
  <2>2. \/ Goto("globals", m, {}) \/ Unusable(k)
        \/ /\ threads[0].next < Bodies /\ (Accept(k) \/ Reject(k))
           /\ file' = file /\ pos' = pos /\ pc' \in {pc, "fail"}
    BY <1>2, <1>8, <2>1 DEF ValidateSerially
  <2>3. Untried(k)
    BY <2>1 DEF Turns
  <2> QED BY <1>5, <1>6, <1>7, <2>1, <2>2, <2>3
<1>9. CASE JoinThreads
  BY <1>5, <1>9 DEF JoinThreads
<1>10. ASSUME NEW t \in Threads, ValidateBody(t)
      PROVE  Accounting'
  <2> DEFINE k == Base + threads[t].next + 1
  <2>1. pc = "join" /\ threads[t].next \in Nat
    BY <1>10 DEF ValidateBody, Judgement, Shared
  <2>2. \/ Unusable(k)
        \/ /\ threads[t].next < Bodies /\ (Accept(k) \/ Reject(k))
           /\ file' = file /\ pos' = pos /\ pc' \in {pc, "fail"}
    BY <1>10 DEF ValidateBody
  <2>3. Untried(k)
    <3>1. \A j \in Nat : Untried(Base + (threads[t].next + j * ThreadNum) + 1)
      BY <1>10 DEF ValidateBody, Turns
    <3>2. ThreadNum \in Nat /\ threads[t].next + 0 * ThreadNum = threads[t].next
      BY <2>1, LoaderAssumption
    <3>3. Untried(Base + (threads[t].next + 0 * ThreadNum) + 1)
      BY <3>1
    <3> QED BY <3>2, <3>3
  <2> QED BY <1>6, <1>7, <2>1, <2>2, <2>3
<1>11. ASSUME NEW t \in Threads, ThreadExit(t)
       PROVE  Accounting'
  <2>1. m' = m /\ heap' = heap /\ file' = file /\ pos' = pos /\ pc' = pc
    BY <1>11 DEF ThreadExit
  <2>2. InPhase(m, pc) /\ pc \notin Over \cup {"header"}
    BY <1>1, Accounted DEF Final, Over, Early
  <2> QED BY <1>1, <2>1, <2>2, IdleAccounted
<1> QED BY <1>8, <1>9, <1>10, <1>11 DEF ThreadStep

----------------------------------------------------------------------------
(* The accounts of the instantiation and the execution                     *)

(* A step of wasm_instantiate or wasm_runtime_wasi_init.                   *)
LEMMA InstanceAccounted ==
  ASSUME Possession, Accounting, pc \notin Final, pc # "undefined", pc \notin Ending, NEW new,
         Agree(new, m, {"stage", "counts", "tableData", "globalData", "memoryData",
                        "exportFuncs", "wasi"}),
         new.stage = "Instantiate",
         m.stage = "Instantiate" =>
           /\ \A i \in DOMAIN m.tableData :
                m.tableData[i] = Null \/ (i \in DOMAIN new.tableData /\ new.tableData[i] = m.tableData[i])
           /\ m.globalData = Null \/ new.globalData = m.globalData
           /\ m.memoryData = Null \/ new.memoryData = m.memoryData
           /\ m.exportFuncs # <<"export_functions">> \/ new.exportFuncs = m.exportFuncs
           /\ m.wasi # <<"wasi_ctx">> \/ new.wasi = m.wasi,
         NEW next, next \notin Over \cup {"header"}, NEW blocks, \A b \in blocks : Owned(new, b),
         Goto(next, new, blocks) \/ (next = "fail" /\ Rejected(new, blocks)),
         Numbers(new), InPhase(new, next)
  PROVE  Accounting'
<1>1. DOMAIN m = DOMAIN NewModule
  BY Accounted
<1>2. new.functions = m.functions
  BY <1>1, ModuleFields DEF Agree
<1>3. Agree(new, m, {"stage", "counts", "functions", "tableData", "globalData", "memoryData",
                     "exportFuncs", "wasi"})
  BY DEF Agree
<1>4. Later(new)
  <2>1. m.memoryData = Null => m.memoryData # <<"memory_data">>
    BY DEF Null
  <2> QED BY <1>2, <1>3, <2>1, Zenon DEF Later
<1>5. /\ file' = file /\ pc' = next /\ m' = new /\ pos' = pos
      /\ \A b \in heap' : b \in heap \/ Owned(new, b)
  BY DEF Rejected, Goto, Untouched
<1> QED BY <1>4, <1>5, LaterAccounted

(* globals_instantiate.                                                    *)
LEMMA GlobalsAccounted ==
  ASSUME Possession, Accounting, GlobalsInstantiate
  PROVE  Accounting'
<1> DEFINE n == Len(m.globals)
           staged == [m EXCEPT !.stage = "Instantiate"]
           data == IF n = 0 THEN Null ELSE <<"global_data">>
           done == [staged EXCEPT !.counts["global"] = n, !.globalData = data]
           changed == {"stage", "counts", "tableData", "globalData", "memoryData",
                       "exportFuncs", "wasi"}
<1>1. /\ pc = "globals" /\ pc \notin Final /\ pc # "undefined" /\ pc \notin Ending
      /\ "memories" \notin Over \cup {"header"} /\ "fail" \notin Over \cup {"header"}
  BY DEF GlobalsInstantiate, Final, Over, Early, Ending
<1>2. /\ DOMAIN m = DOMAIN NewModule /\ Numbers(m) /\ InPhase(m, pc) /\ HoldsTables(m, heap)
  BY <1>1, Accounted DEF Holdings
<1>3. \/ Undefined("global slots") \/ Undefined("import value")
      \/ Goto("memories", done, Allocated(done.globalData)) \/ Rejected(staged, {})
  BY DEF GlobalsInstantiate
<1>4. /\ done.globalData = data /\ done.counts = [m.counts EXCEPT !["global"] = n]
      /\ done.stage = "Instantiate" /\ staged.stage = "Instantiate" /\ staged.counts = m.counts
      /\ Agree(done, m, {"stage", "counts", "globalData"}) /\ Agree(staged, m, {"stage"})
      /\ Agree(done, m, changed) /\ Agree(staged, m, changed)
  <2> HIDE DEF n, data
  <2> QED BY <1>2, ModuleFields DEF Agree
<1>5. data = Null \/ data = <<"global_data">>
  OBVIOUS
<1> HIDE DEF done, staged, data, n, changed
<1>6. m.stage # "Instantiate"
  BY <1>1, <1>2 DEF InPhase, BeforeGlobals
<1>7. ASSUME NEW new \in {done, staged}
      PROVE  /\ Numbers(new) /\ InPhase(new, "memories") /\ InPhase(new, "fail")
  <2>1. /\ new.functions = m.functions /\ new.imports = m.imports /\ new.tableData = m.tableData
        /\ new.tables = m.tables /\ new.wasi = m.wasi /\ new.memoryData = m.memoryData
    BY <1>2, <1>4, ModuleFields DEF Agree
  <2>2. /\ \A kind \in {"func", "table", "memory"} : new.counts[kind] = m.counts[kind]
        /\ DOMAIN new.counts = ImportKinds
    BY <1>2, <1>4 DEF HoldsTables, ImportKinds
  <2>3. Numbers(new)
    BY <1>2, <2>1, <2>2 DEF Numbers
  <2>4. new.stage = "Instantiate"
    BY <1>4
  <2>5. InPhase(new, "memories")
    BY <1>1, <1>2, <2>1, <2>2, <2>4
    DEF InPhase, BeforeGlobals, BeforeMemories, BeforeTables, BeforeWasi, Ending
  <2>6. HoldsTables(new, heap)
    BY <1>2, <2>1, <2>2 DEF HoldsTables
  <2> QED BY <2>3, <2>5, <2>6, PhaseFails
<1>8. CASE Goto("memories", done, Allocated(done.globalData))
  <2>1. ASSUME NEW b \in Allocated(done.globalData) PROVE Owned(done, b)
    <3>1. b = <<"global_data">> /\ b = done.globalData
      BY <1>4, <1>5, <2>1 DEF Allocated
    <3> QED BY <1>4, <3>1, Zenon DEF Owned
  <2> QED BY <1>1, <1>4, <1>6, <1>7, <1>8, <2>1, InstanceAccounted DEF changed
<1>9. CASE Rejected(staged, {})
  BY <1>1, <1>4, <1>6, <1>7, <1>9, InstanceAccounted DEF changed
<1> QED BY <1>3, <1>8, <1>9, UndefinedAccounted

(* memories_instantiate: there is no memory without a count.               *)
LEMMA MemoriesAccounted ==
  ASSUME Possession, Accounting, MemoriesInstantiate
  PROVE  Accounting'
<1> DEFINE n == m.imports["memory"] + m.counts["memory"]
           none == n = 0 \/ m.pages = 0
           data == IF none THEN Null ELSE <<"memory_data">>
           done == [m EXCEPT !.counts["memory"] = n, !.memoryData = data]
           changed == {"stage", "counts", "tableData", "globalData", "memoryData",
                       "exportFuncs", "wasi"}
<1>1. /\ pc = "memories" /\ pc \notin Final /\ pc # "undefined" /\ pc \notin Ending
      /\ "tables" \notin Over \cup {"header"}
  BY DEF MemoriesInstantiate, Final, Over, Early, Ending
<1>2. /\ DOMAIN m = DOMAIN NewModule /\ Numbers(m) /\ InPhase(m, pc) /\ HoldsTables(m, heap)
  BY <1>1, Accounted DEF Holdings
<1>3. \/ Rejected(m, {})
      \/ \E what \in {"memory size", "memory slots", "global slots", "data segment", "import value"} :
           Undefined(what)
      \/ Goto("tables", done, Allocated(done.memoryData))
  BY DEF MemoriesInstantiate
<1>4. /\ done.memoryData = data /\ done.counts = [m.counts EXCEPT !["memory"] = n]
      /\ Agree(done, m, {"counts", "memoryData"}) /\ Agree(done, m, changed)
  <2> HIDE DEF n, data
  <2> QED BY <1>2, ModuleFields DEF Agree
<1>5. (data = Null \/ data = <<"memory_data">>) /\ (data # Null => n # 0)
  OBVIOUS
<1>6. n \in Nat
  BY <1>2 DEF Numbers
<1> HIDE DEF done, data, n, changed
<1>7. /\ m.stage = "Instantiate" /\ m.memoryData = Null
  BY <1>1, <1>2 DEF InPhase, BeforeGlobals, BeforeMemories, Ending
<1>8. /\ done.functions = m.functions /\ done.imports = m.imports /\ done.tableData = m.tableData
      /\ done.tables = m.tables /\ done.wasi = m.wasi /\ done.globalData = m.globalData
      /\ done.exportFuncs = m.exportFuncs /\ done.stage = m.stage
  BY <1>2, <1>4, ModuleFields DEF Agree
<1>9. /\ \A kind \in {"func", "table"} : done.counts[kind] = m.counts[kind]
      /\ done.counts["memory"] = n
  BY <1>2, <1>4 DEF HoldsTables, ImportKinds
<1>10. Numbers(done)
  BY <1>2, <1>6, <1>8, <1>9 DEF Numbers
<1>11. InPhase(done, "tables")
  <2>1. done.memoryData # Null => done.counts["memory"] > 0
    BY <1>4, <1>5, <1>6, <1>9
  <2> QED BY <1>1, <1>2, <1>7, <1>8, <1>9, <2>1
      DEF InPhase, BeforeGlobals, BeforeMemories, BeforeTables, BeforeWasi, Ending
<1>12. CASE Goto("tables", done, Allocated(done.memoryData))
  <2>1. ASSUME NEW b \in Allocated(done.memoryData) PROVE Owned(done, b)
    <3>1. b = <<"memory_data">> /\ b = done.memoryData
      BY <1>4, <1>5, <2>1 DEF Allocated
    <3> QED BY <1>7, <1>8, <3>1, Zenon DEF Owned
  <2> QED BY <1>1, <1>4, <1>7, <1>8, <1>10, <1>11, <1>12, <2>1, InstanceAccounted DEF changed
<1>13. CASE Rejected(m, {})
  BY <1>1, <1>13, IdleRejected
<1> QED BY <1>3, <1>12, <1>13, UndefinedAccounted

(* tables_instantiate: the count includes the imports only at its end.     *)
LEMMA TablesAccounted ==
  ASSUME Possession, Accounting, TablesInstantiate
  PROVE  Accounting'
<1> DEFINE n == m.tables
           slots(k) == [i \in 1..n |-> IF i <= k THEN <<"table_data", i>> ELSE Null]
           Data(k) == [m EXCEPT !.tableData = slots(k)]
           Blocks(k) == {<<"table_data", i>> : i \in 1..k}
           done == [Data(n) EXCEPT !.counts["table"] = n]
           changed == {"stage", "counts", "tableData", "globalData", "memoryData",
                       "exportFuncs", "wasi"}
<1>1. /\ pc = "tables" /\ pc \notin Final /\ pc # "undefined" /\ pc \notin Ending
      /\ "exports" \notin Over \cup {"header"} /\ "fail" \notin Over \cup {"header"}
  BY DEF TablesInstantiate, Final, Over, Early, Ending
<1>2. /\ DOMAIN m = DOMAIN NewModule /\ Numbers(m) /\ InPhase(m, pc) /\ HoldsTables(m, heap)
  BY <1>1, Accounted DEF Holdings
<1>3. n \in Nat
  BY <1>2 DEF HoldsTables
<1>4. \/ \E k \in 0 .. n - 1 : Rejected(Data(k), Blocks(k))
      \/ Undefined("element") \/ Undefined("global slots") \/ Rejected(Data(n), Blocks(n))
      \/ Goto("exports", done, Blocks(n))
  BY DEF TablesInstantiate
<1>5. ASSUME NEW k
      PROVE  /\ Data(k).tableData = slots(k) /\ Data(k).counts = m.counts
             /\ Agree(Data(k), m, {"tableData", "counts"}) /\ Agree(Data(k), m, changed)
  <2> HIDE DEF slots
  <2> QED BY <1>2, ModuleFields DEF Agree
<1>6. /\ done.tableData = slots(n) /\ done.counts = [m.counts EXCEPT !["table"] = n]
      /\ Agree(done, m, {"tableData", "counts"}) /\ Agree(done, m, changed)
  <2> HIDE DEF slots
  <2> QED BY <1>2, ModuleFields DEF Agree
<1>7. ASSUME NEW k \in 0 .. n
      PROVE  /\ DOMAIN slots(k) = 1 .. n
             /\ \A i \in 1 .. n : slots(k)[i] = Null \/ i <= k
             /\ \A b \in Blocks(k) : \E i \in DOMAIN slots(k) : b = <<"table_data", i>> /\ b = slots(k)[i]
  <2>1. \A i \in 1 .. k : i \in 1 .. n /\ i <= k
    BY <1>3, <1>7
  <2> HIDE DEF n
  <2> QED BY <2>1
<1> HIDE DEF Data, done, Blocks, slots, n, changed
<1>8. /\ m.stage = "Instantiate" /\ m.wasi = Null
      /\ \A i \in DOMAIN m.tableData : m.tableData[i] = Null
      /\ n = m.imports["table"] + m.counts["table"]
      /\ DOMAIN m.functions = 1 .. m.imports["func"] + m.counts["func"]
  BY <1>1, <1>2 DEF InPhase, BeforeGlobals, BeforeMemories, BeforeTables, BeforeWasi, Ending, n
<1>9. ASSUME NEW new, Agree(new, m, {"tableData", "counts"})
      PROVE  /\ new.functions = m.functions /\ new.imports = m.imports /\ new.memoryData = m.memoryData
             /\ new.tables = m.tables /\ new.wasi = m.wasi /\ new.globalData = m.globalData
             /\ new.exportFuncs = m.exportFuncs /\ new.stage = m.stage
  BY <1>2, <1>9, ModuleFields DEF Agree
<1>10. /\ \A kind \in {"func", "memory"} : done.counts[kind] = m.counts[kind]
       /\ done.counts["table"] = n
  BY <1>2, <1>6 DEF HoldsTables, ImportKinds
<1>11. ASSUME NEW k \in 0 .. n
       PROVE  Numbers(Data(k)) /\ InPhase(Data(k), "fail")
  <2> DEFINE new == Data(k)
  <2>1. /\ new.functions = m.functions /\ new.imports = m.imports /\ new.memoryData = m.memoryData
        /\ new.tables = m.tables /\ new.wasi = m.wasi /\ new.counts = m.counts
        /\ new.stage = m.stage /\ new.tableData = slots(k)
    BY <1>5, <1>9
  <2>2. InPhase(m, "fail")
    BY <1>2, PhaseFails
  <2>3. Numbers(new)
    BY <1>2, <2>1 DEF Numbers
  <2>4. TablesTaken(new) \/ Unlinked(new, "table")
    <3>1. CASE m.imports["table"] > 0
      BY <1>8, <2>1, <3>1 DEF Unlinked
    <3>2. CASE ~(m.imports["table"] > 0)
      <4>1. n = m.counts["table"]
        BY <1>2, <1>8, <3>2 DEF Numbers
      <4>2. \A i \in DOMAIN new.tableData : new.tableData[i] = Null \/ i <= new.counts["table"]
        <5> HIDE DEF new
        <5> QED BY <1>3, <1>7, <2>1, <4>1
      <4> QED BY <4>2 DEF TablesTaken
    <3> QED BY <3>1, <3>2
  <2>5. FunctionsTaken(new) \/ Unlinked(new, "func")
    <3> HIDE DEF new
    <3> QED BY <2>1, <2>2 DEF InPhase, Ending, FunctionsTaken, Unlinked
  <2>6. new.memoryData # Null => new.counts["memory"] > 0
    BY <2>1, <2>2 DEF InPhase
  <2> HIDE DEF new
  <2>7. InPhase(new, "fail")
    BY <2>4, <2>5, <2>6
    DEF InPhase, BeforeGlobals, BeforeMemories, BeforeTables, BeforeWasi, Ending
  <2> QED BY <2>3, <2>7 DEF new
<1>12. Numbers(done) /\ InPhase(done, "exports")
  <2>1. /\ done.functions = m.functions /\ done.imports = m.imports /\ done.memoryData = m.memoryData
        /\ done.tables = n /\ done.wasi = m.wasi /\ done.stage = m.stage
    BY <1>6, <1>9 DEF n
  <2>2. Numbers(done)
    BY <1>2, <1>3, <1>10, <2>1 DEF Numbers
  <2>3. InPhase(done, "exports")
    BY <1>1, <1>2, <1>8, <1>10, <2>1
    DEF InPhase, BeforeGlobals, BeforeMemories, BeforeTables, BeforeWasi, Ending
  <2> QED BY <2>2, <2>3
<1>13. ASSUME NEW new, Agree(new, m, {"tableData", "counts"}), NEW k \in 0 .. n,
              new.tableData = slots(k), NEW b \in Blocks(k)
       PROVE  Owned(new, b)
  <2>1. new.stage = "Instantiate"
    BY <1>8, <1>9, <1>13
  <2>2. PICK i \in DOMAIN slots(k) : b = <<"table_data", i>> /\ b = slots(k)[i]
    BY <1>7, <1>13
  <2> QED BY <1>13, <2>1, <2>2, Zenon DEF Owned
<1>14. ASSUME NEW k \in 0 .. n, Rejected(Data(k), Blocks(k))
       PROVE  Accounting'
  <2> DEFINE new == Data(k)
  <2>1. /\ Agree(new, m, {"tableData", "counts"}) /\ Agree(new, m, changed)
        /\ new.tableData = slots(k)
    BY <1>5
  <2>2. Numbers(new) /\ InPhase(new, "fail") /\ Rejected(new, Blocks(k))
    BY <1>11, <1>14
  <2> HIDE DEF new
  <2>3. \A b \in Blocks(k) : Owned(new, b)
    BY <1>13, <2>1
  <2>4. /\ new.wasi = m.wasi /\ new.globalData = m.globalData /\ new.stage = "Instantiate"
        /\ new.exportFuncs = m.exportFuncs /\ new.memoryData = m.memoryData
    BY <1>8, <1>9, <2>1
  <2> QED BY <1>1, <1>8, <2>1, <2>2, <2>3, <2>4, InstanceAccounted DEF changed
<1>15. n \in 0 .. n /\ \A k \in 0 .. n - 1 : k \in 0 .. n
  BY <1>3
<1>16. CASE Goto("exports", done, Blocks(n))
  <2>1. \A b \in Blocks(n) : Owned(done, b)
    BY <1>6, <1>13, <1>15
  <2>2. /\ done.wasi = m.wasi /\ done.globalData = m.globalData /\ done.stage = "Instantiate"
        /\ done.exportFuncs = m.exportFuncs /\ done.memoryData = m.memoryData
    BY <1>6, <1>8, <1>9
  <2> QED BY <1>1, <1>6, <1>8, <1>12, <1>16, <2>1, <2>2, InstanceAccounted DEF changed
<1> QED BY <1>4, <1>14, <1>15, <1>16, UndefinedAccounted

(* export_instantiate.                                                     *)
LEMMA ExportsAccounted ==
  ASSUME Possession, Accounting, ExportInstantiate
  PROVE  Accounting'
<1> DEFINE block == <<"export_functions">>
           new == [m EXCEPT !.exportFuncs = block]
           changed == {"stage", "counts", "tableData", "globalData", "memoryData",
                       "exportFuncs", "wasi"}
<1>1. /\ pc = "exports" /\ pc \notin Final /\ pc # "undefined" /\ pc \notin Ending
      /\ "functions" \notin Over \cup {"header"}
  BY DEF ExportInstantiate, Final, Over, Early, Ending
<1>2. DOMAIN m = DOMAIN NewModule /\ Numbers(m) /\ InPhase(m, pc)
  BY <1>1, Accounted
<1>3. Rejected(m, {}) \/ Goto("functions", new, {block})
  BY DEF ExportInstantiate
<1>4. new.exportFuncs = block /\ Agree(new, m, {"exportFuncs"}) /\ Agree(new, m, changed)
  BY <1>2, ModuleFields DEF Agree
<1> HIDE DEF new, changed
<1>5. /\ new.tables = m.tables /\ new.tableData = m.tableData /\ new.counts = m.counts
      /\ new.globalData = m.globalData /\ new.memoryData = m.memoryData /\ new.wasi = m.wasi
      /\ new.imports = m.imports /\ new.functions = m.functions /\ new.stage = m.stage
  BY <1>2, <1>4, ModuleFields DEF Agree
<1>6. m.stage = "Instantiate"
  BY <1>1, <1>2 DEF InPhase, BeforeGlobals, Ending
<1>7. Numbers(new) /\ InPhase(new, "functions")
  BY <1>1, <1>2, <1>5, <1>6
  DEF Numbers, InPhase, BeforeGlobals, BeforeMemories, BeforeTables, BeforeWasi, Ending
<1>8. \A b \in {block} : Owned(new, b)
  BY <1>4, <1>5, <1>6, Zenon DEF Owned
<1>9. CASE Goto("functions", new, {block})
  BY <1>1, <1>4, <1>5, <1>6, <1>7, <1>8, <1>9, InstanceAccounted DEF changed
<1>10. CASE Rejected(m, {})
  BY <1>1, <1>10, IdleRejected
<1> QED BY <1>3, <1>9, <1>10

(* functions_instantiate: the count includes the imports when all of them  *)
(* are linked.                                                             *)
LEMMA FunctionsAccounted ==
  ASSUME Possession, Accounting, FunctionsInstantiate
  PROVE  Accounting'
<1> DEFINE n == m.counts["func"] + Base
           new == [m EXCEPT !.counts["func"] = @ + Base]
           changed == {"stage", "counts", "tableData", "globalData", "memoryData",
                       "exportFuncs", "wasi"}
<1>1. /\ pc = "functions" /\ pc \notin Final /\ pc # "undefined" /\ pc \notin Ending
      /\ "wasi" \notin Over \cup {"header"}
  BY DEF FunctionsInstantiate, Final, Over, Early, Ending
<1>2. /\ DOMAIN m = DOMAIN NewModule /\ Numbers(m) /\ InPhase(m, pc) /\ HoldsTables(m, heap)
  BY <1>1, Accounted DEF Holdings
<1>3. Rejected(m, {}) \/ Undefined("function slots") \/ Goto("wasi", new, {})
  BY DEF FunctionsInstantiate
<1>4. /\ new.counts = [m.counts EXCEPT !["func"] = n] /\ Agree(new, m, {"counts"})
      /\ Agree(new, m, changed)
  BY <1>2, ModuleFields DEF Agree, HoldsTables, ImportKinds
<1>5. n = m.imports["func"] + m.counts["func"] /\ n \in Nat
  BY <1>2 DEF Numbers, Base
<1> HIDE DEF new, changed, n
<1>6. /\ new.tables = m.tables /\ new.tableData = m.tableData /\ new.exportFuncs = m.exportFuncs
      /\ new.globalData = m.globalData /\ new.memoryData = m.memoryData /\ new.wasi = m.wasi
      /\ new.imports = m.imports /\ new.functions = m.functions /\ new.stage = m.stage
  BY <1>2, <1>4, ModuleFields DEF Agree
<1>7. /\ \A kind \in {"table", "memory"} : new.counts[kind] = m.counts[kind]
      /\ new.counts["func"] = n
  BY <1>2, <1>4 DEF HoldsTables, ImportKinds
<1>8. m.stage = "Instantiate"
  BY <1>1, <1>2 DEF InPhase, BeforeGlobals, Ending
<1>9. Numbers(new)
  BY <1>2, <1>5, <1>6, <1>7 DEF Numbers
<1>10. InPhase(new, "wasi")
  BY <1>1, <1>2, <1>5, <1>6, <1>7, <1>8
  DEF InPhase, BeforeGlobals, BeforeMemories, BeforeTables, BeforeWasi, Ending
<1>11. CASE Goto("wasi", new, {})
  <2>1. \A b \in {} : Owned(new, b)
    OBVIOUS
  <2> QED BY <1>1, <1>4, <1>6, <1>8, <1>9, <1>10, <1>11, <2>1, InstanceAccounted DEF changed
<1>12. CASE Rejected(m, {})
  BY <1>1, <1>12, IdleRejected
<1> QED BY <1>3, <1>11, <1>12, UndefinedAccounted

(* wasm_runtime_wasi_init: the context alone is the module's.              *)
LEMMA WasiInitAccounted ==
  ASSUME Possession, Accounting, WasiInit
  PROVE  Accounting'
<1> DEFINE block == <<"wasi_ctx">>
           new == [m EXCEPT !.wasi = block]
           changed == {"stage", "counts", "tableData", "globalData", "memoryData",
                       "exportFuncs", "wasi"}
<1>1. /\ pc = "wasi" /\ pc \notin Final /\ pc # "undefined" /\ pc \notin Ending
      /\ "execute" \notin Over \cup {"header"} /\ "fail" \notin Over \cup {"header"}
  BY DEF WasiInit, Final, Over, Early, Ending
<1>2. /\ DOMAIN m = DOMAIN NewModule /\ Numbers(m) /\ InPhase(m, pc) /\ HoldsTables(m, heap)
  BY <1>1, Accounted DEF Holdings
<1>3. Goto("execute", new, {block} \cup WasiBlocks) \/ Rejected(new, {block}) \/ Exhausted(m, {})
  BY DEF WasiInit
<1>4. new.wasi = block /\ Agree(new, m, {"wasi"}) /\ Agree(new, m, changed)
  BY <1>2, ModuleFields DEF Agree
<1> HIDE DEF new, changed
<1>5. /\ new.tables = m.tables /\ new.tableData = m.tableData /\ new.counts = m.counts
      /\ new.globalData = m.globalData /\ new.memoryData = m.memoryData
      /\ new.exportFuncs = m.exportFuncs
      /\ new.imports = m.imports /\ new.functions = m.functions /\ new.stage = m.stage
  BY <1>2, <1>4, ModuleFields DEF Agree
<1>6. m.stage = "Instantiate"
  BY <1>1, <1>2 DEF InPhase, BeforeGlobals, Ending
<1>7. Numbers(new) /\ InPhase(new, "execute")
  BY <1>1, <1>2, <1>5, <1>6
  DEF Numbers, InPhase, BeforeGlobals, BeforeMemories, BeforeTables, BeforeWasi, Ending
<1>8. InPhase(new, "fail")
  <2>1. HoldsTables(new, heap)
    BY <1>2, <1>5 DEF HoldsTables
  <2> QED BY <1>7, <2>1, PhaseFails
<1>9. Owned(new, block)
  BY <1>4, <1>5, <1>6, Zenon DEF Owned
<1>10. \A b \in WasiBlocks : Owned(new, b)
  <2>1. WasiBlocks \subseteq NeverFreed
    BY DEF NeverFreed
  <2> QED BY <2>1, Zenon DEF Owned
<1>11. m.wasi = <<"wasi_ctx">> => new.wasi = m.wasi
  BY <1>4
<1> HIDE DEF block
<1>12. CASE Goto("execute", new, {block} \cup WasiBlocks)
  <2> DEFINE blocks == {block} \cup WasiBlocks
  <2>1. \A b \in blocks : Owned(new, b)
    BY <1>9, <1>10
  <2>2. Goto("execute", new, blocks)
    BY <1>12
  <2> HIDE DEF blocks
  <2> QED BY <1>1, <1>4, <1>5, <1>6, <1>7, <1>11, <2>1, <2>2, InstanceAccounted DEF changed
<1>13. CASE Rejected(new, {block})
  <2>1. \A b \in {block} : Owned(new, b)
    BY <1>9
  <2> QED BY <1>1, <1>4, <1>5, <1>6, <1>7, <1>8, <1>11, <1>13, <2>1, InstanceAccounted DEF changed
<1>14. CASE Exhausted(m, {})
  BY <1>1, <1>14, IdleRejected
<1> QED BY <1>3, <1>12, <1>13, <1>14

(* execute_main, and its way to the destruction.                           *)
LEMMA ExecutionAccounted ==
  ASSUME Possession, Accounting, ExecuteMain \/ Return \/ Fail
  PROVE  Accounting'
<1>1. /\ pc \in {"execute", "running", "fail"} /\ (pc \notin Final \/ pc \in Ending)
      /\ "running" \notin Over \cup {"header"}
      /\ "fail" \notin Over \cup {"header"} /\ "destroy" \notin Over \cup {"header"}
      /\ "fail" \in Ending /\ "destroy" \in Ending
  BY DEF ExecuteMain, Return, Fail, Final, Over, Early, Ending
<1>2. CASE ExecuteMain
  <2>1. pc = "execute" /\ pc \notin Ending
    BY <1>2 DEF ExecuteMain, Ending
  <2>2. InPhase(m, pc)
    BY <1>1, Accounted
  <2>3. InPhase(m, "running")
    BY <2>1, <2>2 DEF InPhase, BeforeGlobals, BeforeMemories, BeforeTables, BeforeWasi, Ending
  <2>4. PICK blocks : /\ blocks \subseteq NeverFreed
                      /\ Rejected(m, blocks) \/ Goto("running", m, blocks)
    <3>1. /\ {} \subseteq NeverFreed /\ {<<"exec_env">>} \subseteq NeverFreed
          /\ {<<"exec_env">>, <<"stack">>} \subseteq NeverFreed
      BY DEF NeverFreed
    <3> QED BY <1>2, <3>1 DEF ExecuteMain
  <2>5. CASE Goto("running", m, blocks)
    <3>1. /\ file' = file /\ m' = m /\ heap' \subseteq heap \cup NeverFreed /\ pos' = pos
          /\ pc' = "running"
      BY <2>4, <2>5 DEF Goto, Untouched
    <3> QED BY <1>1, <2>1, <2>3, <3>1, IdleAccounted
  <2>6. pc \notin Final /\ pc # "undefined"
    BY <2>1 DEF Final, Over, Early
  <2> QED BY <2>4, <2>5, <2>6, IdleRejected
<1>3. CASE /\ m' = m /\ heap' = heap /\ file' = file /\ pos' = pos
           /\ pc' \in {"destroy", "fail"}
  BY <1>1, <1>3, IdleAccounted
<1>4. CASE Return /\ ~UNCHANGED <<m, heap>>
  <2> DEFINE block == <<"memory_data">>
             new == [m EXCEPT !.memoryData = block]
  <2>1. /\ pc = "running" /\ pc \notin Final /\ pc \notin Ending /\ m.counts["memory"] > 0
        /\ m' = new /\ heap' \subseteq heap \cup {m'.memoryData}
        /\ file' = file /\ pos' = pos /\ pc' \in {"destroy", "fail"}
    BY <1>4 DEF Return, Final, Over, Early, Ending
  <2>2. /\ Numbers(m) /\ InPhase(m, pc) /\ DOMAIN m = DOMAIN NewModule /\ HoldsTables(m, heap)
    BY <2>1, Accounted DEF Holdings
  <2>3. new.memoryData = block /\ Agree(new, m, {"memoryData"})
    BY <2>2, ModuleFields DEF Agree
  <2> HIDE DEF new, block
  <2>4. /\ new.functions = m.functions /\ new.stage = m.stage /\ new.tableData = m.tableData
        /\ new.globalData = m.globalData /\ new.exportFuncs = m.exportFuncs /\ new.wasi = m.wasi
        /\ new.imports = m.imports /\ new.counts = m.counts /\ new.tables = m.tables
    BY <2>2, <2>3, ModuleFields DEF Agree
  <2>5. m.stage = "Instantiate"
    BY <2>1, <2>2 DEF InPhase, BeforeGlobals
  <2>6. Later(new)
    <3>1. Agree(new, m, {"stage", "counts", "functions", "tableData", "globalData", "memoryData",
                         "exportFuncs", "wasi"})
      BY <2>3 DEF Agree
    <3>2. m.memoryData # <<"memory_data">> \/ new.memoryData = m.memoryData
      BY <2>3 DEF block
    <3> QED BY <2>4, <3>1, <3>2, Zenon DEF Later
  <2>7. Numbers(new) /\ HoldsTables(new, heap)
    BY <2>2, <2>4 DEF Numbers, HoldsTables
  <2>8. InPhase(new, "running")
    BY <2>1, <2>2, <2>4
    DEF InPhase, BeforeGlobals, BeforeMemories, BeforeTables, BeforeWasi, Ending
  <2>9. InPhase(new, "fail")
    BY <2>7, <2>8, PhaseFails
  <2>10. InPhase(new, "destroy")
    BY <2>9 DEF InPhase, BeforeGlobals, BeforeMemories, BeforeTables, BeforeWasi, Ending,
       FunctionsTaken, TablesTaken, Unlinked
  <2>11. \A b \in heap' : b \in heap \/ Owned(new, b)
    <3>1. Owned(new, block)
      BY <2>3, <2>4, <2>5, Zenon DEF Owned, block
    <3> QED BY <2>1, <2>3, <3>1
  <2> QED BY <1>1, <2>1, <2>6, <2>7, <2>9, <2>10, <2>11, LaterAccounted
<1> QED BY <1>2, <1>3, <1>4 DEF Return, Fail

----------------------------------------------------------------------------
(* What wasm_module_destory leaves                                         *)

(* What one of two lists has is in both, one after the other.              *)
LEMMA JoinedHas ==
  ASSUME NEW h, NEW s \in Seq(h), NEW t \in Seq(h)
  PROVE  ToSet(s) \subseteq ToSet(s \o t) /\ ToSet(t) \subseteq ToSet(s \o t)
<1> DEFINE u == s \o t
<1>1. /\ Len(s) \in Nat /\ Len(t) \in Nat /\ DOMAIN s = 1 .. Len(s) /\ DOMAIN t = 1 .. Len(t)
      /\ DOMAIN u = 1 .. Len(s) + Len(t)
      /\ \A i \in 1 .. Len(s) : u[i] = s[i]
      /\ \A i \in 1 .. Len(t) : u[Len(s) + i] = t[i]
  OBVIOUS
<1> HIDE DEF u
<1>2. \A i \in DOMAIN s : i \in DOMAIN u /\ u[i] = s[i]
  BY <1>1
<1>3. \A i \in DOMAIN t : Len(s) + i \in DOMAIN u /\ u[Len(s) + i] = t[i]
  BY <1>1
<1> QED BY <1>2, <1>3 DEF ToSet, u

(* The data of an instance is freed: that of a table when the count of the *)
(* tables takes it in, that of a memory when a memory was counted.         *)
LEMMA InstanceHas ==
  ASSUME Destroying, NEW b,
         \/ b \in {m.globalData, m.wasi, m.exportFuncs}
         \/ \E i \in DOMAIN m.tableData : b = m.tableData[i] /\ i <= m.counts["table"]
         \/ m.counts["memory"] > 0 /\ b = m.memoryData
  PROVE  b \in ToSet(FreesOfInstance)
<1> DEFINE s == <<m.globalData, m.wasi, m.exportFuncs>>
           t == SubSeq(m.tableData, 1, m.counts["table"])
           u == IF m.counts["memory"] > 0 THEN <<m.memoryData>> ELSE <<>>
           H == Known \cup {Null}
<1>1. HoldsInstance(m, Known) /\ HoldsTables(m, Known)
  BY DestroyingHolds DEF Holdings
<1>2. s \in Seq(H) /\ ToSet(s) = {m.globalData, m.wasi, m.exportFuncs}
  <2>1. s \in Seq(H) /\ DOMAIN s = 1 .. 3 /\ s[1] = m.globalData /\ s[2] = m.wasi /\ s[3] = m.exportFuncs
    BY <1>1 DEF HoldsInstance, Holds
  <2> HIDE DEF s
  <2>2. 1 \in DOMAIN s /\ 2 \in DOMAIN s /\ 3 \in DOMAIN s
        /\ \A i \in DOMAIN s : i = 1 \/ i = 2 \/ i = 3
    BY <2>1
  <2> QED BY <2>1, <2>2 DEF ToSet
<1>3. t \in Seq(H) /\ \A i \in DOMAIN m.tableData : i <= m.counts["table"] => m.tableData[i] \in ToSet(t)
  <2>1. /\ t \in Seq(H) /\ DOMAIN t = 1 .. m.counts["table"]
        /\ \A i \in DOMAIN t : t[i] = m.tableData[i]
    BY <1>1 DEF HoldsTables, Counted
  <2> HIDE DEF t
  <2>2. \A i \in DOMAIN m.tableData : i <= m.counts["table"] => i \in DOMAIN t
    BY <1>1, <2>1 DEF HoldsTables, Counted
  <2> QED BY <2>1, <2>2 DEF ToSet
<1>4. u \in Seq(H) /\ (m.counts["memory"] > 0 => m.memoryData \in ToSet(u))
  <2>1. CASE m.counts["memory"] > 0
    <3>1. u = <<m.memoryData>>
      BY <2>1
    <3>2. m.memoryData \in H
      BY <1>1 DEF HoldsInstance, Holds
    <3> HIDE DEF u, H
    <3>3. u \in Seq(H) /\ 1 \in DOMAIN u /\ u[1] = m.memoryData
      BY <3>1, <3>2
    <3> QED BY <3>3 DEF ToSet
  <2>2. CASE ~(m.counts["memory"] > 0)
    BY <2>2
  <2> QED BY <2>1, <2>2
<1>5. FreesOfInstance = (s \o t) \o u
  BY DEF FreesOfInstance
<1> HIDE DEF s, t, u, H
<1>6. s \o t \in Seq(H)
  BY <1>2, <1>3
<1>7. /\ ToSet(s) \subseteq ToSet(s \o t) /\ ToSet(t) \subseteq ToSet(s \o t)
      /\ ToSet(s \o t) \subseteq ToSet(FreesOfInstance) /\ ToSet(u) \subseteq ToSet(FreesOfInstance)
  BY <1>2, <1>3, <1>4, <1>5, <1>6, JoinedHas
<1> QED BY <1>2, <1>3, <1>4, <1>7

(* The slots that are taken for those of the defined functions are the     *)
(* slots behind the imports.                                               *)
LEMMA DefinedSlots ==
  ASSUME Destroying, Numbers(m), FunctionsTaken(m), NEW k \in DOMAIN m.functions, k > Base
  PROVE  k - Base \in 1 .. Defined /\ Own(k - Base) = m.functions[k]
<1>1. /\ m.imports["func"] \in Nat /\ m.counts["func"] \in Nat
      /\ DOMAIN m.functions = 1 .. IF m.stage = "Instantiate" THEN m.counts["func"]
                                   ELSE m.imports["func"] + m.counts["func"]
  BY DEF Numbers, FunctionsTaken
<1>2. k \in Int /\ Base + (k - Base) = k
  BY <1>1 DEF Base
<1>3. k - Base \in 1 .. Defined
  BY <1>1 DEF Base, Defined, Bodies
<1> QED BY <1>2, <1>3 DEF Own

(* The last of the entries that share a type frees it.                     *)
LEMMA TypesHave ==
  ASSUME Destroying, NEW e \in DOMAIN m.types
  PROVE  m.types[e] \in ToSet(TypeFrees)
<1> DEFINE n == Len(m.types)
           Before(i) == {j \in 1 .. i - 1 : m.types[j] = m.types[i]}
           Alike(i) == {j \in DOMAIN m.types : m.types[j] = m.types[i]}
<1>1. HoldsTypes(m, Known)
  BY DestroyingHolds DEF Holdings
<1>2. n \in Nat /\ DOMAIN m.types = 1 .. n
  BY <1>1 DEF HoldsTypes, Counted
<1>3. /\ DOMAIN TypeFrees = 1 .. n
      /\ \A i \in 1 .. n :
           TypeFrees[i] = IF m.refs[m.types[i]] - Cardinality(Before(i)) <= 1 THEN m.types[i] ELSE Null
  BY DEF TypeFrees
<1>4. Alike(e) \subseteq 1 .. n /\ e \in Alike(e)
  BY <1>2
<1>5. PICK i \in Alike(e) : \A j \in Alike(e) : j <= i
  <2> HIDE DEF Alike, n
  <2>1. Alike(e) \in SUBSET (0 .. n) /\ Alike(e) # {}
    BY <1>2, <1>4
  <2>2. Max(Alike(e)) \in Alike(e) /\ \A j \in Alike(e) : j <= Max(Alike(e))
    BY <1>2, <2>1, Greatest
  <2> QED BY <2>2
<1>6. i \in 1 .. n /\ m.types[i] = m.types[e] /\ Alike(i) = Alike(e)
  BY <1>2, <1>5
<1>7. Before(i) \cup {i} = Alike(i) /\ i \notin Before(i) /\ Before(i) \subseteq 1 .. n
  <2>1. ASSUME NEW j \in Alike(i), j # i PROVE j \in Before(i)
    <3>1. j \in 1 .. n /\ j <= i /\ m.types[j] = m.types[i]
      BY <1>2, <1>5, <1>6, <2>1
    <3> QED BY <1>6, <2>1, <3>1
  <2>2. ASSUME NEW j \in Before(i) PROVE j \in Alike(i) /\ j # i
    BY <1>2, <1>6, <2>2
  <2>3. i \in Alike(i)
    BY <1>2, <1>6
  <2> HIDE DEF Before
  <2>4. Before(i) \subseteq Alike(i)
    BY <2>2
  <2> QED BY <1>4, <1>6, <2>1, <2>2, <2>3, <2>4
<1>8. m.refs[m.types[i]] = Cardinality(Alike(i))
  BY <1>1, <1>2, <1>6 DEF HoldsTypes
<1> HIDE DEF Before, Alike, n
<1>9. Cardinality(Alike(i)) = Cardinality(Before(i)) + 1 /\ Cardinality(Before(i)) \in Nat
  BY <1>2, <1>7, CardinalityNat, FS_AddElement
<1>10. TypeFrees[i] = m.types[i]
  BY <1>3, <1>6, <1>8, <1>9
<1> QED BY <1>3, <1>6, <1>10 DEF ToSet

(* What is freed of the loaded module.                                     *)
LEMMA LoadHas ==
  ASSUME Destroying, Bounded, NEW b,
         \/ b \in ToSet(TypeFrees)
         \/ b \in {m.typesBlock, m.exportsBlock, m.elementsBlock, m.dataBlock}
         \/ b \in m.arrays /\ \E i \in DOMAIN Arrays : b = <<Arrays[i]>>
         \/ /\ <<"functions">> \in m.arrays
            /\ \E k \in 1 .. Defined : b = Own(k).offsets \/ b = Own(k).types
         \/ \E e \in DOMAIN m.elements : b = m.elements[e].block
  PROVE  b \in ToSet(FreesOfLoad)
<1> DEFINE offsets == [k \in 1 .. Defined |-> Own(k).offsets]
           types == [k \in 1 .. Defined |-> Own(k).types]
           bodies == IF <<"functions">> \in m.arrays THEN offsets \o types ELSE <<>>
           elements == [e \in DOMAIN m.elements |-> m.elements[e].block]
           H == Known \cup {Null}
<1>1. /\ TypeFrees \in Seq(H) /\ ArraysOfSections \in Seq(H) /\ ArraysOfSlots \in Seq(H)
      /\ elements \in Seq(H)
  BY PartOfTypes, PartOfSections, PartOfSlots, PartOfElements DEF Part
<1>2. <<"functions">> \in m.arrays => offsets \in Seq(H) /\ types \in Seq(H)
  BY PartOfBodies DEF Part
<1>3. b \in {m.typesBlock, m.exportsBlock, m.elementsBlock, m.dataBlock} => b \in ToSet(ArraysOfSections)
  <2> DEFINE s == ArraysOfSections
  <2>1. 1 \in DOMAIN s /\ 2 \in DOMAIN s /\ 3 \in DOMAIN s /\ 4 \in DOMAIN s
        /\ s[1] = m.typesBlock /\ s[2] = m.exportsBlock /\ s[3] = m.elementsBlock /\ s[4] = m.dataBlock
    BY DEF ArraysOfSections
  <2> HIDE DEF s
  <2>2. b \in {m.typesBlock, m.exportsBlock, m.elementsBlock, m.dataBlock} => b \in ToSet(s)
    BY <2>1 DEF ToSet
  <2> QED BY <2>2 DEF s
<1>4. ASSUME b \in m.arrays, NEW i \in DOMAIN Arrays, b = <<Arrays[i]>> PROVE b \in ToSet(ArraysOfSlots)
  <2>1. DOMAIN ArraysOfSlots = DOMAIN Arrays /\ ArraysOfSlots[i] = b
    BY <1>4 DEF ArraysOfSlots
  <2> QED BY <2>1 DEF ToSet
<1>5. ASSUME <<"functions">> \in m.arrays, NEW k \in 1 .. Defined, b = Own(k).offsets \/ b = Own(k).types
      PROVE  b \in ToSet(bodies)
  <2>1. bodies = offsets \o types /\ b \in ToSet(offsets) \cup ToSet(types)
    <3>1. /\ DOMAIN offsets = 1 .. Defined /\ DOMAIN types = 1 .. Defined
          /\ offsets[k] = Own(k).offsets /\ types[k] = Own(k).types
      OBVIOUS
    <3>2. bodies = offsets \o types
      BY <1>5
    <3> HIDE DEF offsets, types, bodies
    <3> QED BY <1>5, <3>1, <3>2 DEF ToSet
  <2> HIDE DEF offsets, types, bodies, H
  <2> QED BY <1>2, <1>5, <2>1, JoinedHas
<1>6. bodies \in Seq(H)
  <2> HIDE DEF offsets, types
  <2>1. CASE <<"functions">> \in m.arrays
    <3>1. offsets \in Seq(H) /\ types \in Seq(H) /\ bodies = offsets \o types
      BY <1>2, <2>1
    <3> HIDE DEF bodies, H
    <3> QED BY <3>1
  <2>2. CASE <<"functions">> \notin m.arrays
    BY <2>2
  <2> QED BY <2>1, <2>2
<1>7. ASSUME NEW e \in DOMAIN m.elements, b = m.elements[e].block PROVE b \in ToSet(elements)
  <2>1. DOMAIN elements = DOMAIN m.elements /\ elements[e] = b
    BY <1>7
  <2> HIDE DEF elements
  <2> QED BY <2>1 DEF ToSet
<1> DEFINE r == TypeFrees \o ArraysOfSections
           s == r \o ArraysOfSlots
           t == s \o bodies
           u == t \o elements
<1>8. FreesOfLoad = u
  BY DEF FreesOfLoad
<1> HIDE DEF bodies, elements, offsets, types, H
<1>9. r \in Seq(H)
  BY <1>1
<1>10. ToSet(TypeFrees) \subseteq ToSet(r) /\ ToSet(ArraysOfSections) \subseteq ToSet(r)
  BY <1>1, JoinedHas
<1> HIDE DEF r
<1>11. s \in Seq(H) /\ ToSet(r) \subseteq ToSet(s) /\ ToSet(ArraysOfSlots) \subseteq ToSet(s)
  BY <1>1, <1>9, JoinedHas
<1> HIDE DEF s
<1>12. t \in Seq(H) /\ ToSet(s) \subseteq ToSet(t) /\ ToSet(bodies) \subseteq ToSet(t)
  BY <1>6, <1>11, JoinedHas
<1> HIDE DEF t
<1>13. ToSet(t) \subseteq ToSet(u) /\ ToSet(elements) \subseteq ToSet(u)
  BY <1>1, <1>12, JoinedHas
<1> HIDE DEF u
<1>14. b \in ToSet(TypeFrees) \cup ToSet(ArraysOfSections) \cup ToSet(ArraysOfSlots)
            \cup ToSet(bodies) \cup ToSet(elements)
  BY <1>3, <1>4, <1>5, <1>7
<1>15. b \in ToSet(u)
  BY <1>10, <1>11, <1>12, <1>13, <1>14
<1> QED BY <1>8, <1>15

(* What wasm_module_destory frees, as far as the stage of the module goes. *)
LEMMA ReleasedHas ==
  ASSUME Destroying, Bounded, NEW b, b # Null,
         \/ m.stage = "Instantiate" /\ b \in ToSet(FreesOfInstance)
         \/ m.stage # "Load" /\ \E k \in 1 .. Defined : b = Own(k).table
         \/ b \in ToSet(FreesOfLoad)
         \/ b \in {<<"module">>, <<"file">>}
  PROVE  b \in Released
<1> DEFINE s == IF m.stage = "Instantiate" THEN FreesOfInstance ELSE <<>>
           t == IF m.stage # "Load" THEN FreesOfValidation ELSE <<>>
           u == << <<"module">>, <<"file">> >>
           H == Known \cup {Null}
           p == s \o t
           q == p \o FreesOfLoad
           r == q \o u
<1>1. s \in Seq(H) /\ FreesOfLoad \in Seq(H)
  BY PartOfInstance, PartOfLoad DEF Part
<1>2. t \in Seq(H)
  <2>1. m.stage # "Load" => <<"functions">> \in m.arrays
    BY DestroyingHolds DEF Holdings, HoldsArrays
  <2> QED BY <2>1, PartOfValidation DEF Part
<1>3. u \in Seq(H) /\ ToSet(u) = {<<"module">>, <<"file">>}
  <2>1. {<<"module">>, <<"file">>} \subseteq Known
    BY DestroyingHolds
  <2>2. u \in Seq(H) /\ DOMAIN u = 1 .. 2 /\ u[1] = <<"module">> /\ u[2] = <<"file">>
    BY <2>1
  <2> HIDE DEF u
  <2>3. 1 \in DOMAIN u /\ 2 \in DOMAIN u /\ \A i \in DOMAIN u : i = 1 \/ i = 2
    BY <2>2
  <2> QED BY <2>2, <2>3 DEF ToSet
<1>4. m.stage = "Instantiate" => s = FreesOfInstance
  OBVIOUS
<1>5. ASSUME m.stage # "Load", NEW k \in 1 .. Defined, b = Own(k).table PROVE b \in ToSet(t)
  <2>1. t = FreesOfValidation
    BY <1>5
  <2>2. DOMAIN FreesOfValidation = 1 .. Defined /\ FreesOfValidation[k] = b
    BY <1>5 DEF FreesOfValidation
  <2> QED BY <2>1, <2>2 DEF ToSet
<1>6. Frees = r
  BY DEF Frees
<1> HIDE DEF s, t, u, H
<1>7. p \in Seq(H) /\ ToSet(s) \subseteq ToSet(p) /\ ToSet(t) \subseteq ToSet(p)
  BY <1>1, <1>2, JoinedHas
<1> HIDE DEF p
<1>8. q \in Seq(H) /\ ToSet(p) \subseteq ToSet(q) /\ ToSet(FreesOfLoad) \subseteq ToSet(q)
  BY <1>1, <1>7, JoinedHas
<1> HIDE DEF q
<1>9. ToSet(q) \subseteq ToSet(r) /\ ToSet(u) \subseteq ToSet(r)
  BY <1>3, <1>8, JoinedHas
<1> HIDE DEF r
<1>10. b \in ToSet(s) \cup ToSet(t) \cup ToSet(FreesOfLoad) \cup ToSet(u)
  BY <1>3, <1>4, <1>5
<1> QED BY <1>6, <1>7, <1>8, <1>9, <1>10 DEF Released

(* A block of a section that the module still names is freed, but for the  *)
(* arrays of the bodies when the count of the functions lacks the imports. *)
LEMMA NamedReleased ==
  ASSUME Destroying, Bounded, Numbers(m), FunctionsTaken(m) \/ Unlinked(m, "func"),
         NEW b, b # Null, Named(m, b)
  PROVE  b \in Released \/ (b[1] \in {"offsets", "locals"} /\ Unlinked(m, "func"))
<1>1. ASSUME b \in ToSet(FreesOfLoad) PROVE b \in Released
  BY <1>1, ReleasedHas
<1>2. CASE b \in {m.typesBlock, m.exportsBlock, m.elementsBlock, m.dataBlock}
  BY <1>1, <1>2, LoadHas
<1>3. CASE \E i \in DOMAIN m.types : b = m.types[i]
  BY <1>1, <1>3, TypesHave, LoadHas
<1>4. CASE \E e \in DOMAIN m.elements : b = m.elements[e].block
  BY <1>1, <1>4, LoadHas
<1>5. CASE /\ <<"functions">> \in m.arrays
           /\ \E k \in DOMAIN m.functions :
                /\ k > m.imports["func"]
                /\ \/ b[1] = "locals" /\ b = m.functions[k].types
                   \/ b[1] = "offsets" /\ b = m.functions[k].offsets
  <2>1. PICK k \in DOMAIN m.functions :
          /\ k > m.imports["func"]
          /\ \/ b[1] = "locals" /\ b = m.functions[k].types
             \/ b[1] = "offsets" /\ b = m.functions[k].offsets
    BY <1>5
  <2>2. CASE FunctionsTaken(m)
    <3>1. k - Base \in 1 .. Defined /\ Own(k - Base) = m.functions[k]
      BY <2>1, <2>2, DefinedSlots DEF Base
    <3>2. \E j \in 1 .. Defined : b = Own(j).offsets \/ b = Own(j).types
      BY <2>1, <3>1, Zenon
    <3>3. b \in ToSet(FreesOfLoad)
      BY <1>5, <3>2, LoadHas
    <3> QED BY <1>1, <3>3
  <2>3. CASE Unlinked(m, "func")
    BY <2>1, <2>3
  <2> QED BY <2>2, <2>3
<1> QED BY <1>2, <1>3, <1>4, <1>5 DEF Named

(* Of the blocks that do not come from a section it frees all but those    *)
(* that no code frees, the stacks of the validator, the branch table that  *)
(* a rejected body does not name and the queues of its open blocks, and    *)
(* what is counted without the imports.                                    *)
LEMMA OwnedReleased ==
  ASSUME Destroying, Bounded, Numbers(m), FunctionsTaken(m) \/ Unlinked(m, "func"),
         TablesTaken(m) \/ Unlinked(m, "table"), m.memoryData # Null => m.counts["memory"] > 0,
         NEW b, b # Null, Owned(m, b)
  PROVE  \/ b \in Released \/ b \in NeverFreed \/ b[1] = "stacks"
         \/ b[1] \in {"branches", "queues"} /\ m.functions[b[2]].table = Null
         \/ b[1] = "branches" /\ Unlinked(m, "func")
         \/ b[1] = "table_data" /\ Unlinked(m, "table")
<1>1. HoldsFunctions(m, Known) /\ HoldsTables(m, Known)
  BY DestroyingHolds DEF Holdings
<1>2. ASSUME m.stage = "Instantiate", b \in ToSet(FreesOfInstance) PROVE b \in Released
  BY <1>2, ReleasedHas
<1>3. CASE b \in {<<"module">>, <<"file">>}
  BY <1>3, ReleasedHas
<1>4. CASE b \in m.arrays /\ \E i \in DOMAIN Arrays : b = <<Arrays[i]>>
  <2>1. b \in ToSet(FreesOfLoad)
    BY <1>4, LoadHas
  <2> QED BY <2>1, ReleasedHas
<1>10. CASE \E k \in DOMAIN m.functions : b = <<"queues", k>> /\ m.functions[k].table = Null
  <2>1. PICK k \in DOMAIN m.functions : b = <<"queues", k>> /\ m.functions[k].table = Null
    BY <1>10
  <2>2. b[1] = "queues" /\ b[2] = k
    BY <2>1
  <2> QED BY <2>1, <2>2
<1>5. CASE m.stage # "Load" /\ \E k \in DOMAIN m.functions : k > m.imports["func"] /\ b = <<"branches", k>>
  <2>1. PICK k \in DOMAIN m.functions : k > m.imports["func"] /\ b = <<"branches", k>>
    BY <1>5
  <2>2. b[1] = "branches" /\ b[2] = k
    BY <2>1
  <2>3. CASE m.functions[k].table = Null
    BY <2>2, <2>3
  <2>4. CASE m.functions[k].table # Null /\ FunctionsTaken(m)
    <3>1. m.functions[k].table = b
      BY <1>1, <2>1, <2>4 DEF HoldsFunctions
    <3>2. k - Base \in 1 .. Defined /\ Own(k - Base) = m.functions[k]
      BY <2>1, <2>4, DefinedSlots DEF Base
    <3>3. \E j \in 1 .. Defined : b = Own(j).table
      BY <3>1, <3>2, Zenon
    <3> QED BY <1>5, <3>3, ReleasedHas
  <2>5. CASE Unlinked(m, "func")
    BY <2>2, <2>5
  <2> QED BY <2>3, <2>4, <2>5
<1>6. CASE m.stage = "Instantiate" /\ \E i \in DOMAIN m.tableData : b = <<"table_data", i>> /\ b = m.tableData[i]
  <2>1. PICK i \in DOMAIN m.tableData : b = <<"table_data", i>> /\ b = m.tableData[i]
    BY <1>6
  <2>2. CASE TablesTaken(m)
    <3>1. i <= m.counts["table"]
      BY <2>1, <2>2 DEF TablesTaken
    <3>2. b \in ToSet(FreesOfInstance)
      BY <2>1, <3>1, InstanceHas
    <3> QED BY <1>2, <1>6, <3>2
  <2>3. CASE Unlinked(m, "table")
    BY <2>1, <2>3
  <2> QED BY <2>2, <2>3
<1>7. CASE m.stage = "Instantiate" /\ b \in {m.globalData, m.exportFuncs, m.wasi}
  <2>1. b \in ToSet(FreesOfInstance)
    BY <1>7, InstanceHas
  <2> QED BY <1>2, <1>7, <2>1
<1>8. CASE m.stage = "Instantiate" /\ b = m.memoryData
  <2>1. b \in ToSet(FreesOfInstance)
    BY <1>8, InstanceHas
  <2> QED BY <1>2, <1>8, <2>1
<1>9. CASE b \in NeverFreed \/ b[1] = "stacks"
  BY <1>9
<1> QED BY <1>3, <1>4, <1>5, <1>6, <1>7, <1>8, <1>9, <1>10, Zenon DEF Owned

(* The null pointer is no block.                                           *)
LEMMA NullShort ==
  ASSUME NEW b, Len(b) >= 2
  PROVE  b # Null
<1>1. Len(Null) = 1
  BY DEF Null
<1> QED BY <1>1

(* Nor does the module own it.                                            *)
LEMMA OwnedBlocks ==
  ASSUME NEW mod, NEW b, Owned(mod, b)
  PROVE  b # Null
<1>1. Null[1] = "null" /\ \A k : <<"branches", k>> # Null /\ <<"queues", k>> # Null /\ <<"table_data", k>> # Null
  BY DEF Null
<1>2. \A i \in DOMAIN Arrays : Arrays[i] # "null"
  <2>1. DOMAIN Arrays = 1 .. 3 /\ Arrays[1] # "null" /\ Arrays[2] # "null" /\ Arrays[3] # "null"
    BY DEF Arrays
  <2>2. \A i \in 1 .. 3 : i = 1 \/ i = 2 \/ i = 3
    OBVIOUS
  <2> QED BY <2>1, <2>2
<1>3. \A i \in DOMAIN Arrays : <<Arrays[i]>> # Null
  BY <1>2 DEF Null
<1>4. Null \notin NeverFreed
  BY DEF Null, NeverFreed, WasiBlocks
<1>5. Null \notin {<<"module">>, <<"file">>} /\ Null \notin
        {<<"global_data">>, <<"memory_data">>, <<"export_functions">>, <<"wasi_ctx">>}
  BY DEF Null
<1> QED BY <1>1, <1>3, <1>4, <1>5 DEF Owned

(* wasm_module_destory.                                                    *)
LEMMA DestroyAccounted ==
  ASSUME Possession, Accounting, Destroy
  PROVE  Accounting'
<1>1. pc = "destroy" /\ pc \in Ending
  BY DEF Destroy, Final, Over, Early, Ending
<1>2. CASE Undefined("function count") \/ Undefined("free")
  BY <1>2, UndefinedAccounted
<1>3. CASE ~(Undefined("function count") \/ Undefined("free"))
  <2>1. Bounded
    BY <1>3 DEF Destroy, Bounded
  <2>2. /\ heap' = heap \ Released /\ pc' = "exited"
        /\ m' = m /\ pos' = pos /\ file' = file
    <3> HIDE DEF Released, Frees, Defined, Undefined
    <3> QED BY <1>3 DEF Destroy
  <2>3. Destroying
    BY <1>1 DEF Destroying
  <2>4. /\ Numbers(m) /\ InPhase(m, pc) /\ Ledger(m, heap, pos, pc)
        /\ DOMAIN m = DOMAIN NewModule
    BY <1>1, Accounted
  <2>5. /\ FunctionsTaken(m) \/ Unlinked(m, "func")
        /\ TablesTaken(m) \/ Unlinked(m, "table")
        /\ m.memoryData # Null => m.counts["memory"] > 0
    BY <1>1, <2>4 DEF InPhase
  <2>6. ASSUME NEW b \in heap, b \notin Released
        PROVE  \/ b \in NeverFreed \/ b[1] = "stacks"
               \/ /\ Len(b) >= 2 /\ b[1] \notin {"wasi", "stacks", "branches", "queues", "node", "table_data"}
                  /\ b[2] = pos \/ Replaced(b[2])
               \/ b[1] \in {"branches", "queues"} /\ m.functions[b[2]].table = Null
               \/ b[1] \in {"branches", "offsets", "locals"} /\ Unlinked(m, "func")
               \/ b[1] = "table_data" /\ Unlinked(m, "table")
    <3>1. ASSUME NEW s \in DOMAIN file.sections, FromSection(b, s)
          PROVE  Len(b) >= 2 /\ b[1] \notin {"wasi", "stacks", "branches", "queues", "node", "table_data"} /\ b[2] = s
      <4>1. Len(b) >= 2 /\ b[2] = s /\ SectionTag(file.sections[s].id, b[1])
        BY <3>1 DEF FromSection
      <4> QED BY <4>1 DEF SectionTag
    <3>2. CASE Owned(m, b)
      <4>1. b # Null
        BY <3>2, OwnedBlocks
      <4> QED BY <2>1, <2>3, <2>4, <2>5, <2>6, <3>2, <4>1, OwnedReleased
    <3>3. CASE Traced(m, b, pos)
      <4>1. PICK s \in DOMAIN file.sections : FromSection(b, s) /\ s < pos /\ (Replaced(s) \/ Named(m, b))
        BY <3>3 DEF Traced
      <4>2. CASE Replaced(s)
        BY <3>1, <4>1, <4>2
      <4>3. CASE Named(m, b)
        <5>1. b # Null
          BY <3>1, <4>1, NullShort
        <5> QED BY <2>1, <2>3, <2>4, <2>5, <2>6, <4>3, <5>1, NamedReleased
      <4> QED BY <4>1, <4>2, <4>3
    <3>4. CASE FromSection(b, pos)
      <4>1. pos \in DOMAIN file.sections
        BY <3>4 DEF FromSection
      <4> QED BY <3>1, <3>4, <4>1
    <3> QED BY <2>4, <3>2, <3>3, <3>4 DEF Ledger
  <2>7. \A b : (Replaced(b[2]) => \E r \in SectionsOf(file.sections[b[2]].id)' : r > b[2])
    BY <2>2 DEF Replaced, SectionsOf
  <2>8. /\ Unlinked(m, "func") => m'.stage = "Instantiate" /\ m'.wasi = Null /\ Base' > 0
        /\ Unlinked(m, "table") => m'.stage = "Instantiate" /\ m'.wasi = Null /\ m'.imports["table"] > 0
    BY <2>2 DEF Unlinked, Base
  <2>9. LeaksConfined'
    <3> HIDE DEF Released
    <3> QED BY <2>2, <2>6, <2>7, <2>8 DEF LeaksConfined, OfSections, NeverFreed, SectionsOf
  <2> QED BY <2>2, <2>9 DEF Accounting, Early
<1> QED BY <1>2, <1>3

(* The accounts at the start ...                                           *)
LEMMA InitAccounting == Init => Accounting /\ Turns
<1>1. Init => pc = "init_env" /\ heap = {}
  BY DEF Init
<1> QED BY <1>1 DEF Accounting, Turns, LeaksConfined, Early

(* ... when nothing happens ...                                            *)
LEMMA StutterAccounted ==
  ASSUME Accounting, UNCHANGED vars
  PROVE  Accounting'
<1>1. /\ pc' = pc /\ file' = file /\ m' = m /\ heap' = heap /\ pos' = pos
  BY DEF vars
<1>2. Ledger(m, heap, pos, pc)' <=> Ledger(m, heap, pos, pc)
  <2>1. /\ \A b, s : FromSection(b, s)' <=> FromSection(b, s)
        /\ \A b : FromSection(b, pos)' <=> FromSection(b, pos)
    BY <1>1 DEF FromSection
  <2>2. \A id : SectionsOf(id)' = SectionsOf(id)
    BY <1>1 DEF SectionsOf
  <2>3. \A s : Replaced(s)' <=> Replaced(s)
    BY <1>1, <2>2 DEF Replaced
  <2>4. \A b : Owned(m, b)' <=> Owned(m, b)
    BY <1>1, Zenon DEF Owned
  <2>5. \A b : Traced(m, b, pos)' <=> Traced(m, b, pos)
    BY <1>1, <2>1, <2>3 DEF Traced, Named
  <2> QED BY <1>1, <2>1, <2>4, <2>5 DEF Ledger
<1>3. (Numbers(m) /\ InPhase(m, pc))' <=> Numbers(m) /\ InPhase(m, pc)
  BY <1>1, Zenon DEF Numbers, InPhase, FunctionsTaken, TablesTaken, Unlinked
<1>4. LeaksConfined' <=> LeaksConfined
  BY <1>1, Zenon DEF LeaksConfined, OfSections, SectionsOf, Base
<1> QED BY <1>1, <1>2, <1>3, <1>4 DEF Accounting

(* ... and after every step.                                               *)
LEMMA NextAccounted ==
  ASSUME Possession, Judgement, Accounting, Turns, [Next]_vars
  PROVE  Accounting'
<1>1. CASE InitEnv \/ Options \/ ReadFile \/ CreateModule
  BY <1>1, EarlyAccounted
<1>2. CASE InitLoad
  BY <1>2, InitLoadAccounted
<1>3. CASE LoadSection
  BY <1>3, LoadSectionAccounted
<1>4. CASE StartValidator
  BY <1>4, StartAccounted
<1>5. CASE ValidateSerially \/ JoinThreads \/ \E t \in Threads : ThreadStep(t)
  BY <1>5, ValidationAccounted
<1>6. CASE Instantiate
  BY <1>6, GlobalsAccounted, MemoriesAccounted, TablesAccounted, ExportsAccounted,
     FunctionsAccounted DEF Instantiate
<1>7. CASE WasiInit
  BY <1>7, WasiInitAccounted
<1>8. CASE ExecuteMain \/ Return \/ Fail
  BY <1>8, ExecutionAccounted
<1>9. CASE Destroy
  BY <1>9, DestroyAccounted
<1>10. CASE UNCHANGED vars
  BY <1>10, StutterAccounted
<1> QED
  BY <1>1, <1>2, <1>3, <1>4, <1>5, <1>6, <1>7, <1>8, <1>9, <1>10 DEF Next, Main

(* Whatever the file is, whichever allocation fails and however the        *)
(* threads interleave, what is allocated at the exit is one of the leaks   *)
(* that LeaksConfined names.                                               *)
THEOREM LeaksAccounted == Spec => []LeaksConfined
<1>1. Init => Possession /\ Judgement /\ Accounting /\ Turns
  BY InitPossession, InitJudgement, InitAccounting
<1>2. (Possession /\ Judgement /\ Accounting /\ Turns) /\ [Next]_vars
        => (Possession /\ Judgement /\ Accounting /\ Turns)'
  BY NextKept, NextJudged, NextAccounted, NextTurned
<1>3. Possession /\ Judgement /\ Accounting /\ Turns => LeaksConfined
  BY DEF Accounting
<1> QED BY <1>1, <1>2, <1>3, PTL DEF Spec

----------------------------------------------------------------------------
(* The search *)

(* One round of the search, whose next round is f.                         *)
SearchBody(f, s, name, x) ==
  IF x.low > x.high THEN 0
  ELSE LET mid == (x.low + x.high) \div 2
       IN  IF name = s[mid].name THEN mid
           ELSE IF name < s[mid].name THEN f[[low |-> x.low, high |-> mid - 1]]
           ELSE f[[low |-> mid + 1, high |-> x.high]]

Searches == [low : Int, high : Int]
SearchRank == [x \in Searches |-> IF x.low <= x.high THEN x.high - x.low + 1 ELSE 0]

(* What the search may find where it looks.                                *)
Found(s, name, x) ==
  {k \in Int : x.low >= 1 /\ x.high <= Len(s) => k = 0 \/ (k \in 1 .. Len(s) /\ s[k].name = name)}

(* A round finds an entry if the rounds behind it do, and asks for nothing *)
(* else of them.                                                           *)
LEMMA SearchStep ==
  ASSUME NEW s, Len(s) \in Nat, NEW name, NEW f, NEW x \in Searches,
         \A y \in Searches : SearchRank[y] < SearchRank[x] => f[y] \in Found(s, name, y)
  PROVE  /\ SearchBody(f, s, name, x) \in Found(s, name, x)
         /\ \A g : (\A y \in Searches : SearchRank[y] < SearchRank[x] => f[y] = g[y])
                     => SearchBody(f, s, name, x) = SearchBody(g, s, name, x)
<1> DEFINE mid == (x.low + x.high) \div 2
           lower == [low |-> x.low, high |-> mid - 1]
           upper == [low |-> mid + 1, high |-> x.high]
<1>1. x.low \in Int /\ x.high \in Int
  BY DEF Searches
<1>2. CASE x.low > x.high
  BY <1>2 DEF SearchBody, Found
<1>3. CASE ~(x.low > x.high)
  <2>1. mid \in Int /\ x.low <= mid /\ mid <= x.high
    BY <1>1, <1>3
  <2> HIDE DEF mid
  <2>2. /\ lower \in Searches /\ lower.low = x.low /\ lower.high = mid - 1
        /\ upper \in Searches /\ upper.low = mid + 1 /\ upper.high = x.high
    BY <1>1, <2>1 DEF Searches
  <2> HIDE DEF lower, upper
  <2>3. SearchRank[lower] < SearchRank[x] /\ SearchRank[upper] < SearchRank[x]
    BY <1>1, <1>3, <2>1, <2>2 DEF SearchRank
  <2>4. \A g : SearchBody(g, s, name, x) =
          IF name = s[mid].name THEN mid ELSE IF name < s[mid].name THEN g[lower] ELSE g[upper]
    BY <1>3 DEF SearchBody, mid, lower, upper
  <2>5. f[lower] \in Found(s, name, x)
    <3>1. f[lower] \in Found(s, name, lower)
      BY <2>2, <2>3
    <3>2. x.low >= 1 /\ x.high <= Len(s) => lower.low >= 1 /\ lower.high <= Len(s)
      BY <1>1, <2>1, <2>2
    <3> QED BY <3>1, <3>2 DEF Found
  <2>6. f[upper] \in Found(s, name, x)
    <3>1. f[upper] \in Found(s, name, upper)
      BY <2>2, <2>3
    <3>2. x.low >= 1 /\ x.high <= Len(s) => upper.low >= 1 /\ upper.high <= Len(s)
      BY <1>1, <2>1, <2>2
    <3> QED BY <3>1, <3>2 DEF Found
  <2>7. name = s[mid].name => mid \in Found(s, name, x)
    <3>1. x.low >= 1 /\ x.high <= Len(s) => mid \in 1 .. Len(s)
      BY <1>1, <2>1
    <3> QED BY <2>1, <3>1 DEF Found
  <2>8. SearchBody(f, s, name, x) \in Found(s, name, x)
    BY <2>4, <2>5, <2>6, <2>7
  <2>9. ASSUME NEW g, \A y \in Searches : SearchRank[y] < SearchRank[x] => f[y] = g[y]
        PROVE  SearchBody(f, s, name, x) = SearchBody(g, s, name, x)
    BY <2>2, <2>3, <2>4, <2>9
  <2> QED BY <2>8, <2>9
<1> QED BY <1>2, <1>3

(* lookup_symbol finds an entry of the name, or nothing.                   *)
LEMMA LookupFinds ==
  ASSUME NEW s, Len(s) \in Nat, NEW name, LookupSymbol(s, name) # 0
  PROVE  LookupSymbol(s, name) \in 1 .. Len(s) /\ s[LookupSymbol(s, name)].name = name
<1> DEFINE C == [x \in Searches |-> Found(s, name, x)]
           F == {f \in [Searches -> Int] : \A x \in Searches : f[x] \in C[x]}
           Next1(f) == [x \in Searches |-> SearchBody(f, s, name, x)]
           B == [f \in F |-> Next1(f)]
           search == CHOOSE f : f = Next1(f)
<1>1. SearchRank \in [Searches -> Nat]
  <2>1. \A x \in Searches : (IF x.low <= x.high THEN x.high - x.low + 1 ELSE 0) \in Nat
    BY DEF Searches
  <2> QED BY <2>1 DEF SearchRank
<1>2. C \in [Searches -> SUBSET Int] /\ \A x \in Searches : C[x] # {} /\ C[x] = Found(s, name, x)
  <2>1. \A x \in Searches : Found(s, name, x) \in SUBSET Int /\ 0 \in Found(s, name, x)
    BY DEF Found
  <2> QED BY <2>1
<1> HIDE DEF C
<1>3. ASSUME NEW f \in F PROVE \A y \in Searches : f[y] \in Found(s, name, y)
  BY <1>2
<1>4. ASSUME NEW f \in F PROVE Next1(f) \in F
  <2>1. \A x \in Searches : SearchBody(f, s, name, x) \in Found(s, name, x)
    BY <1>3, SearchStep
  <2>2. \A x \in Searches : SearchBody(f, s, name, x) \in Int
    BY <2>1 DEF Found
  <2> DEFINE g == Next1(f)
  <2>3. g \in [Searches -> Int] /\ \A x \in Searches : g[x] \in C[x]
    BY <1>2, <2>1, <2>2
  <2> HIDE DEF g
  <2> QED BY <2>3 DEF g
<1>5. B \in [F -> F]
  <2> HIDE DEF F, Next1
  <2> QED BY <1>4
<1>6. ASSUME NEW f \in F, NEW g \in F, NEW x \in Searches,
             \A y \in Searches : SearchRank[y] < SearchRank[x] => f[y] = g[y]
      PROVE  B[f][x] = B[g][x]
  <2>1. SearchBody(f, s, name, x) = SearchBody(g, s, name, x)
    BY <1>3, <1>6, SearchStep
  <2> HIDE DEF F
  <2> QED BY <2>1
<1> HIDE DEF B
<1>7. \E f \in F : B[f] = f
  <2> HIDE DEF Next1, F
  <2>1. \A f, g \in F : \A x \in Searches :
          (\A y \in Searches : SearchRank[y] < SearchRank[x] => f[y] = g[y]) => B[f][x] = B[g][x]
    BY <1>6
  <2>2. F = {f \in [Searches -> Int] : \A x \in Searches : f[x] \in C[x]}
    BY DEF F
  <2>3. \A x \in Searches : C[x] # {}
    BY <1>2
  <2>4. C \in [Searches -> SUBSET Int]
    BY <1>2
  <2>5. Ranked(Searches, Int, C, SearchRank, F, B)
    BY <1>1, <1>5, <2>1, <2>2, <2>3, <2>4 DEF Ranked
  <2> QED BY <2>5, Recursion
<1>8. search = Next1(search)
  <2>1. \E f : f = Next1(f)
    <3> HIDE DEF F, Next1
    <3> QED BY <1>7 DEF B
  <2> HIDE DEF Next1
  <2> QED BY <2>1
<1> HIDE DEF search, F
<1>9. \A x \in Searches : search[x] \in Found(s, name, x)
  <2> DEFINE P == {x \in Searches : search[x] \in Found(s, name, x)}
  <2>1. ASSUME NEW x \in Searches, \A y \in Searches : SearchRank[y] < SearchRank[x] => y \in P
        PROVE  x \in P
    <3>1. SearchBody(search, s, name, x) \in Found(s, name, x)
      BY <2>1, SearchStep
    <3>2. search[x] = SearchBody(search, s, name, x)
      BY <1>8
    <3> QED BY <3>1, <3>2
  <2> HIDE DEF P
  <2>2. Searches \subseteq P
    BY <1>1, <2>1, RankInduction
  <2> QED BY <2>2 DEF P
<1>10. LookupSymbol(s, name) = search[[low |-> 1, high |-> Len(s)]]
  BY Zenon DEF LookupSymbol, search, SearchBody, Searches
<1>11. [low |-> 1, high |-> Len(s)] \in Searches
  BY DEF Searches
<1>12. LookupSymbol(s, name) \in Found(s, name, [low |-> 1, high |-> Len(s)])
  BY <1>9, <1>10, <1>11
<1> QED BY <1>12 DEF Found

----------------------------------------------------------------------------
(* The sort *)

Entries == [name : Int, sig : Seq(STRING)]

(* A table of the same length whose entries are some of the other's.       *)
Drawn(t, s) == t \in SymbolTables /\ Len(t) = Len(s) /\ ToSet(t) \subseteq ToSet(s)

LEMMA TableShape ==
  ASSUME NEW s \in SymbolTables
  PROVE  /\ Len(s) \in Nat /\ DOMAIN s = 1 .. Len(s)
         /\ \A i \in 1 .. Len(s) : s[i] \in Entries /\ s[i].name \in Int /\ s[i] \in ToSet(s)
<1>1. s \in Seq(Entries)
  BY DEF SymbolTables, Entries
<1>2. Len(s) \in Nat /\ DOMAIN s = 1 .. Len(s) /\ \A i \in 1 .. Len(s) : s[i] \in Entries
  <2> HIDE DEF Entries
  <2> QED BY <1>1
<1>3. \A b \in Entries : b.name \in Int
  BY DEF Entries
<1> QED BY <1>2, <1>3 DEF ToSet

(* An entry is overwritten ...                                             *)
LEMMA Overwritten ==
  ASSUME NEW s \in SymbolTables, NEW b \in Entries, NEW i
  PROVE  LET t == [s EXCEPT ![i] = b]
         IN  /\ t \in SymbolTables /\ Len(t) = Len(s)
             /\ \A j \in 1 .. Len(s) : t[j] = b \/ t[j] \in ToSet(s)
             /\ b \in ToSet(s) => Drawn(t, s)
<1> DEFINE t == [s EXCEPT ![i] = b]
<1>1. s \in Seq(Entries) /\ SymbolTables = Seq(Entries)
  BY DEF SymbolTables, Entries
<1>2. /\ t \in Seq(Entries) /\ Len(t) = Len(s) /\ DOMAIN t = 1 .. Len(s)
      /\ \A j \in 1 .. Len(s) : t[j] = b \/ t[j] = s[j]
  <2> DEFINE n == Len(s)
  <2>1. n \in Nat /\ DOMAIN s = 1 .. n /\ \A j \in 1 .. n : s[j] \in Entries
    BY TableShape
  <2>2. t = [j \in 1 .. n |-> IF j = i THEN b ELSE s[j]]
    BY <2>1
  <2> HIDE DEF Entries, t, n
  <2>3. /\ DOMAIN t = 1 .. n /\ \A j \in 1 .. n : t[j] = b \/ t[j] = s[j]
    BY <2>2
  <2>4. t \in Seq(Entries) /\ Len(t) = n
    <3>1. t \in [1 .. n -> Entries]
      BY <2>1, <2>2
    <3> QED BY <2>1, <2>3, <3>1
  <2> QED BY <2>3, <2>4 DEF n
<1> HIDE DEF t
<1>3. \A j \in 1 .. Len(s) : t[j] = b \/ t[j] \in ToSet(s)
  BY <1>2, TableShape
<1>4. b \in ToSet(s) => ToSet(t) \subseteq ToSet(s)
  BY <1>2, <1>3 DEF ToSet
<1> QED BY <1>1, <1>2, <1>3, <1>4 DEF Drawn, t

(* ... two change places.                                                  *)
LEMMA Exchanged ==
  ASSUME NEW s \in SymbolTables, NEW i \in 1 .. Len(s), NEW j \in 1 .. Len(s)
  PROVE  Drawn(Exchange(s, i, j), s)
<1> DEFINE r == [s EXCEPT ![i] = s[j]]
           t == [r EXCEPT ![j] = s[i]]
<1>1. s[i] \in Entries /\ s[j] \in Entries /\ s[i] \in ToSet(s) /\ s[j] \in ToSet(s)
  BY TableShape
<1>2. Drawn(r, s)
  BY <1>1, Overwritten
<1>3. t = Exchange(s, i, j)
  BY DEF Exchange
<1> HIDE DEF r
<1>4. r \in SymbolTables /\ Len(r) = Len(s) /\ ToSet(r) \subseteq ToSet(s)
  BY <1>2 DEF Drawn
<1>5. /\ t \in SymbolTables /\ Len(t) = Len(r)
      /\ \A k \in 1 .. Len(r) : t[k] = s[i] \/ t[k] \in ToSet(r)
  BY <1>1, <1>4, Overwritten
<1> HIDE DEF t
<1>6. DOMAIN t = 1 .. Len(t)
  BY <1>5, TableShape
<1>7. ToSet(t) \subseteq ToSet(s)
  BY <1>1, <1>4, <1>5, <1>6 DEF ToSet
<1> QED BY <1>3, <1>4, <1>5, <1>7 DEF Drawn

LEMMA DrawnTwice ==
  ASSUME NEW r, NEW s, NEW t, Drawn(t, s), Drawn(s, r)
  PROVE  Drawn(t, r)
BY DEF Drawn

(* The scans end within the part.                                          *)
LEMMA ScansEnd ==
  ASSUME NEW s \in SymbolTables, NEW left \in 1 .. Len(s), NEW right \in left .. Len(s),
         NEW base \in Entries
  PROVE  ScanDown(s, left, right, base) \in left .. right /\ ScanUp(s, left, right, base) \in left .. right
<1>1. /\ Len(s) \in Nat /\ base.name \in Int
      /\ \A i \in left .. right : s[i].name \in Int
  BY TableShape DEF Entries
<1>2. \E j \in left .. right : /\ \A k \in j + 1 .. right : s[k].name > base.name
                               /\ j = left \/ s[j].name <= base.name
  <2> DEFINE S == {j \in left .. right : j = left \/ s[j].name <= base.name}
  <2>1. left \in S /\ S \in SUBSET (0 .. right) /\ right \in Nat
    OBVIOUS
  <2>2. Max(S) \in S /\ \A x \in S : x <= Max(S)
    <3> HIDE DEF S
    <3> QED BY <2>1, Greatest
  <2>3. PICK j \in S : \A x \in S : x <= j
    BY <2>2
  <2>4. ASSUME NEW k \in j + 1 .. right PROVE s[k].name > base.name
    <3>1. k \in left .. right /\ k > j
      BY <2>3
    <3>2. k \notin S
      BY <2>3, <3>1
    <3> QED BY <1>1, <3>1, <3>2
  <2> QED BY <2>3, <2>4
<1>3. \E j \in left .. right : /\ \A k \in left .. j - 1 : s[k].name < base.name
                               /\ j = right \/ s[j].name >= base.name
  <2> DEFINE S == {j \in left .. right : j = right \/ s[j].name >= base.name}
  <2>1. right \in S /\ S \in SUBSET Nat
    OBVIOUS
  <2>2. PICK j \in S : \A x \in S : j <= x
    <3> HIDE DEF S
    <3> QED BY <2>1, LeastNumber
  <2>3. ASSUME NEW k \in left .. j - 1 PROVE s[k].name < base.name
    <3>1. k \in left .. right /\ k < j
      BY <2>2
    <3>2. k \notin S
      BY <2>2, <3>1
    <3> QED BY <1>1, <3>1, <3>2
  <2> QED BY <2>2, <2>3
<1> QED BY <1>2, <1>3 DEF ScanDown, ScanUp

(* The parts of tables, and their width.                                   *)
Width == [x \in Spans |-> IF x.left < x.right THEN x.right - x.left ELSE 0]

LEMMA SpanShape ==
  /\ \A x \in Spans : /\ x.table \in SymbolTables /\ x.left \in Int /\ x.right \in Int
                      /\ x.left >= 1 /\ x.right <= Len(x.table)
  /\ \A t \in SymbolTables : \A left, right \in Int :
       left >= 1 /\ right <= Len(t) =>
         /\ Span(t, left, right) \in Spans
         /\ Span(t, left, right).table = t
         /\ Span(t, left, right).left = left
         /\ Span(t, left, right).right = right
  /\ Width \in [Spans -> Nat]
<1>1. \A x \in Spans : /\ x.table \in SymbolTables /\ x.left \in Int /\ x.right \in Int
                      /\ x.left >= 1 /\ x.right <= Len(x.table)
  BY DEF Spans
<1>2. \A x \in Spans : (IF x.left < x.right THEN x.right - x.left ELSE 0) \in Nat
  BY <1>1
<1>3. Width \in [Spans -> Nat]
  BY <1>2 DEF Width
<1> QED BY <1>1, <1>3 DEF Spans, Span

(* One round of a partition, whose next round is f.                        *)
PartBody(f, base, x) ==
  IF x.left >= x.right
  THEN [table |-> [x.table EXCEPT ![x.left] = base], place |-> x.left]
  ELSE LET r1 == ScanDown(x.table, x.left, x.right, base)
           t1 == Exchange(x.table, x.left, r1)
           l1 == IF x.left < r1 THEN x.left + 1 ELSE x.left
           l2 == ScanUp(t1, l1, r1, base)
       IN  f[Span(Exchange(t1, l2, r1), l2, IF l2 < r1 THEN r1 - 1 ELSE r1)]

Results == [table : SymbolTables, place : Int]

(* What it comes to: the place is in the part, and no entry is new but the *)
(* pivot.                                                                  *)
Partitioned(base, x) ==
  {r \in Results :
     /\ Len(r.table) = Len(x.table)
     /\ \A i \in 1 .. Len(r.table) : r.table[i] = base \/ r.table[i] \in ToSet(x.table)
     /\ x.left <= x.right => r.place \in x.left .. x.right}

(* A round keeps this, and asks only for narrower parts.                   *)
LEMMA PartStep ==
  ASSUME NEW base \in Entries, NEW f, NEW x \in Spans,
         \A y \in Spans : Width[y] < Width[x] => f[y] \in Partitioned(base, y)
  PROVE  /\ PartBody(f, base, x) \in Partitioned(base, x)
         /\ \A g : (\A y \in Spans : Width[y] < Width[x] => f[y] = g[y])
                     => PartBody(f, base, x) = PartBody(g, base, x)
<1>0. /\ x.table \in SymbolTables /\ x.left \in Int /\ x.right \in Int
      /\ x.left >= 1 /\ x.right <= Len(x.table) /\ Len(x.table) \in Nat
  BY SpanShape, TableShape
<1>1. CASE x.left >= x.right
  <2> DEFINE t == [x.table EXCEPT ![x.left] = base]
  <2>1. /\ t \in SymbolTables /\ Len(t) = Len(x.table)
        /\ \A j \in 1 .. Len(x.table) : t[j] = base \/ t[j] \in ToSet(x.table)
    BY <1>0, Overwritten
  <2>2. \A g : PartBody(g, base, x) = [table |-> t, place |-> x.left]
    BY <1>1 DEF PartBody
  <2> HIDE DEF t
  <2>3. [table |-> t, place |-> x.left] \in Partitioned(base, x)
    BY <1>0, <1>1, <2>1 DEF Partitioned, Results
  <2> QED BY <2>2, <2>3
<1>2. CASE ~(x.left >= x.right)
  <2> DEFINE n == Len(x.table)
             r1 == ScanDown(x.table, x.left, x.right, base)
             t1 == Exchange(x.table, x.left, r1)
             l1 == IF x.left < r1 THEN x.left + 1 ELSE x.left
             l2 == ScanUp(t1, l1, r1, base)
             t2 == Exchange(t1, l2, r1)
             r2 == IF l2 < r1 THEN r1 - 1 ELSE r1
             y == Span(t2, l2, r2)
  <2>1. x.left \in 1 .. n /\ x.right \in x.left .. n /\ x.left < x.right
    BY <1>0, <1>2
  <2>2. r1 \in x.left .. x.right
    BY <1>0, <2>1, ScansEnd
  <2> HIDE DEF r1
  <2>3. r1 \in 1 .. n /\ r1 \in Int /\ x.left <= r1 /\ r1 <= x.right
    BY <1>0, <2>1, <2>2
  <2>4. Drawn(t1, x.table)
    BY <1>0, <2>1, <2>3, Exchanged
  <2> HIDE DEF t1
  <2>5. t1 \in SymbolTables /\ Len(t1) = n
    BY <2>4 DEF Drawn
  <2>6. l1 \in 1 .. Len(t1) /\ r1 \in l1 .. Len(t1) /\ l1 \in Int /\ x.left <= l1
        /\ (x.left < r1 => x.left < l1)
    BY <1>0, <2>1, <2>3, <2>5
  <2> HIDE DEF l1
  <2>7. l2 \in l1 .. r1
    BY <2>5, <2>6, ScansEnd
  <2> HIDE DEF l2
  <2>8. l2 \in 1 .. Len(t1) /\ r1 \in 1 .. Len(t1)
    BY <2>3, <2>5, <2>6, <2>7
  <2>9. Drawn(t2, t1)
    BY <2>5, <2>8, Exchanged
  <2> HIDE DEF t2
  <2>10. Drawn(t2, x.table)
    BY <2>4, <2>9, DrawnTwice
  <2>11. t2 \in SymbolTables /\ Len(t2) = n /\ ToSet(t2) \subseteq ToSet(x.table)
    BY <2>10 DEF Drawn
  <2>12. /\ l2 \in Int /\ r2 \in Int /\ l2 >= 1 /\ r2 <= Len(t2)
         /\ x.left <= l2 /\ l2 <= r2 /\ r2 <= x.right
         /\ r2 - l2 < x.right - x.left
    BY <1>0, <2>1, <2>3, <2>5, <2>6, <2>7, <2>8, <2>11
  <2> HIDE DEF r2, n
  <2>13. y \in Spans /\ y.table = t2 /\ y.left = l2 /\ y.right = r2
    <3> HIDE DEF l2
    <3>1. t2 \in SymbolTables /\ l2 \in Int /\ r2 \in Int /\ l2 >= 1 /\ r2 <= Len(t2)
      BY <2>11, <2>12
    <3> QED BY <3>1, SpanShape
  <2>14. \A g : PartBody(g, base, x) = g[y]
    BY <1>2 DEF PartBody, y, t2, r2, l2, l1, t1, r1
  <2> HIDE DEF y
  <2>15. Width[y] < Width[x]
    BY <1>0, <2>1, <2>12, <2>13 DEF Width
  <2>16. f[y] \in Partitioned(base, y)
    BY <2>13, <2>15
  <2>17. f[y] \in Partitioned(base, x)
    <3> DEFINE r == f[y]
    <3> HIDE DEF r
    <3>1. /\ r \in Results /\ Len(r.table) = n
          /\ \A i \in 1 .. Len(r.table) : r.table[i] = base \/ r.table[i] \in ToSet(x.table)
      BY <2>11, <2>13, <2>16 DEF Partitioned, r
    <3>2. r.place \in x.left .. x.right
      <4>1. r.place \in l2 .. r2
        BY <2>12, <2>13, <2>16 DEF Partitioned, r
      <4> QED BY <1>0, <2>12, <4>1
    <3>3. r \in Partitioned(base, x)
      BY <3>1, <3>2 DEF Partitioned, n
    <3> QED BY <3>3 DEF r
  <2> QED BY <2>13, <2>14, <2>15, <2>17
<1> QED BY <1>1, <1>2

(* The loop of a partition keeps the entries, and ends within the part.    *)
LEMMA PartitionEnds ==
  ASSUME NEW s \in SymbolTables, NEW left \in 1 .. Len(s), NEW right \in left .. Len(s)
  PROVE  /\ Drawn(Partition(s, left, right).table, s)
         /\ Partition(s, left, right).place \in left .. right
<1> DEFINE base == s[left]
           C == [x \in Spans |-> Partitioned(base, x)]
           F == {f \in [Spans -> Results] : \A x \in Spans : f[x] \in C[x]}
           Next1(f) == [x \in Spans |-> PartBody(f, base, x)]
           B == [f \in F |-> Next1(f)]
           loop == CHOOSE f : f = Next1(f)
<1>0. base \in Entries /\ base \in ToSet(s)
  BY TableShape
<1> HIDE DEF base
<1>1. Width \in [Spans -> Nat]
  BY SpanShape
<1>2. C \in [Spans -> SUBSET Results] /\ \A x \in Spans : C[x] # {} /\ C[x] = Partitioned(base, x)
  <2>1. ASSUME NEW x \in Spans
        PROVE  Partitioned(base, x) \in SUBSET Results /\ Partitioned(base, x) # {}
    <3> DEFINE r == [table |-> x.table, place |-> x.left]
    <3>1. x.table \in SymbolTables /\ x.left \in Int
      BY SpanShape
    <3>2. \A i \in 1 .. Len(x.table) : x.table[i] \in ToSet(x.table)
      BY <3>1, TableShape
    <3>3. r \in Results /\ r.table = x.table /\ r.place = x.left
      BY <3>1 DEF Results
    <3> HIDE DEF r
    <3>4. x.left <= x.right => r.place \in x.left .. x.right
      BY <3>3, SpanShape
    <3>5. r \in Partitioned(base, x)
      BY <3>2, <3>3, <3>4 DEF Partitioned
    <3> QED BY <3>5 DEF Partitioned
  <2> QED BY <2>1
<1> HIDE DEF C
<1>3. ASSUME NEW f \in F PROVE \A y \in Spans : f[y] \in Partitioned(base, y)
  BY <1>2
<1>4. ASSUME NEW f \in F PROVE Next1(f) \in F
  <2>1. \A x \in Spans : PartBody(f, base, x) \in Partitioned(base, x)
    BY <1>0, <1>3, PartStep
  <2>2. \A x \in Spans : PartBody(f, base, x) \in Results
    BY <2>1 DEF Partitioned
  <2> DEFINE g == Next1(f)
  <2>3. g \in [Spans -> Results] /\ \A x \in Spans : g[x] \in C[x]
    BY <1>2, <2>1, <2>2
  <2> HIDE DEF g
  <2> QED BY <2>3 DEF g
<1>5. B \in [F -> F]
  <2> HIDE DEF F, Next1
  <2> QED BY <1>4
<1>6. ASSUME NEW f \in F, NEW g \in F, NEW x \in Spans,
             \A y \in Spans : Width[y] < Width[x] => f[y] = g[y]
      PROVE  B[f][x] = B[g][x]
  <2>1. PartBody(f, base, x) = PartBody(g, base, x)
    BY <1>0, <1>3, <1>6, PartStep
  <2> HIDE DEF F
  <2> QED BY <2>1
<1> HIDE DEF B
<1>7. \E f \in F : B[f] = f
  <2> HIDE DEF Next1, F
  <2>1. \A f, g \in F : \A x \in Spans :
          (\A y \in Spans : Width[y] < Width[x] => f[y] = g[y]) => B[f][x] = B[g][x]
    BY <1>6
  <2>2. F = {f \in [Spans -> Results] : \A x \in Spans : f[x] \in C[x]}
    BY DEF F
  <2>3. \A x \in Spans : C[x] # {}
    BY <1>2
  <2>4. Ranked(Spans, Results, C, Width, F, B)
    BY <1>1, <1>2, <1>5, <2>1, <2>2, <2>3 DEF Ranked
  <2> QED BY <2>4, Recursion
<1>8. loop = Next1(loop)
  <2>1. \E f : f = Next1(f)
    <3> HIDE DEF F, Next1
    <3> QED BY <1>7 DEF B
  <2> HIDE DEF Next1
  <2> QED BY <2>1
<1> HIDE DEF loop, F
<1>9. \A x \in Spans : loop[x] \in Partitioned(base, x)
  <2> DEFINE P == {x \in Spans : loop[x] \in Partitioned(base, x)}
  <2>1. ASSUME NEW x \in Spans, \A y \in Spans : Width[y] < Width[x] => y \in P
        PROVE  x \in P
    <3>1. PartBody(loop, base, x) \in Partitioned(base, x)
      BY <1>0, <2>1, PartStep
    <3>2. loop[x] = PartBody(loop, base, x)
      BY <1>8
    <3> QED BY <3>1, <3>2
  <2> HIDE DEF P
  <2>2. Spans \subseteq P
    BY <1>1, <2>1, RankInduction
  <2> QED BY <2>2 DEF P
<1>10. Partition(s, left, right) = loop[Span(s, left, right)]
  BY Zenon DEF Partition, loop, PartBody, base
<1> DEFINE x == Span(s, left, right)
           r == Partition(s, left, right)
<1>11. x \in Spans /\ x.table = s /\ x.left = left /\ x.right = right /\ left <= right
  BY SpanShape, TableShape
<1> HIDE DEF x
<1>12. r \in Partitioned(base, x)
  BY <1>9, <1>10, <1>11 DEF x
<1> HIDE DEF r
<1>13. /\ r.table \in SymbolTables /\ Len(r.table) = Len(s) /\ r.place \in left .. right
       /\ \A i \in 1 .. Len(r.table) : r.table[i] = base \/ r.table[i] \in ToSet(s)
  BY <1>11, <1>12 DEF Partitioned, Results
<1>14. ToSet(r.table) \subseteq ToSet(s)
  <2>1. DOMAIN r.table = 1 .. Len(r.table)
    BY <1>13, TableShape
  <2> QED BY <1>0, <1>13, <2>1 DEF ToSet
<1> QED BY <1>13, <1>14 DEF Drawn, r

(* quick_sort_symbols, whose calls of itself are f.                        *)
SortBody(f, x) ==
  IF x.left >= x.right THEN x.table
  ELSE LET p == Partition(x.table, x.left, x.right)
           t == f[Span(p.table, x.left, p.place - 1)]
       IN  f[Span(t, p.place + 1, x.right)]

Sorted(x) == {t \in SymbolTables : Drawn(t, x.table)}

(* It keeps the entries, and asks only for narrower parts.                 *)
LEMMA SortStep ==
  ASSUME NEW f, NEW x \in Spans,
         \A y \in Spans : Width[y] < Width[x] => f[y] \in Sorted(y)
  PROVE  /\ SortBody(f, x) \in Sorted(x)
         /\ \A g : (\A y \in Spans : Width[y] < Width[x] => f[y] = g[y])
                     => SortBody(f, x) = SortBody(g, x)
<1>0. /\ x.table \in SymbolTables /\ x.left \in Int /\ x.right \in Int
      /\ x.left >= 1 /\ x.right <= Len(x.table) /\ Len(x.table) \in Nat
  BY SpanShape, TableShape
<1>1. CASE x.left >= x.right
  BY <1>0, <1>1 DEF SortBody, Sorted, Drawn
<1>2. CASE ~(x.left >= x.right)
  <2> DEFINE n == Len(x.table)
             p == Partition(x.table, x.left, x.right)
             y == Span(p.table, x.left, p.place - 1)
             t == f[y]
             z == Span(t, p.place + 1, x.right)
  <2>1. x.left \in 1 .. n /\ x.right \in x.left .. n /\ x.left < x.right
    BY <1>0, <1>2
  <2>2. Drawn(p.table, x.table) /\ p.place \in x.left .. x.right
    BY <1>0, <2>1, PartitionEnds
  <2> HIDE DEF p
  <2>3. /\ p.table \in SymbolTables /\ Len(p.table) = n
        /\ p.place \in Int /\ x.left <= p.place /\ p.place <= x.right
    BY <1>0, <2>2 DEF Drawn
  <2>4. /\ p.place - 1 \in Int /\ p.place + 1 \in Int /\ p.place - 1 <= n /\ p.place + 1 >= 1
        /\ p.place - 1 - x.left < x.right - x.left /\ x.right - (p.place + 1) < x.right - x.left
    BY <1>0, <2>1, <2>3
  <2>5. y \in Spans /\ y.table = p.table /\ y.left = x.left /\ y.right = p.place - 1
    BY <1>0, <2>3, <2>4, SpanShape
  <2>6. \A g : SortBody(g, x) = g[Span(g[y], p.place + 1, x.right)]
    BY <1>2 DEF SortBody, y, p
  <2> HIDE DEF y, n
  <2>7. Width[y] < Width[x]
    BY <1>0, <2>1, <2>3, <2>4, <2>5 DEF Width
  <2>8. Drawn(t, p.table)
    BY <2>5, <2>7 DEF Sorted
  <2> HIDE DEF t
  <2>9. t \in SymbolTables /\ Len(t) = n
    BY <2>3, <2>8 DEF Drawn
  <2>10. z \in Spans /\ z.table = t /\ z.left = p.place + 1 /\ z.right = x.right
    BY <1>0, <2>4, <2>9, SpanShape DEF n
  <2> HIDE DEF z
  <2>11. Width[z] < Width[x]
    BY <1>0, <2>1, <2>3, <2>4, <2>10 DEF Width
  <2>12. Drawn(f[z], t)
    BY <2>10, <2>11 DEF Sorted
  <2>13. Drawn(f[z], x.table)
    BY <2>2, <2>8, <2>12, DrawnTwice
  <2>14. f[z] \in Sorted(x)
    BY <2>13 DEF Sorted, Drawn
  <2>15. SortBody(f, x) = f[z]
    BY <2>6 DEF z, t
  <2>16. ASSUME NEW g, \A w \in Spans : Width[w] < Width[x] => f[w] = g[w]
         PROVE  SortBody(f, x) = SortBody(g, x)
    <3>1. g[y] = t /\ g[z] = f[z]
      BY <2>5, <2>7, <2>10, <2>11, <2>16 DEF t
    <3>2. SortBody(g, x) = g[z]
      BY <2>6, <3>1 DEF z
    <3> QED BY <2>15, <3>1, <3>2
  <2> QED BY <2>14, <2>15, <2>16
<1> QED BY <1>1, <1>2

(* The sorted table has the entries of the table, and no others.           *)
LEMMA SortKeeps ==
  ASSUME NEW s \in SymbolTables
  PROVE  Drawn(QuickSort(s), s)
<1> DEFINE C == [x \in Spans |-> Sorted(x)]
           F == {f \in [Spans -> SymbolTables] : \A x \in Spans : f[x] \in C[x]}
           Next1(f) == [x \in Spans |-> SortBody(f, x)]
           B == [f \in F |-> Next1(f)]
<1>1. Width \in [Spans -> Nat]
  BY SpanShape
<1>2. C \in [Spans -> SUBSET SymbolTables] /\ \A x \in Spans : C[x] # {} /\ C[x] = Sorted(x)
  <2>1. \A x \in Spans : Sorted(x) \in SUBSET SymbolTables /\ x.table \in Sorted(x)
    BY SpanShape DEF Sorted, Drawn
  <2> QED BY <2>1
<1> HIDE DEF C
<1>3. ASSUME NEW f \in F PROVE \A y \in Spans : f[y] \in Sorted(y)
  BY <1>2
<1>4. ASSUME NEW f \in F PROVE Next1(f) \in F
  <2>1. \A x \in Spans : SortBody(f, x) \in Sorted(x)
    BY <1>3, SortStep
  <2>2. \A x \in Spans : SortBody(f, x) \in SymbolTables
    BY <2>1 DEF Sorted
  <2> DEFINE g == Next1(f)
  <2>3. g \in [Spans -> SymbolTables] /\ \A x \in Spans : g[x] \in C[x]
    BY <1>2, <2>1, <2>2
  <2> HIDE DEF g
  <2> QED BY <2>3 DEF g
<1>5. B \in [F -> F]
  <2> HIDE DEF F, Next1
  <2> QED BY <1>4
<1>6. ASSUME NEW f \in F, NEW g \in F, NEW x \in Spans,
             \A y \in Spans : Width[y] < Width[x] => f[y] = g[y]
      PROVE  B[f][x] = B[g][x]
  <2>1. SortBody(f, x) = SortBody(g, x)
    BY <1>3, <1>6, SortStep
  <2> HIDE DEF F
  <2> QED BY <2>1
<1> HIDE DEF B
<1>7. \E f \in F : B[f] = f
  <2> HIDE DEF Next1, F
  <2>1. \A f, g \in F : \A x \in Spans :
          (\A y \in Spans : Width[y] < Width[x] => f[y] = g[y]) => B[f][x] = B[g][x]
    BY <1>6
  <2>2. F = {f \in [Spans -> SymbolTables] : \A x \in Spans : f[x] \in C[x]}
    BY DEF F
  <2>3. \A x \in Spans : C[x] # {}
    BY <1>2
  <2>4. Ranked(Spans, SymbolTables, C, Width, F, B)
    BY <1>1, <1>2, <1>5, <2>1, <2>2, <2>3 DEF Ranked
  <2> QED BY <2>4, Recursion
<1>8. SortRange = Next1(SortRange)
  <2>1. \E f : f = Next1(f)
    <3> HIDE DEF F, Next1
    <3> QED BY <1>7 DEF B
  <2>2. SortRange = CHOOSE f : f = Next1(f)
    BY Zenon DEF SortRange, SortBody
  <2> HIDE DEF Next1
  <2> QED BY <2>1, <2>2
<1> HIDE DEF F
<1>9. \A x \in Spans : SortRange[x] \in Sorted(x)
  <2> DEFINE P == {x \in Spans : SortRange[x] \in Sorted(x)}
  <2>1. ASSUME NEW x \in Spans, \A y \in Spans : Width[y] < Width[x] => y \in P
        PROVE  x \in P
    <3>1. SortBody(SortRange, x) \in Sorted(x)
      BY <2>1, SortStep
    <3>2. SortRange[x] = SortBody(SortRange, x)
      BY <1>8
    <3> QED BY <3>1, <3>2
  <2> HIDE DEF P
  <2>2. Spans \subseteq P
    BY <1>1, <2>1, RankInduction
  <2> QED BY <2>2 DEF P
<1> DEFINE x == Span(s, 1, Len(s))
<1>10. x \in Spans /\ x.table = s
  BY SpanShape, TableShape
<1> HIDE DEF x
<1>11. QuickSort(s) = SortRange[x]
  BY DEF QuickSort, x
<1> QED BY <1>9, <1>10, <1>11 DEF Sorted
----------------------------------------------------------------------------
(* The imports of a module                                                 *)

(* A slot is filled by the import with its number, or by none.             *)
InPlace(mod) == \A k \in DOMAIN mod.functions : mod.functions[k].from \in {0, k}

(* A function is linked to a native function of its name and type.         *)
LinkedTo(mod, k) ==
  /\ mod.functions[k].from = k
  /\ \E n \in DOMAIN Symbols :
       /\ Symbols[n].name = mod.functions[k].name
       /\ CheckSymbolSignature(TypeOf(mod.functions[k].type), Symbols[n].sig)

(* The inductive invariant: the table has symbols of the source and no     *)
(* other, the imports sit in their slots, and after wasm_instantiate they  *)
(* are linked.                                                             *)
Linking ==
  /\ natives.table \in SymbolTables /\ ToSet(natives.table) \subseteq ToSet(Symbols)
  /\ InPlace(m)
  /\ pc \in Executing => \A k \in 1 .. Base : LinkedTo(m, k)

(* A step outside of the execution keeps the links if the imports stay in  *)
(* their slots.                                                            *)
LEMMA LinkingKept ==
  ASSUME Linking, natives' = natives, InPlace(m'), pc' \notin Executing
  PROVE  Linking'
<1>1. InPlace(m)'
  BY DEF InPlace
<1> QED BY <1>1 DEF Linking

(* A module with the same functions.                                       *)
LEMMA SamePlaces ==
  ASSUME Linking, NEW new, new.functions = m.functions
  PROVE  InPlace(new)
BY DEF Linking, InPlace

(* Functions that are as before but for what does not tell where they are  *)
(* from.                                                                   *)
LEMMA PlacesKept ==
  ASSUME Linking, NEW new, DOMAIN new.functions = DOMAIN m.functions,
         \A k \in DOMAIN m.functions : new.functions[k].from = m.functions[k].from
  PROVE  InPlace(new)
BY DEF Linking, InPlace

(* The ends of a step of main, short of the execution.                     *)
LEMMA StepLinked ==
  ASSUME Linking, NEW mod, InPlace(mod), NEW blocks,
         \/ Loaded(mod, blocks) /\ pc \notin Executing
         \/ Rejected(mod, blocks) \/ Exhausted(mod, blocks)
         \/ \E next : next \notin Executing /\ Goto(next, mod, blocks)
  PROVE  Linking'
<1>1. "fail" \notin Executing
  BY DEF Executing
<1>2. m' = mod /\ natives' = natives /\ pc' \notin Executing
  BY <1>1 DEF Loaded, Rejected, Exhausted, Goto, Untouched
<1> QED BY <1>2, LinkingKept

(* What follows undefined behaviour.                                       *)
LEMMA UndefinedLinked ==
  ASSUME Linking, NEW what, Undefined(what)
  PROVE  Linking'
<1>1. m' = m /\ natives' = natives /\ pc' \notin Executing
  BY DEF Undefined, Untouched, Executing
<1> QED BY <1>1, SamePlaces, LinkingKept

(* main up to wasm_module_create: the table of natives is sorted, or not.  *)
LEMMA EarlyLinked ==
  ASSUME Possession, Linking, InitEnv \/ Options \/ ReadFile \/ CreateModule
  PROVE  Linking'
<1>1. pc \in Early /\ pc' \notin Executing /\ (m' = m \/ m' = NewModule)
  BY DEF InitEnv, Options, ReadFile, CreateModule, Early, Executing
<1>2. m' = NewModule
  BY <1>1 DEF Possession
<1>3. InPlace(m)'
  BY <1>2 DEF NewModule, InPlace
<1>4. natives'.table \in SymbolTables /\ ToSet(natives'.table) \subseteq ToSet(Symbols)
  <2>1. CASE InitEnv
    <3>1. natives'.table = Symbols \/ natives'.table = QuickSort(Symbols)
      BY <2>1 DEF InitEnv
    <3>2. Symbols \in SymbolTables
      BY LoaderAssumption
    <3>3. Drawn(QuickSort(Symbols), Symbols)
      BY <3>2, SortKeeps
    <3> QED BY <3>1, <3>2, <3>3 DEF Drawn
  <2>2. CASE Options \/ ReadFile \/ CreateModule
    <3>1. natives' = natives
      BY <2>2 DEF Options, ReadFile, CreateModule
    <3> QED BY <3>1 DEF Linking
  <2> QED BY <2>1, <2>2
<1> QED BY <1>1, <1>3, <1>4 DEF Linking

(* init_load: no slot is filled.                                           *)
LEMMA InitLoadLinked ==
  ASSUME Possession, Linking, InitLoad
  PROVE  Linking'
<1> DEFINE counted == [m EXCEPT !.imports = [k \in ImportKinds |-> ImportCount(k)],
                                !.counts  = [k \in ImportKinds |-> SectionCount(k)]]
           zeroed  == [counted EXCEPT !.functions = [i \in 1 .. Slots("func") |-> NoFunction],
                                      !.globals = [i \in 1 .. Slots("global") |-> NoGlobal],
                                      !.tables = Slots("table"),
                              !.tableData = [i \in 1 .. Slots("table") |-> Null]]
           Blocks(n) == {<<Arrays[i]>> : i \in 1..n}
           With(n) == [zeroed EXCEPT !.arrays = Blocks(n)]
<1>1. pc = "header"
  BY DEF InitLoad
<1>2. DOMAIN m = DOMAIN NewModule
  BY <1>1, SlotsHeld DEF Final, Over, Early
<1>3. ASSUME NEW n PROVE With(n).functions = [i \in 1 .. Slots("func") |-> NoFunction]
  BY <1>2, ModuleFields
<1>4. \/ Rejected(m, {}) \/ Goto("sections", With(3), Blocks(3))
      \/ \E n \in 0..2 : Exhausted(With(n), Blocks(n))
  BY DEF InitLoad
<1> HIDE DEF With, Blocks
<1>5. ASSUME NEW n PROVE InPlace(With(n))
  <2>1. NoFunction.from = 0
    BY DEF NoFunction
  <2>2. \A k \in DOMAIN With(n).functions : With(n).functions[k] = NoFunction
    BY <1>3
  <2> QED BY <2>1, <2>2 DEF InPlace
<1>6. "sections" \notin Executing
  BY DEF Executing
<1> QED BY <1>4, <1>5, <1>6, SamePlaces, StepLinked

(* The imports sit in their slots.                                         *)
LEMMA ImportsPlaced ==
  ASSUME Possession, Linking, Section("import"), NEW n \in 0 .. Len(file.sections[pos].items)
  PROVE  InPlace(WithImports(file.sections[pos].items, n))
<1> DEFINE items == file.sections[pos].items
           new == WithImports(items, n)
<1>1. /\ DOMAIN m = DOMAIN NewModule /\ HoldsFunctions(m, heap)
      /\ Len(items) \in Nat /\ DOMAIN items = 1 .. Len(items)
  BY InSection DEF Holdings, Counted
<1>2. Imported(new, items, n)
  BY <1>1, ImportsWritten
<1> HIDE DEF new
<1>3. ASSUME NEW k \in DOMAIN m.functions, FilledBy(items, n, "func", k) # {}
      PROVE  OrdinalOf(items, Max(FilledBy(items, n, "func", k))) = k
  <2> DEFINE S == FilledBy(items, n, "func", k)
             i == Max(S)
             T == {j \in 1 .. i - 1 : items[j].kind \in {"func"}}
  <2>1. S \in SUBSET (0 .. n) /\ n \in Nat
    BY <1>1 DEF FilledBy
  <2>2. i \in S
    <3> HIDE DEF S
    <3> QED BY <1>3, <2>1, Greatest DEF S
  <2>3. i \in 1 .. n /\ items[i].kind = "func" /\ ImportSlot(i) = k
    BY <2>2 DEF FilledBy
  <2> HIDE DEF i, S
  <2>4. k = 1 + Cardinality(T)
    BY <2>3 DEF ImportSlot
  <2>5. {j \in 1 .. i : items[j].kind = items[i].kind} = T \cup {i}
    BY <2>3
  <2>6. T \in SUBSET (1 .. n) /\ i \notin T
    BY <2>3
  <2>7. IsFiniteSet(T) /\ Cardinality(T) \in Nat
    BY <2>1, <2>6, CardinalityNat
  <2> HIDE DEF T
  <2>8. Cardinality(T \cup {i}) = Cardinality(T) + 1
    BY <2>6, <2>7, FS_AddElement
  <2>9. OrdinalOf(items, i) = Cardinality(T \cup {i})
    BY <2>5, Zenon DEF OrdinalOf
  <2>10. OrdinalOf(items, i) = k
    BY <2>4, <2>7, <2>8, <2>9
  <2> QED BY <2>10 DEF i, S
<1>4. ASSUME NEW k \in DOMAIN m.functions
      PROVE  new.functions[k].from \in {0, k}
  <2>1. m.functions[k].from \in {0, k}
    BY DEF Linking, InPlace
  <2>2. CASE FilledBy(items, n, "func", k) = {}
    BY <1>2, <2>1, <2>2 DEF Imported
  <2>3. CASE FilledBy(items, n, "func", k) # {}
    <3> DEFINE i == Max(FilledBy(items, n, "func", k))
    <3>1. new.functions[k] = [m.functions[k] EXCEPT !.from = OrdinalOf(items, i),
                                                    !.type = TypeAt(items[i].type),
                                                    !.name = items[i].name]
      BY <1>2, <2>3 DEF Imported
    <3>2. OrdinalOf(items, i) = k
      BY <1>3, <2>3
    <3>3. DOMAIN m.functions[k] = DOMAIN NoFunction
      BY <1>1 DEF HoldsFunctions
    <3> HIDE DEF i
    <3>4. new.functions[k].from = k
      BY <3>1, <3>2, <3>3, FunctionFields
    <3> QED BY <3>4
  <2> QED BY <2>2, <2>3
<1>5. DOMAIN new.functions = DOMAIN m.functions
  BY <1>2 DEF Imported
<1> QED BY <1>4, <1>5 DEF InPlace, new

(* load_import_section.                                                    *)
LEMMA ImportsLinked ==
  ASSUME Possession, Linking, LoadImportSection
  PROVE  Linking'
<1> DEFINE items == file.sections[pos].items
           S == {n \in DOMAIN items : \A i \in 1..n : ImportReadable(items[i])}
           n == Max({0} \cup S)
<1>1. Section("import")
  BY DEF LoadImportSection
<1>2. pc \notin Executing /\ Len(items) \in Nat /\ DOMAIN items = 1 .. Len(items)
  BY <1>1, InSection DEF Section, Executing, Counted
<1>3. \/ Rejected(m, {}) \/ Undefined("import slots")
      \/ Rejected(WithImports(items, n), {}) \/ Loaded(WithImports(items, n), {})
  BY DEF LoadImportSection
<1>4. n \in 0 .. Len(items)
  <2>1. S \in SUBSET (1 .. Len(items))
    BY <1>2
  <2> HIDE DEF S
  <2> QED BY <1>2, <2>1, LongestPrefix
<1> HIDE DEF n
<1>5. InPlace(WithImports(items, n))
  BY <1>1, <1>4, ImportsPlaced
<1> QED BY <1>2, <1>3, <1>5, SamePlaces, StepLinked, UndefinedLinked

(* load_function_section and load_code_section write other fields.         *)
LEMMA BodiesLinked ==
  ASSUME Possession, Linking, LoadFunctionSection \/ LoadCodeSection
  PROVE  Linking'
<1> DEFINE items == file.sections[pos].items
           base == m.imports["func"]
<1>1. \E id : Section(id)
  BY DEF LoadFunctionSection, LoadCodeSection
<1>2. /\ pc \notin Executing /\ DOMAIN m = DOMAIN NewModule
      /\ \A k \in DOMAIN m.functions : DOMAIN m.functions[k] = DOMAIN NoFunction
  BY <1>1, InSection DEF Executing, Holdings, HoldsFunctions
<1>3. CASE LoadFunctionSection
  <2> DEFINE known == Max({0} \cup {n \in DOMAIN items : \A i \in 1..n : TypeKnown(items[i])})
             new == [m EXCEPT !.functions = [k \in DOMAIN @ |->
                      IF k - base \in 1..known
                      THEN [@[k] EXCEPT !.type = TypeAt(items[k - base]),
                                        !.params = Len(TypeOf(TypeAt(items[k - base])).param)]
                      ELSE @[k]]]
  <2>1. \/ Rejected(m, {}) \/ Undefined("function slots") \/ Rejected(new, {}) \/ Loaded(new, {})
    BY <1>3 DEF LoadFunctionSection
  <2>2. /\ DOMAIN new.functions = DOMAIN m.functions
        /\ \A k \in DOMAIN m.functions :
             \/ new.functions[k] = m.functions[k]
             \/ \E type, params :
                  new.functions[k] = [m.functions[k] EXCEPT !.type = type, !.params = params]
    <3> HIDE DEF known, items
    <3> QED BY <1>2, ModuleFields
  <2> HIDE DEF new
  <2>3. \A k \in DOMAIN m.functions : new.functions[k].from = m.functions[k].from
    BY <1>2, <2>2, FunctionFields
  <2>4. InPlace(new)
    BY <2>2, <2>3, PlacesKept
  <2> QED BY <1>2, <2>1, <2>4, SamePlaces, StepLinked, UndefinedLinked
<1>4. CASE LoadCodeSection
  <2> DEFINE Types(i) == IF items[i].locals > 0 THEN <<"locals", pos, i>> ELSE Null
             Offsets(i) == IF items[i].locals + m.functions[base + i].params > 0
                           THEN <<"offsets", pos, i>> ELSE Null
             Mod(n) == [m EXCEPT !.functions = [k \in DOMAIN @ |->
                         IF k - base \in 1..n
                         THEN [@[k] EXCEPT !.types = Types(k - base),
                                           !.offsets = Offsets(k - base),
                                           !.room = m.functions[k].params,
                                           !.verdict = items[k - base].verdict,
                                           !.branches = items[k - base].branches]
                         ELSE @[k]]]
  <2>1. \/ Rejected(m, {})
        \/ \E n, blocks : Loaded(Mod(n), blocks) \/ Rejected(Mod(n), blocks)
    BY <1>4 DEF LoadCodeSection
  <2>2. ASSUME NEW n
        PROVE  /\ DOMAIN Mod(n).functions = DOMAIN m.functions
               /\ \A k \in DOMAIN m.functions :
                    \/ Mod(n).functions[k] = m.functions[k]
                    \/ \E types, offsets, room, verdict, branches :
                         Mod(n).functions[k] =
                           [m.functions[k] EXCEPT !.types = types, !.offsets = offsets,
                              !.room = room, !.verdict = verdict, !.branches = branches]
    <3> HIDE DEF Types, Offsets
    <3> QED BY <1>2, ModuleFields
  <2> HIDE DEF Mod
  <2>3. ASSUME NEW n PROVE InPlace(Mod(n))
    <3>1. ASSUME NEW k \in DOMAIN m.functions
          PROVE  Mod(n).functions[k].from = m.functions[k].from
      <4>1. DOMAIN m.functions[k] = DOMAIN NoFunction
        BY <1>2
      <4>2. CASE Mod(n).functions[k] = m.functions[k]
        BY <4>2
      <4>3. CASE Mod(n).functions[k] # m.functions[k]
        <5>1. PICK types, offsets, room, verdict, branches :
                Mod(n).functions[k] =
                  [m.functions[k] EXCEPT !.types = types, !.offsets = offsets,
                     !.room = room, !.verdict = verdict, !.branches = branches]
          BY <2>2, <4>3
        <5> QED BY <4>1, <5>1, FunctionFields
      <4> QED BY <4>2, <4>3
    <3> QED BY <2>2, <3>1, PlacesKept
  <2> QED BY <1>2, <2>1, <2>3, SamePlaces, StepLinked
<1> QED BY <1>3, <1>4

(* The other sections leave the functions alone.                           *)
LEMMA SectionsLinked ==
  ASSUME Possession, Linking, LoadSection
  PROVE  Linking'
<1> DEFINE items == file.sections[pos].items
<1>1. pc = "sections" /\ pc \notin Executing
  BY LoadSectionPassed DEF Executing
<1>2. DOMAIN m = DOMAIN NewModule
  BY <1>1, SlotsHeld DEF Final, Over, Early
<1>3. ASSUME \E what : Undefined(what) PROVE Linking'
  BY <1>3, UndefinedLinked
<1>4. ASSUME NEW new, new.functions = m.functions,
             \E blocks : Loaded(new, blocks) \/ Rejected(new, blocks) \/ Exhausted(new, blocks)
      PROVE  Linking'
  BY <1>1, <1>4, SamePlaces, StepLinked
<1>5. CASE LoadTypeSection
  <2> DEFINE New(t, r, b) == [m EXCEPT !.types = t, !.refs = r, !.typesBlock = b]
  <2>1. \/ \E blocks : Loaded(m, blocks) \/ Rejected(m, blocks) \/ Exhausted(m, blocks)
        \/ \E t, r, b, blocks : Loaded(New(t, r, b), blocks)
    BY <1>5 DEF LoadTypeSection
  <2>2. \A t, r, b : New(t, r, b).functions = m.functions
    BY <1>2, ModuleFields
  <2> HIDE DEF New
  <2> QED BY <1>4, <2>1, <2>2
<1>6. CASE LoadMemorySection
  <2>1. \/ Rejected(m, {}) \/ Undefined("memory slots") \/ Loaded(m, {})
        \/ Loaded([m EXCEPT !.pages = Last(items)], {})
    BY <1>6 DEF LoadMemorySection
  <2>2. [m EXCEPT !.pages = Last(items)].functions = m.functions
    BY <1>2, ModuleFields
  <2> QED BY <1>3, <1>4, <2>1, <2>2
<1>7. CASE LoadGlobalSection
  <2> DEFINE New(g) == [m EXCEPT !.globals = g]
  <2>1. \/ \E what : Undefined(what)
        \/ Rejected(m, {})
        \/ \E g : Loaded(New(g), {}) \/ Rejected(New(g), {})
    BY <1>7, Zenon DEF LoadGlobalSection
  <2>2. \A g : New(g).functions = m.functions
    BY <1>2, ModuleFields
  <2> HIDE DEF New
  <2> QED BY <1>3, <1>4, <2>1, <2>2
<1>8. CASE LoadExportSection
  <2> DEFINE New(b) == [m EXCEPT !.exports = items, !.exportsBlock = b]
  <2>1. \/ \E blocks : Loaded(m, blocks) \/ Rejected(m, blocks) \/ Exhausted(m, blocks)
        \/ \E b, blocks : Loaded(New(b), blocks)
    BY <1>8 DEF LoadExportSection
  <2>2. \A b : New(b).functions = m.functions
    BY <1>2, ModuleFields
  <2> HIDE DEF New
  <2> QED BY <1>4, <2>1, <2>2
<1>9. CASE LoadStartSection
  <2>1. Rejected(m, {}) \/ Loaded([m EXCEPT !.start = items[1]], {})
    BY <1>9 DEF LoadStartSection
  <2>2. [m EXCEPT !.start = items[1]].functions = m.functions
    BY <1>2, ModuleFields
  <2> QED BY <1>4, <2>1, <2>2
<1>10. CASE LoadElementSection
  <2> DEFINE New(e, b) == [m EXCEPT !.elements = e, !.elementsBlock = b]
  <2>1. \/ \E blocks : Loaded(m, blocks) \/ Rejected(m, blocks) \/ Exhausted(m, blocks)
        \/ \E e, b, blocks : Loaded(New(e, b), blocks)
    BY <1>10 DEF LoadElementSection
  <2>2. \A e, b : New(e, b).functions = m.functions
    BY <1>2, ModuleFields
  <2> HIDE DEF New
  <2> QED BY <1>4, <2>1, <2>2
<1>11. CASE LoadDataSection
  <2> DEFINE new == [m EXCEPT !.data = items, !.dataBlock = <<"data", pos>>]
             none == [new EXCEPT !.dataBlock = Null]
  <2>1. \/ \E blocks : Loaded(m, blocks) \/ Rejected(m, blocks)
        \/ \E blocks : Loaded(new, blocks) \/ Rejected(new, blocks)
        \/ \E blocks : Rejected(none, blocks)
    BY <1>11 DEF LoadDataSection
  <2>2. new.functions = m.functions /\ none.functions = m.functions
    BY <1>2, ModuleFields
  <2> HIDE DEF new, none
  <2> QED BY <1>4, <2>1, <2>2
<1>12. CASE LoadTableSection \/ SkipSection
  <2>1. \/ \E what : Undefined(what)
        \/ \E blocks : Loaded(m, blocks) \/ Rejected(m, blocks)
    BY <1>12 DEF LoadTableSection, SkipSection
  <2> QED BY <1>3, <1>4, <2>1
<1>13. CASE LoaderDone
  <2>1. Goto("validate", m, {}) /\ "validate" \notin Executing
    BY <1>13 DEF LoaderDone, Executing
  <2> QED BY <2>1, SamePlaces, StepLinked
<1> QED BY <1>5, <1>6, <1>7, <1>8, <1>9, <1>10, <1>11, <1>12, <1>13, ImportsLinked, BodiesLinked
        DEF LoadSection

(* The validator writes the branch tables of the functions.                *)
LEMMA ValidationLinked ==
  ASSUME Possession, Linking,
         StartValidator \/ ValidateSerially \/ JoinThreads \/ \E t \in Threads : ThreadStep(t)
  PROVE  Linking'
<1>0. /\ pc \in {"validate", "join", "serial"}
  BY DEF StartValidator, ValidateSerially, JoinThreads, ThreadStep, ValidateBody, ThreadExit
<1>1. /\ DOMAIN m = DOMAIN NewModule
      /\ \A k \in DOMAIN m.functions : DOMAIN m.functions[k] = DOMAIN NoFunction
  BY <1>0, SlotsHeld DEF Final, Over, Early, Holdings, HoldsFunctions
<1>2. /\ "globals" \notin Executing /\ "fail" \notin Executing /\ "join" \notin Executing
      /\ "serial" \notin Executing /\ pc \notin Executing
  BY <1>0 DEF Executing
<1>3. ASSUME NEW k, Accept(k) PROVE InPlace(m')
  <2>1. PICK b : m' = [m EXCEPT !.functions[k].table = b]
    BY <1>3 DEF Accept
  <2>2. m'.functions = [m.functions EXCEPT ![k] = [m.functions[k] EXCEPT !.table = b]]
    BY <1>1, <2>1, ModuleFields
  <2>3. DOMAIN m'.functions = DOMAIN m.functions
    BY <2>2
  <2>4. \A j \in DOMAIN m.functions : m'.functions[j].from = m.functions[j].from
    BY <1>1, <2>2, FunctionFields
  <2> QED BY <2>3, <2>4, PlacesKept
<1>4. ASSUME NEW k, Accept(k) \/ Reject(k), natives' = natives, pc' \notin Executing PROVE Linking'
  BY <1>3, <1>4, SamePlaces, LinkingKept DEF Reject
<1>5. ASSUME NEW k, Unusable(k) PROVE Linking'
  BY <1>5, UndefinedLinked DEF Unusable
<1>6. CASE StartValidator
  <2> DEFINE mod == [m EXCEPT !.stage = "Validate"]
  <2>1. \/ Rejected(mod, {}) \/ \E what : Undefined(what)
        \/ m' = mod /\ natives' = natives /\ pc' \in {"serial", "join"}
    BY <1>6 DEF StartValidator
  <2>2. mod.functions = m.functions
    BY <1>1, ModuleFields
  <2> HIDE DEF mod
  <2> QED BY <1>2, <2>1, <2>2, SamePlaces, StepLinked, UndefinedLinked, LinkingKept
<1>7. CASE ValidateSerially
  <2> DEFINE k == Base + threads[0].next + 1
  <2>1. \/ Goto("globals", m, {}) \/ Unusable(k)
        \/ (Accept(k) \/ Reject(k)) /\ natives' = natives /\ pc' \in {pc, "fail"}
    BY <1>7 DEF ValidateSerially
  <2> HIDE DEF k
  <2> QED BY <1>2, <1>4, <1>5, <2>1, SamePlaces, StepLinked
<1>8. CASE JoinThreads
  BY <1>2, <1>8, SamePlaces, StepLinked DEF JoinThreads
<1>9. CASE \E t \in Threads : ThreadStep(t)
  <2>1. PICK t \in Threads : ValidateBody(t) \/ ThreadExit(t)
    BY <1>9 DEF ThreadStep
  <2> DEFINE k == Base + threads[t].next + 1
  <2>2. \/ Unusable(k)
        \/ (Accept(k) \/ Reject(k)) /\ natives' = natives /\ pc' = pc
        \/ m' = m /\ natives' = natives /\ pc' = pc
    BY <2>1 DEF ValidateBody, ThreadExit
  <2> HIDE DEF k
  <2> QED BY <1>2, <1>4, <1>5, <2>2, SamePlaces, LinkingKept
<1> QED BY <1>6, <1>7, <1>8, <1>9

(* wasm_instantiate up to the functions.                                   *)
LEMMA InstanceLinked ==
  ASSUME Possession, Linking,
         GlobalsInstantiate \/ MemoriesInstantiate \/ TablesInstantiate \/ ExportInstantiate
  PROVE  Linking'
<1>1. pc \in {"globals", "memories", "tables", "exports"}
  BY DEF GlobalsInstantiate, MemoriesInstantiate, TablesInstantiate, ExportInstantiate
<1>2. DOMAIN m = DOMAIN NewModule
  BY <1>1, SlotsHeld DEF Final, Over, Early
<1>3. /\ "memories" \notin Executing /\ "tables" \notin Executing
      /\ "exports" \notin Executing /\ "functions" \notin Executing
  BY DEF Executing
<1>4. ASSUME \E what : Undefined(what) PROVE Linking'
  BY <1>4, UndefinedLinked
<1>5. ASSUME NEW new, new.functions = m.functions,
             \/ \E blocks : Rejected(new, blocks)
             \/ \E blocks : \E next \in {"memories", "tables", "exports", "functions"} :
                  Goto(next, new, blocks)
      PROVE  Linking'
  BY <1>3, <1>5, SamePlaces, StepLinked
<1>6. CASE GlobalsInstantiate
  <2> DEFINE staged == [m EXCEPT !.stage = "Instantiate"]
             done(n, b) == [staged EXCEPT !.counts["global"] = n, !.globalData = b]
  <2>1. \/ \E what : Undefined(what)
        \/ Rejected(staged, {})
        \/ \E n, b, blocks : Goto("memories", done(n, b), blocks)
    BY <1>6 DEF GlobalsInstantiate
  <2>2. staged.functions = m.functions /\ \A n, b : done(n, b).functions = m.functions
    BY <1>2, ModuleFields
  <2> HIDE DEF staged, done
  <2> QED BY <1>4, <1>5, <2>1, <2>2
<1>7. CASE MemoriesInstantiate
  <2> DEFINE done(n, b) == [m EXCEPT !.counts["memory"] = n, !.memoryData = b]
  <2>1. \/ \E what : Undefined(what)
        \/ Rejected(m, {})
        \/ \E n, b, blocks : Goto("tables", done(n, b), blocks)
    BY <1>7 DEF MemoriesInstantiate
  <2>2. \A n, b : done(n, b).functions = m.functions
    BY <1>2, ModuleFields
  <2> HIDE DEF done
  <2> QED BY <1>4, <1>5, <2>1, <2>2
<1>8. CASE TablesInstantiate
  <2> DEFINE Data(d) == [m EXCEPT !.tableData = d]
             done(d) == [Data(d) EXCEPT !.counts["table"] = m.tables]
  <2>1. \/ \E what : Undefined(what)
        \/ \E d, blocks : Rejected(Data(d), blocks)
        \/ \E d, blocks : Goto("exports", done(d), blocks)
    BY <1>8, Zenon DEF TablesInstantiate
  <2>2. \A d : Data(d).functions = m.functions /\ done(d).functions = m.functions
    BY <1>2, ModuleFields
  <2> HIDE DEF Data, done
  <2> QED BY <1>4, <1>5, <2>1, <2>2
<1>9. CASE ExportInstantiate
  <2> DEFINE done == [m EXCEPT !.exportFuncs = <<"export_functions">>]
  <2>1. Rejected(m, {}) \/ \E blocks : Goto("functions", done, blocks)
    BY <1>9 DEF ExportInstantiate
  <2>2. done.functions = m.functions
    BY <1>2, ModuleFields
  <2> HIDE DEF done
  <2> QED BY <1>5, <2>1, <2>2
<1> QED BY <1>6, <1>7, <1>8, <1>9

(* A symbol that is resolved is one of the source, of the name and with a  *)
(* signature that fits.                                                    *)
LEMMA ResolvedSymbol ==
  ASSUME Linking, NEW nodes, NEW name, NEW type, Resolves(natives.table, nodes, name, type)
  PROVE  \E n \in DOMAIN Symbols :
           Symbols[n].name = name /\ CheckSymbolSignature(type, Symbols[n].sig)
<1> DEFINE table == natives.table
           k == LookupSymbol(table, name)
<1>1. k # 0 /\ CheckSymbolSignature(type, table[k].sig)
  BY Zenon DEF Resolves
<1>2. table \in SymbolTables /\ ToSet(table) \subseteq ToSet(Symbols)
  BY DEF Linking
<1> HIDE DEF table
<1>3. Len(table) \in Nat /\ \A i \in 1 .. Len(table) : table[i] \in ToSet(table)
  BY <1>2, TableShape
<1>4. k \in 1 .. Len(table) /\ table[k].name = name
  BY <1>1, <1>3, LookupFinds
<1> HIDE DEF k
<1>5. PICK n \in DOMAIN Symbols : Symbols[n] = table[k]
  BY <1>2, <1>3, <1>4 DEF ToSet
<1>6. Symbols[n].name = name /\ CheckSymbolSignature(type, Symbols[n].sig)
  BY <1>1, <1>4, <1>5
<1> QED BY <1>6

(* The links are those of the functions and the file.                      *)
LEMMA LinksKept ==
  ASSUME m'.functions = m.functions, m'.imports = m.imports, file' = file,
         \A k \in 1 .. Base : LinkedTo(m, k)
  PROVE  (\A k \in 1 .. Base : LinkedTo(m, k))'
<1>1. Base' = Base
  BY DEF Base
<1>2. ASSUME NEW k \in 1 .. Base PROVE LinkedTo(m, k)'
  <2>1. TypeOf(m.functions[k].type)' = TypeOf(m.functions[k].type)
    BY DEF TypeOf
  <2>2. PICK n \in DOMAIN Symbols :
          /\ Symbols[n].name = m.functions[k].name
          /\ CheckSymbolSignature(TypeOf(m.functions[k].type), Symbols[n].sig)
    BY DEF LinkedTo
  <2>3. CheckSymbolSignature(TypeOf(m.functions[k].type), Symbols[n].sig)'
    BY <2>1, <2>2, Zenon
  <2>4. m.functions[k].from = k
    BY DEF LinkedTo
  <2> QED BY <2>2, <2>3, <2>4 DEF LinkedTo
<1> QED BY <1>1, <1>2

(* functions_instantiate goes on when every import is linked.              *)
LEMMA FunctionsLinked ==
  ASSUME Possession, Accounting, Linking, FunctionsInstantiate
  PROVE  Linking'
<1> DEFINE Linked(k) == Resolves(natives.table, natives.nodes, m.functions[k].name,
                                 TypeOf(m.functions[k].type))
           bad == {k \in 1..Base : m.functions[k].from = 0 \/ ~Linked(k)}
           new == [m EXCEPT !.counts["func"] = @ + Base]
<1>1. pc = "functions" /\ pc \notin Final /\ pc # "undefined" /\ pc \in BeforeWasi
  BY DEF FunctionsInstantiate, Final, Over, Early, BeforeWasi
<1>2. /\ DOMAIN m = DOMAIN NewModule /\ Numbers(m)
      /\ DOMAIN m.functions = 1 .. m.imports["func"] + m.counts["func"]
  BY <1>1, Accounted DEF InPhase
<1>3. Rejected(m, {}) \/ Undefined("function slots") \/ (bad = {} /\ Goto("wasi", new, {}))
  BY DEF FunctionsInstantiate
<1>4. /\ new.functions = m.functions /\ new.imports = m.imports
  BY <1>2, ModuleFields
<1> HIDE DEF new
<1>5. CASE bad = {} /\ Goto("wasi", new, {})
  <2>1. m' = new /\ natives' = natives /\ file' = file
    BY <1>5 DEF Goto, Untouched
  <2>2. ASSUME NEW k \in 1 .. Base PROVE LinkedTo(m, k)
    <3>1. k \in DOMAIN m.functions
      BY <1>2 DEF Base, Numbers
    <3>2. m.functions[k].from = k
      BY <1>5, <3>1 DEF Linking, InPlace
    <3>3. Resolves(natives.table, natives.nodes, m.functions[k].name, TypeOf(m.functions[k].type))
      BY <1>5
    <3>5. \E n \in DOMAIN Symbols :
            /\ Symbols[n].name = m.functions[k].name
            /\ CheckSymbolSignature(TypeOf(m.functions[k].type), Symbols[n].sig)
      BY <3>3, ResolvedSymbol
    <3> QED BY <3>2, <3>5 DEF LinkedTo
  <2>3. InPlace(m)'
    BY <1>4, <2>1 DEF Linking, InPlace
  <2>4. (\A k \in 1 .. Base : LinkedTo(m, k))'
    BY <1>4, <2>1, <2>2, LinksKept
  <2> QED BY <2>1, <2>3, <2>4 DEF Linking
<1> QED BY <1>3, <1>5, SamePlaces, StepLinked, UndefinedLinked

(* wasm_runtime_wasi_init and what follows it leave the links as they are. *)
LEMMA ExecutionLinked ==
  ASSUME Possession, Linking, WasiInit \/ ExecuteMain \/ Return \/ Fail \/ Destroy
  PROVE  Linking'
<1>1. CASE Return \/ Fail \/ Destroy
  <2>1. natives' = natives /\ pc' \notin Executing
    BY <1>1 DEF Return, Fail, Destroy, Undefined, Untouched, Executing
  <2>2. CASE m' = m
    BY <2>1, <2>2, SamePlaces, LinkingKept
  <2>3. CASE Return /\ m' = [m EXCEPT !.memoryData = <<"memory_data">>]
    <3>1. DOMAIN m = DOMAIN NewModule
      BY <2>3, SlotsHeld DEF Return, Final, Over, Early
    <3>2. m'.functions = m.functions
      BY <2>3, <3>1, ModuleFields
    <3> QED BY <2>1, <3>2, SamePlaces, LinkingKept
  <2> QED BY <1>1, <2>2, <2>3 DEF Return, Fail, Destroy, Undefined, Untouched
<1>2. CASE WasiInit \/ ExecuteMain
  <2> DEFINE mod == [m EXCEPT !.wasi = <<"wasi_ctx">>]
  <2>1. pc \in {"wasi", "execute"} /\ pc \in Executing
    BY <1>2 DEF WasiInit, ExecuteMain, Executing
  <2>2. DOMAIN m = DOMAIN NewModule
    BY <2>1, SlotsHeld DEF Final, Over, Early
  <2>3. /\ m' \in {m, mod} /\ natives' = natives /\ file' = file
    BY <1>2 DEF WasiInit, ExecuteMain, Goto, Rejected, Exhausted, Untouched
  <2>4. mod.functions = m.functions /\ mod.imports = m.imports
    BY <2>2, ModuleFields
  <2> HIDE DEF mod
  <2>5. m'.functions = m.functions /\ m'.imports = m.imports
    BY <2>3, <2>4
  <2>6. \A k \in 1 .. Base : LinkedTo(m, k)
    BY <2>1 DEF Linking
  <2>7. (\A k \in 1 .. Base : LinkedTo(m, k))'
    BY <2>3, <2>5, <2>6, LinksKept
  <2>8. InPlace(m)'
    BY <2>5 DEF Linking, InPlace
  <2> QED BY <2>3, <2>7, <2>8 DEF Linking
<1> QED BY <1>1, <1>2

(* The links at the start ...                                              *)
LEMMA InitLinking == Init => Linking
<1> SUFFICES ASSUME Init PROVE Linking
  OBVIOUS
<1>1. natives.table = Symbols /\ m = NewModule /\ pc \notin Executing
  BY DEF Init, Executing
<1>2. Symbols \in SymbolTables
  BY LoaderAssumption
<1>3. InPlace(m)
  BY <1>1 DEF NewModule, InPlace
<1> QED BY <1>1, <1>2, <1>3 DEF Linking

(* ... and after every step.                                               *)
LEMMA NextLinked ==
  ASSUME Possession, Accounting, Linking, [Next]_vars
  PROVE  Linking'
<1>1. CASE InitEnv \/ Options \/ ReadFile \/ CreateModule
  BY <1>1, EarlyLinked
<1>2. CASE InitLoad
  BY <1>2, InitLoadLinked
<1>3. CASE LoadSection
  BY <1>3, SectionsLinked
<1>4. CASE StartValidator \/ ValidateSerially \/ JoinThreads \/ \E t \in Threads : ThreadStep(t)
  BY <1>4, ValidationLinked
<1>5. CASE Instantiate
  BY <1>5, InstanceLinked, FunctionsLinked DEF Instantiate
<1>6. CASE WasiInit \/ ExecuteMain \/ Return \/ Fail \/ Destroy
  BY <1>6, ExecutionLinked
<1>7. CASE UNCHANGED vars
  <2>1. m' = m /\ natives' = natives /\ pc' = pc /\ file' = file
    BY <1>7 DEF vars
  <2>2. InPlace(m)' <=> InPlace(m)
    BY <2>1 DEF InPlace
  <2>3. (\A k \in 1 .. Base : LinkedTo(m, k))' <=> \A k \in 1 .. Base : LinkedTo(m, k)
    BY <2>1 DEF Base, LinkedTo, TypeOf
  <2> QED BY <2>1, <2>2, <2>3 DEF Linking
<1> QED BY <1>1, <1>2, <1>3, <1>4, <1>5, <1>6, <1>7 DEF Next, Main

(* Whatever the file and the table of native functions are: when the       *)
(* program runs, each import of a function sits in its slot and is linked  *)
(* to a native function of its name whose signature fits, although the     *)
(* table was sorted and is searched by halves, and whether or not its      *)
(* names differ.                                                           *)
THEOREM ImportsResolved == Spec => []LinkedImports
<1>1. Init => Possession /\ Judgement /\ Accounting /\ Turns /\ Linking
  BY InitPossession, InitJudgement, InitAccounting, InitLinking
<1>2. (Possession /\ Judgement /\ Accounting /\ Turns /\ Linking) /\ [Next]_vars
        => (Possession /\ Judgement /\ Accounting /\ Turns /\ Linking)'
  BY NextKept, NextJudged, NextAccounted, NextTurned, NextLinked
<1>3. Possession /\ Judgement /\ Accounting /\ Turns /\ Linking => LinkedImports
  BY DEF Linking, LinkedImports, LinkedTo, Executing
<1> QED BY <1>1, <1>2, <1>3, PTL DEF Spec
=============================================================================
