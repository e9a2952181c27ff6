--------------------------- MODULE LifecycleProofs ---------------------------
(***************************************************************************)
(* The life of a module, for all files, all tables of native functions and *)
(* any number of threads: no block is freed twice, nor one that is not     *)
(* allocated, but for the memory that memory.grow has freed; the exit code *)
(* 0 means that all bodies were accepted; and a regular file meets         *)
(* undefined behaviour in four places only.                                *)
(***************************************************************************)
EXTENDS LifecycleProperties, SequenceProofs, TLAPS

----------------------------------------------------------------------------
(* What a module owns                                                      *)

(* A sequence, whatever its elements are.                                  *)
Counted(s) == Len(s) \in Nat /\ DOMAIN s = 1 .. Len(s)

(* A slot is empty or names an allocated block of its kind.                *)
Holds(b, tag, h) == b = Null \/ (b \in h /\ b[1] = tag)

(* The entries of a shared type are as many as its count says.             *)
HoldsTypes(mod, h) ==
  /\ Counted(mod.types)
  /\ \A i \in DOMAIN mod.types :
       /\ mod.types[i] \in h /\ mod.types[i][1] = "type"
       /\ mod.refs[mod.types[i]] =
            Cardinality({j \in DOMAIN mod.types : mod.types[j] = mod.types[i]})

(* The arrays that a section allocates as a whole.                         *)
HoldsSections(mod, h) ==
  /\ Holds(mod.typesBlock, "types", h)
  /\ Holds(mod.exportsBlock, "exports", h)
  /\ Holds(mod.elementsBlock, "elements", h)
  /\ Holds(mod.dataBlock, "data", h)

(* The arrays of slots.                                                    *)
HoldsArrays(mod, h) ==
  /\ mod.arrays \subseteq h
  /\ mod.stage # "Load" => <<"functions">> \in mod.arrays

(* The blocks of function k name k: no two functions own the same one.     *)
HoldsFunctions(mod, h) ==
  /\ mod.imports["func"] \in Nat
  /\ Counted(mod.functions)
  /\ \A k \in DOMAIN mod.functions :
       LET f == mod.functions[k]
       IN  /\ DOMAIN f = DOMAIN NoFunction
           /\ f.table = Null \/ (f.table = <<"branches", k>> /\ f.table \in h)
           /\ Holds(f.offsets, "offsets", h) /\ (f.offsets # Null => f.offsets[3] = k - mod.imports["func"])
           /\ Holds(f.types, "locals", h) /\ (f.types # Null => f.types[3] = k - mod.imports["func"])

(* The data of the tables.                                                 *)
HoldsTables(mod, h) ==
  /\ DOMAIN mod.counts = ImportKinds
  /\ mod.tables \in Nat /\ Counted(mod.tableData) /\ Len(mod.tableData) = mod.tables
  /\ mod.counts["table"] \in 0 .. mod.tables
  /\ \A i \in DOMAIN mod.tableData :
       mod.tableData[i] = Null \/ (mod.tableData[i] = <<"table_data", i>> /\ mod.tableData[i] \in h)

(* The indexes of the elements.                                            *)
HoldsElements(mod, h) ==
  /\ Counted(mod.elements)
  /\ \A e \in DOMAIN mod.elements :
       LET b == mod.elements[e].block
       IN  Holds(b, "indexes", h) /\ (b # Null => b[3] = e)

(* What the instance owns.                                                 *)
HoldsInstance(mod, h) ==
  /\ Holds(mod.globalData, "global_data", h)
  /\ Holds(mod.memoryData, "memory_data", h)
  /\ Holds(mod.exportFuncs, "export_functions", h)
  /\ Holds(mod.wasi, "wasi_ctx", h)

Holdings(mod, h) ==
  /\ DOMAIN mod = DOMAIN NewModule
  /\ HoldsTypes(mod, h) /\ HoldsSections(mod, h) /\ HoldsArrays(mod, h)
  /\ HoldsFunctions(mod, h) /\ HoldsTables(mod, h) /\ HoldsElements(mod, h)
  /\ HoldsInstance(mod, h)

(* Before there is a module, and while its arrays of slots exist.          *)
Early == {"init_env", "options", "read", "create"}
WithSlots == {"sections", "validate", "join", "serial", "globals", "memories", "tables",
              "exports", "functions", "wasi", "execute", "running"}

(* The memory, which the program may have freed once it was run: the       *)
(* module names it still.                                                  *)
Lost == IF pc \in {"fail", "destroy", "undefined"} /\ <<"stack">> \in heap
        THEN {<<"memory_data">>} ELSE {}
Known == heap \cup Lost

(* The inductive invariant: the module owns what its slots name, as far as *)
(* main has come, but for the memory; and nothing was freed wrongly.       *)
Possession ==
  /\ file \in Files
  /\ pc \in Early \cup {"header"} => m = NewModule
  /\ pc = "create" => <<"file">> \in heap
  /\ pc \notin Early \cup {"exited"} =>
       Holdings(m, Known) /\ {<<"module">>, <<"file">>} \subseteq heap
  /\ pc \in WithSlots => <<"functions">> \in m.arrays
  /\ pc = "running" => <<"stack">> \in heap
  /\ pc # "undefined" => fault # "free"
  /\ FreedOnce

(* Two modules that differ at most in some fields.                         *)
Agree(new, mod, changed) ==
  /\ DOMAIN new = DOMAIN mod
  /\ \A f \in DOMAIN mod \ changed : new[f] = mod[f]

(* The fields of a WASMModule.                                             *)
LEMMA ModuleFields ==
  DOMAIN NewModule =
    {"stage", "start", "imports", "counts", "arrays", "functions", "globals", "tables", "pages",
     "types", "refs", "typesBlock", "exports", "exportsBlock", "elements", "elementsBlock",
     "data", "dataBlock", "globalData", "memoryData", "tableData", "exportFuncs", "wasi"}
BY DEF NewModule

(* What a module owns is still owned after a step that allocates more and  *)
(* leaves the fields a part of the description reads alone.                *)
LEMMA HoldingsKept ==
  ASSUME NEW mod, NEW new, NEW h, NEW g, NEW changed,
         Holdings(mod, h), h \subseteq g, Agree(new, mod, changed)
  PROVE  /\ DOMAIN new = DOMAIN NewModule
         /\ {"types", "refs"} \cap changed = {} => HoldsTypes(new, g)
         /\ {"typesBlock", "exportsBlock", "elementsBlock", "dataBlock"} \cap changed = {}
              => HoldsSections(new, g)
         /\ {"arrays", "stage"} \cap changed = {} => HoldsArrays(new, g)
         /\ {"functions", "imports"} \cap changed = {} => HoldsFunctions(new, g)
         /\ {"counts", "tables", "tableData"} \cap changed = {} => HoldsTables(new, g)
         /\ {"elements"} \cap changed = {} => HoldsElements(new, g)
         /\ {"globalData", "memoryData", "exportFuncs", "wasi"} \cap changed = {}
              => HoldsInstance(new, g)
<1>1. DOMAIN new = DOMAIN NewModule
  BY DEF Agree, Holdings
<1>2. ASSUME {"types", "refs"} \cap changed = {} PROVE HoldsTypes(new, g)
  <2>1. new.types = mod.types /\ new.refs = mod.refs
    BY <1>2, ModuleFields DEF Agree, Holdings
  <2> QED BY <2>1 DEF Holdings, HoldsTypes
<1>3. ASSUME {"typesBlock", "exportsBlock", "elementsBlock", "dataBlock"} \cap changed = {}
      PROVE  HoldsSections(new, g)
  <2>1. /\ new.typesBlock = mod.typesBlock /\ new.exportsBlock = mod.exportsBlock
        /\ new.elementsBlock = mod.elementsBlock /\ new.dataBlock = mod.dataBlock
    BY <1>3, ModuleFields DEF Agree, Holdings
  <2> QED BY <2>1 DEF Holdings, HoldsSections, Holds
<1>4. ASSUME {"arrays", "stage"} \cap changed = {} PROVE HoldsArrays(new, g)
  <2>1. new.arrays = mod.arrays /\ new.stage = mod.stage
    BY <1>4, ModuleFields DEF Agree, Holdings
  <2> QED BY <2>1 DEF Holdings, HoldsArrays
<1>5. ASSUME {"functions", "imports"} \cap changed = {} PROVE HoldsFunctions(new, g)
  <2>1. new.functions = mod.functions /\ new.imports = mod.imports
    BY <1>5, ModuleFields DEF Agree, Holdings
  <2> QED BY <2>1 DEF Holdings, HoldsFunctions, Holds
<1>6. ASSUME {"counts", "tables", "tableData"} \cap changed = {} PROVE HoldsTables(new, g)
  <2>1. new.counts = mod.counts /\ new.tables = mod.tables /\ new.tableData = mod.tableData
    BY <1>6, ModuleFields DEF Agree, Holdings
  <2> QED BY <2>1 DEF Holdings, HoldsTables
<1>7. ASSUME {"elements"} \cap changed = {} PROVE HoldsElements(new, g)
  <2>1. new.elements = mod.elements
    BY <1>7, ModuleFields DEF Agree, Holdings
  <2> QED BY <2>1 DEF Holdings, HoldsElements, Holds
<1>8. ASSUME {"globalData", "memoryData", "exportFuncs", "wasi"} \cap changed = {}
      PROVE  HoldsInstance(new, g)
  <2>1. /\ new.globalData = mod.globalData /\ new.memoryData = mod.memoryData
        /\ new.exportFuncs = mod.exportFuncs /\ new.wasi = mod.wasi
    BY <1>8, ModuleFields DEF Agree, Holdings
  <2> QED BY <2>1 DEF Holdings, HoldsInstance, Holds
<1> QED BY <1>1, <1>2, <1>3, <1>4, <1>5, <1>6, <1>7, <1>8

(* Where nothing is owned, and where the program may have been run.        *)
Over == Early \cup {"exited"}
Final == Over \cup {"fail", "destroy", "undefined"}

(* More blocks are allocated: the module owns what it owned.               *)
LEMMA SameHoldings ==
  ASSUME NEW mod, NEW h, NEW g, Holdings(mod, h), h \subseteq g
  PROVE  Holdings(mod, g)
<1>1. Agree(mod, mod, {})
  BY DEF Agree
<1> QED BY <1>1, HoldingsKept DEF Holdings

(* A step that keeps the module and the file, and after which the module   *)
(* owns what its slots name, keeps the invariant.                          *)
LEMMA StepKept ==
  ASSUME Possession, pc \notin Final, pc' \notin Over \cup {"header"}, file' = file,
         {<<"module">>, <<"file">>} \subseteq heap => {<<"module">>, <<"file">>} \subseteq heap',
         Holdings(m', Known'), pc' \in WithSlots => <<"functions">> \in m'.arrays,
         pc' = "running" => <<"stack">> \in heap', fault' # "free"
  PROVE  Possession'
BY DEF Possession, Final, Over, FreedOnce, Early

(* A step that frees nothing.                                              *)
LEMMA MoreKept ==
  ASSUME Possession, pc \notin Final, pc' \notin Over \cup {"header"}, file' = file, heap \subseteq heap',
         Holdings(m', heap'), pc' \in WithSlots => <<"functions">> \in m'.arrays,
         pc' = "running" => <<"stack">> \in heap', fault' # "free"
  PROVE  Possession'
<1>1. heap' \subseteq Known'
  BY DEF Known
<1>2. Holdings(m', Known')
  BY <1>1, SameHoldings
<1> QED BY <1>2, StepKept

(* main goes on.                                                           *)
LEMMA GotoKept ==
  ASSUME Possession, pc \notin Final, NEW next, next \notin Over \cup {"header"}, NEW mod, NEW blocks,
         Goto(next, mod, blocks), Holdings(mod, heap \cup blocks),
         next \in WithSlots => <<"functions">> \in mod.arrays,
         next = "running" => <<"stack">> \in blocks
  PROVE  Possession'
<1>1. fault # "free"
  BY DEF Possession, Final
<1> QED BY <1>1, MoreKept DEF Goto, Untouched

(* A check fails.                                                          *)
LEMMA RejectedKept ==
  ASSUME Possession, pc \notin Final, NEW mod, NEW blocks,
         Rejected(mod, blocks), Holdings(mod, heap \cup blocks)
  PROVE  Possession'
<1>1. fault # "free"
  BY DEF Possession, Final
<1> QED BY <1>1, MoreKept DEF Rejected, Untouched, Over, WithSlots, Early

(* An allocation fails.                                                    *)
LEMMA ExhaustedKept ==
  ASSUME Possession, pc \notin Final, NEW mod, NEW blocks,
         Exhausted(mod, blocks), Holdings(mod, heap \cup blocks)
  PROVE  Possession'
BY GotoKept DEF Exhausted, Final, Over, WithSlots, Early

(* A section is loaded, or ends too late.                                  *)
LEMMA LoadedKept ==
  ASSUME Possession, pc = "sections", NEW mod, NEW blocks,
         Loaded(mod, blocks), Holdings(mod, heap \cup blocks), <<"functions">> \in mod.arrays
  PROVE  Possession'
<1>1. pc \notin Final
  BY DEF Final, Over, Early
<1>2. CASE Flaw = "late"
  BY <1>1, <1>2, RejectedKept DEF Loaded
<1>3. CASE Flaw # "late"
  <2>1. fault # "free"
    BY <1>1 DEF Possession, Final
  <2> QED BY <1>1, <1>3, <2>1, MoreKept DEF Loaded, Untouched, Final, Over
<1> QED BY <1>2, <1>3

(* What the invariant says where a module exists.                          *)
LEMMA SlotsHeld ==
  ASSUME Possession, pc \notin Final
  PROVE  /\ Holdings(m, heap) /\ DOMAIN m = DOMAIN NewModule
         /\ \A blocks : Holdings(m, heap \cup blocks)
         /\ pc \in WithSlots => <<"functions">> \in m.arrays
<1>1. Holdings(m, heap)
  <2>1. Lost = {}
    BY DEF Lost, Final
  <2>2. Known = heap
    BY <2>1 DEF Known
  <2> QED BY <2>2 DEF Possession, Final, Over
<1>2. ASSUME NEW blocks PROVE Holdings(m, heap \cup blocks)
  <2>1. heap \subseteq heap \cup blocks
    OBVIOUS
  <2> QED BY <1>1, <2>1, SameHoldings
<1> QED BY <1>1, <1>2 DEF Possession, Holdings

(* Undefined behaviour other than a wrong free.                            *)
LEMMA UndefinedKept ==
  ASSUME Possession, pc \notin Final, NEW what, what # "free", Undefined(what)
  PROVE  Possession'
<1>1. Holdings(m, heap)
  BY SlotsHeld
<1> QED BY <1>1, MoreKept DEF Undefined, Untouched, Over, WithSlots, Early

----------------------------------------------------------------------------
(* main, up to the slots                                                   *)

(* wasm_module_create: a new module owns nothing.                          *)
LEMMA NewHoldings ==
  ASSUME NEW h
  PROVE  Holdings(NewModule, h)
<1> USE DEF NewModule
<1>1. HoldsTypes(NewModule, h)
  BY DEF HoldsTypes, Counted
<1>2. HoldsSections(NewModule, h) /\ HoldsInstance(NewModule, h)
  BY DEF HoldsSections, HoldsInstance, Holds
<1>3. HoldsArrays(NewModule, h)
  BY DEF HoldsArrays
<1>4. HoldsFunctions(NewModule, h)
  BY DEF HoldsFunctions, Counted, ImportKinds
<1>5. HoldsTables(NewModule, h)
  BY DEF HoldsTables, Counted, ImportKinds
<1>6. HoldsElements(NewModule, h)
  BY DEF HoldsElements, Counted
<1> QED BY <1>1, <1>2, <1>3, <1>4, <1>5, <1>6 DEF Holdings

(* main up to wasm_module_create.                                          *)
LEMMA EarlyKept ==
  ASSUME Possession, InitEnv \/ Options \/ ReadFile \/ CreateModule
  PROVE  Possession'
<1> USE DEF Possession, FreedOnce, Early, WithSlots
<1>1. CASE InitEnv
  BY <1>1 DEF InitEnv
<1>2. CASE Options
  BY <1>2 DEF Options
<1>3. CASE ReadFile
  BY <1>3 DEF ReadFile
<1>4. CASE CreateModule
  <2>1. CASE pc' = "header"
    BY <1>4, <2>1, NewHoldings DEF CreateModule
  <2>2. CASE pc' = "exited"
    BY <1>4, <2>2 DEF CreateModule
  <2> QED BY <1>4, <2>1, <2>2 DEF CreateModule
<1> QED BY <1>1, <1>2, <1>3, <1>4

----------------------------------------------------------------------------
(* Counts *)

(* Sets of positions are finite.                                           *)
LEMMA CardinalityNat ==
  ASSUME NEW n \in Nat, NEW S \in SUBSET (1 .. n)
  PROVE  IsFiniteSet(S) /\ Cardinality(S) \in Nat
<1>1. IsFiniteSet(1 .. n)
  BY FS_Interval
<1> QED BY <1>1, FS_Subset, FS_CardinalityType

(* Sections and items are sequences.                                       *)
LEMMA FileShape ==
  ASSUME file \in Files
  PROVE  /\ Counted(file.sections)
         /\ \A s \in DOMAIN file.sections : Counted(file.sections[s].items)
BY LoaderAssumption DEF IsSequence, Counted

(* init_load counts the items of a section.                                *)
LEMMA SectionCountNat ==
  ASSUME file \in Files, NEW id
  PROVE  SectionCount(id) \in Nat
<1>1. CASE SectionsOf(id) = {}
  BY <1>1 DEF SectionCount
<1>2. CASE SectionsOf(id) # {}
  <2> DEFINE n == Len(file.sections)
  <2>1. n \in Nat /\ SectionsOf(id) \subseteq 1 .. n
    BY FileShape DEF SectionsOf, Counted
  <2>2. Max(SectionsOf(id)) \in SectionsOf(id)
    <3>1. SectionsOf(id) \in SUBSET (0 .. n)
      BY <2>1
    <3> QED BY <1>2, <2>1, <3>1, Greatest
  <2>3. Len(file.sections[Max(SectionsOf(id))].items) \in Nat
    BY <2>2, FileShape DEF SectionsOf, Counted
  <2> QED BY <1>2, <2>3 DEF SectionCount
<1> QED BY <1>1, <1>2

(* The imports of all import sections are finitely many.                   *)
LEMMA ImportsFinite ==
  ASSUME file \in Files, NEW kind
  PROVE  IsFiniteSet(UNION {{s} \X ImportsOf(s, kind) : s \in SectionsOf("import")})
<1> DEFINE n == Len(file.sections)
           P == [s \in SectionsOf("import") |-> {s} \X ImportsOf(s, kind)]
           T == {{s} \X ImportsOf(s, kind) : s \in SectionsOf("import")}
<1>1. n \in Nat /\ SectionsOf("import") \in SUBSET (1 .. n)
  BY FileShape DEF SectionsOf, Counted
<1>2. IsFiniteSet(SectionsOf("import"))
  BY <1>1, CardinalityNat
<1>3. P \in Surjection(SectionsOf("import"), T)
  BY DEF Surjection
<1>4. IsFiniteSet(T)
  BY <1>2, <1>3, FS_Surjection
<1>5. ASSUME NEW s \in SectionsOf("import")
      PROVE  IsFiniteSet({s} \X ImportsOf(s, kind))
  <2>1. Len(file.sections[s].items) \in Nat /\ ImportsOf(s, kind) \in SUBSET (1 .. Len(file.sections[s].items))
    BY FileShape DEF SectionsOf, ImportsOf, Counted
  <2>2. IsFiniteSet(ImportsOf(s, kind))
    BY <2>1, CardinalityNat
  <2>3. IsFiniteSet({s})
    BY FS_Singleton
  <2> QED BY <2>2, <2>3, FS_Product
<1> QED BY <1>4, <1>5, FS_UNION

(* init_load counts them.                                                  *)
LEMMA ImportCountNat ==
  ASSUME file \in Files, NEW kind
  PROVE  ImportCount(kind) \in Nat
BY ImportsFinite, FS_CardinalityType DEF ImportCount

(* init_load: the arrays of slots are allocated one after the other, and   *)
(* hold nothing yet.                                                       *)
LEMMA InitLoadKept ==
  ASSUME Possession, InitLoad
  PROVE  Possession'
<1> DEFINE counted == [m EXCEPT !.imports = [k \in ImportKinds |-> ImportCount(k)],
                                !.counts  = [k \in ImportKinds |-> SectionCount(k)]]
           zeroed  == [counted EXCEPT !.functions = [i \in 1 .. Slots("func") |-> NoFunction],
                                      !.globals = [i \in 1 .. Slots("global") |-> NoGlobal],
                                      !.tables = Slots("table"),
                              !.tableData = [i \in 1 .. Slots("table") |-> Null]]
           Blocks(n) == {<<Arrays[i]>> : i \in 1..n}
           With(n) == [zeroed EXCEPT !.arrays = Blocks(n)]
<1>1. pc = "header" /\ pc \notin Final /\ file \in Files
  BY DEF InitLoad, Final, Over, Early, Possession
<1>2. Holdings(m, heap) /\ DOMAIN m = DOMAIN NewModule
  BY <1>1, SlotsHeld
<1>3. m = NewModule
  BY <1>1 DEF Possession
<1>4. Slots("func") \in Nat /\ Slots("table") \in Nat /\ SectionCount("table") \in 0 .. Slots("table")
      /\ ImportCount("func") \in Nat
  BY <1>1, SectionCountNat, ImportCountNat DEF Slots
<1>5. ASSUME NEW n
      PROVE  /\ With(n).arrays = Blocks(n) /\ With(n).stage = "Load"
             /\ With(n).functions = [i \in 1 .. Slots("func") |-> NoFunction]
             /\ With(n).imports = [k \in ImportKinds |-> ImportCount(k)]
             /\ With(n).counts = [k \in ImportKinds |-> SectionCount(k)]
             /\ With(n).tables = Slots("table")
             /\ With(n).tableData = [i \in 1 .. Slots("table") |-> Null]
             /\ Agree(With(n), m, {"arrays", "imports", "counts", "functions", "globals",
                                   "tables", "tableData"})
  BY <1>3, ModuleFields DEF Agree, NewModule
<1>6. ASSUME NEW n
      PROVE  Holdings(With(n), heap \cup Blocks(n)) 
  <2> DEFINE new == With(n)
             g == heap \cup Blocks(n)
             changed == {"arrays", "imports", "counts", "functions", "globals", "tables", "tableData"}
  <2>1. Agree(new, m, changed) /\ heap \subseteq g
    BY <1>5
  <2>2. /\ DOMAIN new = DOMAIN NewModule
        /\ HoldsTypes(new, g) /\ HoldsSections(new, g) /\ HoldsElements(new, g)
        /\ HoldsInstance(new, g)
    <3>1. /\ {"types", "refs"} \cap changed = {} /\ {"elements"} \cap changed = {}
          /\ {"typesBlock", "exportsBlock", "elementsBlock", "dataBlock"} \cap changed = {}
          /\ {"globalData", "memoryData", "exportFuncs", "wasi"} \cap changed = {}
      OBVIOUS
    <3> HIDE DEF new, g, changed
    <3> QED BY <1>2, <2>1, <3>1, HoldingsKept
  <2>3. HoldsArrays(new, g)
    BY <1>5 DEF HoldsArrays
  <2>4. HoldsFunctions(new, g)
    <3>1. new.functions = [i \in 1 .. Slots("func") |-> NoFunction]
      BY <1>5
    <3>2. new.imports["func"] \in Nat
      <4>1. new.imports = [k \in ImportKinds |-> ImportCount(k)]
        BY <1>5
      <4> HIDE DEF new
      <4> QED BY <1>4, <4>1 DEF ImportKinds
    <3>3. NoFunction.table = Null /\ NoFunction.offsets = Null /\ NoFunction.types = Null
      BY DEF NoFunction
    <3> HIDE DEF new
    <3> QED BY <1>4, <3>1, <3>2, <3>3 DEF HoldsFunctions, Holds, Counted
  <2>5. HoldsTables(new, g)
    <3>1. /\ new.counts = [k \in ImportKinds |-> SectionCount(k)]
          /\ new.tables = Slots("table")
          /\ new.tableData = [i \in 1 .. Slots("table") |-> Null]
      BY <1>5
    <3> HIDE DEF new
    <3> QED BY <1>4, <3>1 DEF HoldsTables, ImportKinds, Counted
  <2> HIDE DEF new, g
  <2>6. Holdings(new, g)
    BY <2>2, <2>3, <2>4, <2>5 DEF Holdings
  <2> QED BY <2>6 DEF new, g
<1>7. <<"functions">> \in With(3).arrays
  <2>1. Blocks(3) = With(3).arrays
    BY <1>5
  <2>2. <<Arrays[2]>> \in Blocks(3) /\ Arrays[2] = "functions"
    <3>1. 2 \in 1 .. 3 /\ Arrays[2] = "functions"
      BY DEF Arrays
    <3> QED BY <3>1
  <2> HIDE DEF With, Blocks
  <2> QED BY <2>1, <2>2
<1>8. CASE Rejected(m, {})
  BY <1>1, <1>8, SlotsHeld, RejectedKept
<1>9. CASE Goto("sections", With(3), Blocks(3))
  <2>1. Holdings(With(3), heap \cup Blocks(3)) /\ "sections" \notin Over \cup {"header"}
    BY <1>6 DEF Final, Over, Early
  <2> HIDE DEF With, Blocks
  <2> QED BY <1>1, <1>7, <1>9, <2>1, GotoKept
<1>10. CASE \E n \in 0..2 : Exhausted(With(n), Blocks(n))
  <2>1. PICK n \in 0..2 : Exhausted(With(n), Blocks(n))
    BY <1>10
  <2>2. Holdings(With(n), heap \cup Blocks(n))
    BY <1>6
  <2> HIDE DEF With, Blocks
  <2> QED BY <1>1, <2>1, <2>2, ExhaustedKept
<1> QED
  <2>1. Rejected(m, {}) \/ Goto("sections", With(3), Blocks(3)) \/ \E n \in 0..2 : Exhausted(With(n), Blocks(n))
    BY DEF InitLoad
  <2> QED BY <1>8, <1>9, <1>10, <2>1

----------------------------------------------------------------------------
(* The sections of the file                                                *)

(* What a loader of a section may rely on.                                 *)
LEMMA InSection ==
  ASSUME Possession, NEW id, Section(id)
  PROVE  /\ pc = "sections" /\ pc \notin Final /\ file \in Files
         /\ Holdings(m, heap) /\ DOMAIN m = DOMAIN NewModule
         /\ \A blocks : Holdings(m, heap \cup blocks)
         /\ <<"functions">> \in m.arrays
         /\ Counted(file.sections[pos].items)
<1>1. pc = "sections" /\ pos \in DOMAIN file.sections
  BY DEF Section
<1>2. pc \notin Final /\ pc \in WithSlots /\ file \in Files
  BY <1>1 DEF Final, Over, Early, WithSlots, Possession
<1> QED BY <1>1, <1>2, SlotsHeld, FileShape

(* A section leaves the module as it was ...                               *)
LEMMA UnchangedLoadedKept ==
  ASSUME Possession, pc = "sections", NEW blocks, Loaded(m, blocks)
  PROVE  Possession'
<1>1. pc \notin Final /\ pc \in WithSlots
  BY DEF Final, Over, Early, WithSlots
<1> QED BY <1>1, SlotsHeld, LoadedKept

(* ... or is rejected ...                                                  *)
LEMMA UnchangedRejectedKept ==
  ASSUME Possession, pc \notin Final, NEW blocks, Rejected(m, blocks)
  PROVE  Possession'
BY SlotsHeld, RejectedKept

(* ... or finds no memory.                                                 *)
LEMMA UnchangedExhaustedKept ==
  ASSUME Possession, pc \notin Final, NEW blocks, Exhausted(m, blocks)
  PROVE  Possession'
BY SlotsHeld, ExhaustedKept

(* A module is held after a change to fields that hold nothing.            *)
LEMMA PlainChange ==
  ASSUME NEW mod, NEW new, NEW h, NEW g, Holdings(mod, h), h \subseteq g,
         Agree(new, mod, {"start", "globals", "pages", "exports", "data"})
  PROVE  Holdings(new, g)
<1> DEFINE changed == {"start", "globals", "pages", "exports", "data"}
<1>1. /\ {"types", "refs"} \cap changed = {} /\ {"elements"} \cap changed = {}
      /\ {"typesBlock", "exportsBlock", "elementsBlock", "dataBlock"} \cap changed = {}
      /\ {"arrays", "stage"} \cap changed = {} /\ {"functions", "imports"} \cap changed = {}
      /\ {"counts", "tables", "tableData"} \cap changed = {}
      /\ {"globalData", "memoryData", "exportFuncs", "wasi"} \cap changed = {}
  OBVIOUS
<1> HIDE DEF changed
<1> QED BY <1>1, HoldingsKept DEF Holdings, changed

(* A module is held after a change to the functions and to such fields.    *)
LEMMA FunctionsChange ==
  ASSUME NEW mod, NEW new, NEW h, NEW g, Holdings(mod, h), h \subseteq g,
         Agree(new, mod, {"functions", "globals", "pages"}), HoldsFunctions(new, g)
  PROVE  Holdings(new, g)
<1> DEFINE changed == {"functions", "globals", "pages"}
<1>1. /\ {"types", "refs"} \cap changed = {} /\ {"elements"} \cap changed = {}
      /\ {"typesBlock", "exportsBlock", "elementsBlock", "dataBlock"} \cap changed = {}
      /\ {"arrays", "stage"} \cap changed = {}
      /\ {"counts", "tables", "tableData"} \cap changed = {}
      /\ {"globalData", "memoryData", "exportFuncs", "wasi"} \cap changed = {}
  OBVIOUS
<1> HIDE DEF changed
<1> QED BY <1>1, HoldingsKept DEF Holdings, changed

(* Functions that own the same blocks as before.                           *)
LEMMA SameBlocks ==
  ASSUME NEW mod, NEW new, NEW h, NEW g, HoldsFunctions(mod, h), h \subseteq g,
         new.imports = mod.imports, DOMAIN new.functions = DOMAIN mod.functions,
         \A k \in DOMAIN mod.functions :
           /\ DOMAIN new.functions[k] = DOMAIN mod.functions[k]
           /\ new.functions[k].table = mod.functions[k].table
           /\ new.functions[k].offsets = mod.functions[k].offsets
           /\ new.functions[k].types = mod.functions[k].types
  PROVE  HoldsFunctions(new, g)
<1>1. Counted(new.functions) /\ new.imports["func"] \in Nat
  BY DEF HoldsFunctions, Counted
<1>2. ASSUME NEW k \in DOMAIN new.functions
      PROVE  LET f == new.functions[k]
             IN  /\ DOMAIN f = DOMAIN NoFunction
                 /\ f.table = Null \/ (f.table = <<"branches", k>> /\ f.table \in g)
                 /\ Holds(f.offsets, "offsets", g) /\ (f.offsets # Null => f.offsets[3] = k - new.imports["func"])
                 /\ Holds(f.types, "locals", g) /\ (f.types # Null => f.types[3] = k - new.imports["func"])
  BY <1>2 DEF HoldsFunctions, Holds
<1> QED BY <1>1, <1>2 DEF HoldsFunctions

(* The fields of a WASMFunction.                                           *)
LEMMA FunctionFields ==
  DOMAIN NoFunction = {"from", "type", "name", "params", "verdict", "branches", "room",
                       "types", "offsets", "table"}
BY DEF NoFunction

(* load_import_section fills slots and allocates nothing.                  *)
LEMMA LoadImportKept ==
  ASSUME Possession, LoadImportSection
  PROVE  Possession'
<1> DEFINE items == file.sections[pos].items
<1>1. Section("import")
  BY DEF LoadImportSection
<1>2. ASSUME NEW n PROVE /\ Holdings(WithImports(items, n), heap \cup {})
                         /\ <<"functions">> \in WithImports(items, n).arrays
  <2> DEFINE new == WithImports(items, n)
  <2>1. Holdings(m, heap) /\ DOMAIN m = DOMAIN NewModule /\ <<"functions">> \in m.arrays
    BY <1>1, InSection
  <2>2. /\ Agree(new, m, {"functions", "globals", "pages"})
        /\ DOMAIN new.functions = DOMAIN m.functions
        /\ \A k \in DOMAIN m.functions :
             \/ new.functions[k] = m.functions[k]
             \/ \E from, type, name :
                  new.functions[k] = [m.functions[k] EXCEPT !.from = from, !.type = type, !.name = name]
    BY <2>1, ModuleFields DEF WithImports, Agree
  <2> HIDE DEF new
  <2>3. new.imports = m.imports /\ new.arrays = m.arrays
    BY <2>1, <2>2, ModuleFields DEF Agree
  <2>4. HoldsFunctions(m, heap)
    BY <2>1 DEF Holdings
  <2>5. ASSUME NEW k \in DOMAIN m.functions
        PROVE  /\ DOMAIN new.functions[k] = DOMAIN m.functions[k]
               /\ new.functions[k].table = m.functions[k].table
               /\ new.functions[k].offsets = m.functions[k].offsets
               /\ new.functions[k].types = m.functions[k].types
    <3>1. DOMAIN m.functions[k] = DOMAIN NoFunction
      BY <2>4 DEF HoldsFunctions
    <3> QED BY <2>2, <3>1, FunctionFields
  <2>6. HoldsFunctions(new, heap \cup {})
    <3>1. heap \subseteq heap \cup {}
      OBVIOUS
    <3> QED BY <2>2, <2>3, <2>4, <2>5, <3>1, SameBlocks
  <2>7. Holdings(new, heap \cup {})
    BY <2>1, <2>2, <2>6, FunctionsChange
  <2> QED BY <2>1, <2>3, <2>7 DEF new
<1>3. CASE Rejected(m, {})
  BY <1>1, <1>3, InSection, UnchangedRejectedKept
<1>4. CASE Undefined("import slots")
  BY <1>1, <1>4, InSection, UndefinedKept
<1>5. CASE \E n : Rejected(WithImports(items, n), {})
  BY <1>1, <1>2, <1>5, InSection, RejectedKept
<1>6. CASE \E n : Loaded(WithImports(items, n), {})
  BY <1>1, <1>2, <1>6, InSection, LoadedKept
<1> QED BY <1>3, <1>4, <1>5, <1>6 DEF LoadImportSection

(* load_function_section gives types to functions and allocates nothing.   *)
LEMMA LoadFunctionKept ==
  ASSUME Possession, LoadFunctionSection
  PROVE  Possession'
<1> DEFINE items == file.sections[pos].items
           base == m.imports["func"]
           known == Max({0} \cup {n \in DOMAIN items : \A i \in 1..n : TypeKnown(items[i])})
           new == [m EXCEPT !.functions = [k \in DOMAIN @ |->
                    IF k - base \in 1..known
                    THEN [@[k] EXCEPT !.type = TypeAt(items[k - base]),
                                      !.params = Len(TypeOf(TypeAt(items[k - base])).param)]
                    ELSE @[k]]]
<1>1. Section("func")
  BY DEF LoadFunctionSection
<1>2. \/ Rejected(m, {}) \/ Undefined("function slots") \/ Rejected(new, {}) \/ Loaded(new, {})
  BY DEF LoadFunctionSection
<1>3. Holdings(m, heap) /\ DOMAIN m = DOMAIN NewModule /\ <<"functions">> \in m.arrays
  BY <1>1, InSection
<1>4. /\ Agree(new, m, {"functions", "globals", "pages"})
      /\ DOMAIN new.functions = DOMAIN m.functions
      /\ \A k \in DOMAIN m.functions :
           \/ new.functions[k] = m.functions[k]
           \/ \E type, params :
                new.functions[k] = [m.functions[k] EXCEPT !.type = type, !.params = params]
  <2> HIDE DEF known, items
  <2> QED BY <1>3, ModuleFields DEF Agree
<1> HIDE DEF new
<1>5. new.imports = m.imports /\ new.arrays = m.arrays
  BY <1>3, <1>4, ModuleFields DEF Agree
<1>6. HoldsFunctions(m, heap)
  BY <1>3 DEF Holdings
<1>7. ASSUME NEW k \in DOMAIN m.functions
      PROVE  /\ DOMAIN new.functions[k] = DOMAIN m.functions[k]
             /\ new.functions[k].table = m.functions[k].table
             /\ new.functions[k].offsets = m.functions[k].offsets
             /\ new.functions[k].types = m.functions[k].types
  <2>1. DOMAIN m.functions[k] = DOMAIN NoFunction
    BY <1>6 DEF HoldsFunctions
  <2> QED BY <1>4, <2>1, FunctionFields
<1>8. heap \subseteq heap \cup {}
  OBVIOUS
<1>9. HoldsFunctions(new, heap \cup {})
  BY <1>4, <1>5, <1>6, <1>7, <1>8, SameBlocks
<1>10. Holdings(new, heap \cup {})
  BY <1>3, <1>4, <1>8, <1>9, FunctionsChange
<1>11. pc = "sections" /\ pc \notin Final /\ <<"functions">> \in new.arrays
  BY <1>1, <1>3, <1>5, InSection
<1>12. CASE Rejected(m, {})
  BY <1>11, <1>12, UnchangedRejectedKept
<1>13. CASE Undefined("function slots")
  BY <1>11, <1>13, UndefinedKept
<1>14. CASE Rejected(new, {})
  BY <1>10, <1>11, <1>14, RejectedKept
<1>15. CASE Loaded(new, {})
  BY <1>10, <1>11, <1>15, LoadedKept
<1> QED BY <1>2, <1>12, <1>13, <1>14, <1>15

(* The sections whose loaders allocate nothing.                            *)
LEMMA LoadPlainKept ==
  ASSUME Possession,
         LoadTableSection \/ LoadMemorySection \/ LoadGlobalSection \/ LoadStartSection
           \/ SkipSection \/ LoaderDone
  PROVE  Possession'
<1>1. \E id : Section(id) \/ LoaderDone
  BY DEF LoadTableSection, LoadMemorySection, LoadGlobalSection, LoadStartSection, SkipSection
<1>2. pc = "sections" /\ pc \notin Final /\ pc \in WithSlots /\ "validate" \notin Over \cup {"header"}
  BY <1>1 DEF Section, LoaderDone, Final, Over, Early, WithSlots
<1>3. Holdings(m, heap) /\ DOMAIN m = DOMAIN NewModule /\ <<"functions">> \in m.arrays
  BY <1>2, SlotsHeld
<1>4. ASSUME NEW new, Agree(new, m, {"start", "globals", "pages", "exports", "data"})
      PROVE  Holdings(new, heap \cup {}) /\ <<"functions">> \in new.arrays
  <2>1. heap \subseteq heap \cup {}
    OBVIOUS
  <2>2. new.arrays = m.arrays
    BY <1>3, <1>4, ModuleFields DEF Agree
  <2> QED BY <1>3, <1>4, <2>1, <2>2, PlainChange
<1>5. ASSUME NEW new, Agree(new, m, {"start", "globals", "pages", "exports", "data"}),
             Rejected(new, {}) \/ Loaded(new, {})
      PROVE  Possession'
  BY <1>2, <1>4, <1>5, RejectedKept, LoadedKept
<1>6. Agree(m, m, {"start", "globals", "pages", "exports", "data"})
  BY DEF Agree
<1>7. CASE Rejected(m, {}) \/ Loaded(m, {})
  BY <1>5, <1>6, <1>7
<1>8. ASSUME NEW what \in {"table slots", "memory slots", "global slots"}, Undefined(what)
      PROVE  Possession'
  BY <1>2, <1>8, UndefinedKept
<1>9. CASE LoadTableSection
  BY <1>7, <1>8, <1>9 DEF LoadTableSection
<1>10. CASE LoadMemorySection
  <2>1. Agree([m EXCEPT !.pages = Last(file.sections[pos].items)], m,
              {"start", "globals", "pages", "exports", "data"})
    BY <1>3 DEF Agree
  <2> QED BY <1>5, <1>7, <1>8, <1>10, <2>1 DEF LoadMemorySection
<1>11. CASE LoadGlobalSection
  <2> DEFINE items == file.sections[pos].items
             base == m.imports["global"]
             good == Max({0} \cup {n \in DOMAIN items : \A i \in 1..n : items[i] <= base})
             new == [m EXCEPT !.globals = [k \in DOMAIN @ |->
                      IF k - base \in 1..good THEN [from |-> 0, target |-> items[k - base]]
                      ELSE @[k]]]
  <2>1. Agree(new, m, {"start", "globals", "pages", "exports", "data"})
    <3> HIDE DEF good
    <3> QED BY <1>3 DEF Agree
  <2>2. Rejected(m, {}) \/ Undefined("global slots") \/ Rejected(new, {}) \/ Loaded(new, {})
    BY <1>11 DEF LoadGlobalSection
  <2> HIDE DEF new
  <2> QED BY <1>5, <1>7, <1>8, <2>1, <2>2
<1>12. CASE LoadStartSection
  <2>1. Agree([m EXCEPT !.start = file.sections[pos].items[1]], m,
              {"start", "globals", "pages", "exports", "data"})
    BY <1>3 DEF Agree
  <2> QED BY <1>5, <1>7, <1>12, <2>1 DEF LoadStartSection
<1>13. CASE SkipSection
  BY <1>7, <1>13 DEF SkipSection
<1>14. CASE LoaderDone
  <2>1. Goto("validate", m, {}) /\ Holdings(m, heap \cup {})
    BY <1>4, <1>6, <1>14 DEF LoaderDone
  <2> QED BY <1>2, <1>3, <2>1, GotoKept
<1> QED BY <1>9, <1>10, <1>11, <1>12, <1>13, <1>14

(* A module is held after a change to what a section leaves in it.         *)
LEMMA SectionChange ==
  ASSUME NEW mod, NEW new, NEW h, NEW g, Holdings(mod, h), h \subseteq g,
         Agree(new, mod, {"types", "refs", "typesBlock", "exports", "exportsBlock",
                          "elements", "elementsBlock", "data", "dataBlock"}),
         HoldsTypes(new, g), HoldsSections(new, g), HoldsElements(new, g)
  PROVE  Holdings(new, g)
<1> DEFINE changed == {"types", "refs", "typesBlock", "exports", "exportsBlock",
                       "elements", "elementsBlock", "data", "dataBlock"}
<1>1. /\ {"arrays", "stage"} \cap changed = {} /\ {"functions", "imports"} \cap changed = {}
      /\ {"counts", "tables", "tableData"} \cap changed = {}
      /\ {"globalData", "memoryData", "exportFuncs", "wasi"} \cap changed = {}
  OBVIOUS
<1> HIDE DEF changed
<1> QED BY <1>1, HoldingsKept DEF Holdings, changed

(* load_export_section.                                                    *)
LEMMA LoadExportKept ==
  ASSUME Possession, LoadExportSection
  PROVE  Possession'
<1> DEFINE items == file.sections[pos].items
           block == IF items = <<>> THEN {} ELSE {<<"exports", pos>>}
           new == [m EXCEPT !.exports = items, !.exportsBlock = <<"exports", pos>>]
<1>1. Section("export")
  BY DEF LoadExportSection
<1>2. /\ pc = "sections" /\ pc \notin Final
      /\ Holdings(m, heap) /\ DOMAIN m = DOMAIN NewModule /\ <<"functions">> \in m.arrays
  BY <1>1, InSection
<1>3. \/ Rejected(m, block) \/ Loaded(m, block) \/ Exhausted(m, {})
      \/ items # <<>> /\ Loaded(new, block)
  BY DEF LoadExportSection
<1>4. ASSUME items # <<>> PROVE Holdings(new, heap \cup block) /\ <<"functions">> \in new.arrays
  <2> DEFINE changed == {"exports", "exportsBlock"}
             g == heap \cup block
  <2>1. Agree(new, m, changed) /\ heap \subseteq g /\ new.exportsBlock = <<"exports", pos>>
        /\ <<"exports", pos>> \in g
    BY <1>2, <1>4, ModuleFields DEF Agree
  <2> HIDE DEF new, g
  <2>2. HoldsTypes(new, g) /\ HoldsElements(new, g)
    <3>1. {"types", "refs"} \cap changed = {} /\ {"elements"} \cap changed = {}
      OBVIOUS
    <3> HIDE DEF changed
    <3> QED BY <1>2, <2>1, <3>1, HoldingsKept
  <2>3. new.arrays = m.arrays /\ new.typesBlock = m.typesBlock
        /\ new.elementsBlock = m.elementsBlock /\ new.dataBlock = m.dataBlock
    BY <1>2, <2>1, ModuleFields DEF Agree
  <2>4. HoldsSections(new, g)
    BY <1>2, <2>1, <2>3 DEF Holdings, HoldsSections, Holds
  <2>5. Agree(new, m, {"types", "refs", "typesBlock", "exports", "exportsBlock",
                       "elements", "elementsBlock", "data", "dataBlock"})
    BY <2>1 DEF Agree
  <2>6. Holdings(new, g)
    BY <1>2, <2>1, <2>2, <2>4, <2>5, SectionChange
  <2> QED BY <1>2, <2>3, <2>6 DEF g
<1> HIDE DEF new, block
<1>5. CASE items # <<>> /\ Loaded(new, block)
  BY <1>2, <1>4, <1>5, LoadedKept
<1> QED BY <1>2, <1>3, <1>5, UnchangedRejectedKept, UnchangedLoadedKept, UnchangedExhaustedKept

(* load_data_section.                                                      *)
LEMMA LoadDataKept ==
  ASSUME Possession, LoadDataSection
  PROVE  Possession'
<1> DEFINE items == file.sections[pos].items
           block == <<"data", pos>>
           new == [m EXCEPT !.data = items, !.dataBlock = block]
           none == [new EXCEPT !.dataBlock = Null]
<1>1. Section("data")
  BY DEF LoadDataSection
<1>2. /\ pc = "sections" /\ pc \notin Final
      /\ Holdings(m, heap) /\ DOMAIN m = DOMAIN NewModule /\ <<"functions">> \in m.arrays
  BY <1>1, InSection
<1>3. new.dataBlock = block
  BY <1>2, ModuleFields
<1>4. \/ Rejected(m, {}) \/ Loaded(m, {}) \/ Rejected(new, {block}) \/ Loaded(new, {block})
      \/ Rejected(none, {})
  BY <1>3 DEF LoadDataSection
<1> DEFINE changed == {"data", "dataBlock"}
<1>5. ASSUME NEW mod, NEW blocks, Agree(mod, m, changed),
             Holds(mod.dataBlock, "data", heap \cup blocks)
      PROVE  Holdings(mod, heap \cup blocks) /\ <<"functions">> \in mod.arrays
  <2> DEFINE g == heap \cup blocks
  <2>1. Agree(mod, m, changed) /\ heap \subseteq g /\ Holds(mod.dataBlock, "data", g)
    BY <1>5
  <2> HIDE DEF new, none, g
  <2>2. HoldsTypes(mod, g) /\ HoldsElements(mod, g)
    <3>1. {"types", "refs"} \cap changed = {} /\ {"elements"} \cap changed = {}
      OBVIOUS
    <3> HIDE DEF changed
    <3> QED BY <1>2, <2>1, <3>1, HoldingsKept
  <2>3. mod.arrays = m.arrays /\ mod.typesBlock = m.typesBlock
        /\ mod.elementsBlock = m.elementsBlock /\ mod.exportsBlock = m.exportsBlock
    BY <1>2, <2>1, ModuleFields DEF Agree
  <2>4. HoldsSections(mod, g)
    BY <1>2, <2>1, <2>3 DEF Holdings, HoldsSections, Holds
  <2>5. Agree(mod, m, {"types", "refs", "typesBlock", "exports", "exportsBlock",
                       "elements", "elementsBlock", "data", "dataBlock"})
    BY <2>1 DEF Agree
  <2>6. Holdings(mod, g)
    BY <1>2, <2>1, <2>2, <2>4, <2>5, SectionChange
  <2> QED BY <1>2, <2>3, <2>6 DEF g
<1>6. Agree(new, m, changed) /\ Agree(none, m, changed) /\ none.dataBlock = Null /\ block[1] = "data"
  BY <1>2, ModuleFields DEF Agree
<1> HIDE DEF new, none, block, changed
<1>7. Holdings(new, heap \cup {block}) /\ <<"functions">> \in new.arrays
  <2>1. Holds(new.dataBlock, "data", heap \cup {block})
    BY <1>3, <1>6 DEF Holds
  <2> QED BY <1>5, <1>6, <2>1
<1>8. Holdings(none, heap \cup {}) /\ <<"functions">> \in none.arrays
  <2>1. Holds(none.dataBlock, "data", heap \cup {})
    BY <1>6 DEF Holds
  <2> QED BY <1>5, <1>6, <2>1
<1>9. CASE Rejected(new, {block}) \/ Loaded(new, {block})
  BY <1>2, <1>7, <1>9, RejectedKept, LoadedKept
<1>10. CASE Rejected(none, {})
  BY <1>2, <1>8, <1>10, RejectedKept
<1> QED BY <1>2, <1>4, <1>9, <1>10, UnchangedRejectedKept, UnchangedLoadedKept

(* load_element_section: every element owns its own array of indexes.      *)
LEMMA LoadElementKept ==
  ASSUME Possession, LoadElementSection
  PROVE  Possession'
<1> DEFINE items == file.sections[pos].items
           all == 1 .. Len(items)
           Blocks(k) == {<<"elements", pos>>} \cup
                        {<<"indexes", pos, i>> : i \in {j \in 1..k : items[j].funcs > 0}}
           elements == [i \in all |-> [item |-> items[i],
                                       block |-> IF items[i].funcs > 0
                                                 THEN <<"indexes", pos, i>> ELSE Null]]
           new == [m EXCEPT !.elements = elements, !.elementsBlock = <<"elements", pos>>]
<1>1. Section("element")
  BY DEF LoadElementSection
<1>2. /\ pc = "sections" /\ pc \notin Final
      /\ Holdings(m, heap) /\ DOMAIN m = DOMAIN NewModule /\ <<"functions">> \in m.arrays
      /\ Len(items) \in Nat
  BY <1>1, InSection DEF Counted
<1>3. \/ Loaded(m, {}) \/ Rejected(m, {}) \/ Exhausted(m, {}) \/ Loaded(new, Blocks(Len(items)))
      \/ \E i \in all : Exhausted(m, Blocks(i - 1)) \/ Rejected(m, Blocks(i))
  BY DEF LoadElementSection
<1>4. Holdings(new, heap \cup Blocks(Len(items))) /\ <<"functions">> \in new.arrays
  <2> DEFINE changed == {"elements", "elementsBlock"}
             g == heap \cup Blocks(Len(items))
  <2>1. Agree(new, m, changed) /\ heap \subseteq g /\ new.elementsBlock = <<"elements", pos>>
        /\ new.elements = elements
    BY <1>2, ModuleFields DEF Agree
  <2>2. <<"elements", pos>> \in g
    OBVIOUS
  <2>3. \A i \in all : items[i].funcs > 0 => <<"indexes", pos, i>> \in g
    OBVIOUS
  <2> HIDE DEF new, g
  <2>4. HoldsElements(new, g)
    <3>1. Counted(elements)
      BY <1>2 DEF Counted
    <3>2. ASSUME NEW e \in all
          PROVE  /\ Holds(elements[e].block, "indexes", g)
                 /\ elements[e].block # Null => elements[e].block[3] = e
      <4>1. CASE items[e].funcs > 0
        <5>1. elements[e].block = <<"indexes", pos, e>>
          BY <4>1
        <5> QED BY <2>3, <4>1, <5>1 DEF Holds
      <4>2. CASE ~ (items[e].funcs > 0)
        BY <4>2 DEF Holds
      <4> QED BY <4>1, <4>2
    <3>3. DOMAIN elements = all
      OBVIOUS
    <3> HIDE DEF elements, all
    <3> QED BY <2>1, <3>1, <3>2, <3>3 DEF HoldsElements
  <2>5. HoldsTypes(new, g)
    <3>1. {"types", "refs"} \cap changed = {}
      OBVIOUS
    <3> HIDE DEF changed, elements
    <3> QED BY <1>2, <2>1, <3>1, HoldingsKept
  <2> HIDE DEF elements
  <2>6. new.arrays = m.arrays /\ new.typesBlock = m.typesBlock
        /\ new.exportsBlock = m.exportsBlock /\ new.dataBlock = m.dataBlock
    BY <1>2, <2>1, ModuleFields DEF Agree
  <2>7. HoldsSections(new, g)
    BY <1>2, <2>1, <2>2, <2>6 DEF Holdings, HoldsSections, Holds
  <2>8. Agree(new, m, {"types", "refs", "typesBlock", "exports", "exportsBlock",
                       "elements", "elementsBlock", "data", "dataBlock"})
    BY <2>1 DEF Agree
  <2>9. Holdings(new, g)
    BY <1>2, <2>1, <2>4, <2>5, <2>7, <2>8, SectionChange
  <2> QED BY <1>2, <2>6, <2>9 DEF g
<1> HIDE DEF new, Blocks
<1>5. CASE Loaded(new, Blocks(Len(items)))
  BY <1>2, <1>4, <1>5, LoadedKept
<1>6. CASE \E i \in all : Exhausted(m, Blocks(i - 1)) \/ Rejected(m, Blocks(i))
  BY <1>2, <1>6, UnchangedRejectedKept, UnchangedExhaustedKept
<1> QED BY <1>2, <1>3, <1>5, <1>6, UnchangedRejectedKept, UnchangedLoadedKept, UnchangedExhaustedKept

(* load_type_section: the count of a type that entries share is the number *)
(* of entries that point to it.                                            *)
LEMMA LoadTypeKept ==
  ASSUME Possession, LoadTypeSection
  PROVE  Possession'
<1> DEFINE items == file.sections[pos].items
           First(i) == Min({j \in 1..i : FuncTypes[items[j]] = FuncTypes[items[i]]})
           Block(i) == <<"type", pos, First(i)>>
           Blocks(k) == {<<"types", pos>>} \cup {Block(i) : i \in 1..k}
           all == 1 .. Len(items)
           types == [i \in all |-> Block(i)]
           refs == [b \in {Block(i) : i \in all} |-> Cardinality({i \in all : Block(i) = b})]
           new == [m EXCEPT !.types = types, !.refs = refs, !.typesBlock = <<"types", pos>>]
<1>1. Section("type")
  BY DEF LoadTypeSection
<1>2. /\ pc = "sections" /\ pc \notin Final
      /\ Holdings(m, heap) /\ DOMAIN m = DOMAIN NewModule /\ <<"functions">> \in m.arrays
      /\ Len(items) \in Nat
  BY <1>1, InSection DEF Counted
<1>3. \/ Loaded(m, {}) \/ Loaded(new, Blocks(Len(items))) \/ Exhausted(m, {})
      \/ \E i \in all : Exhausted(m, Blocks(i - 1))
      \/ \E blocks : Rejected(m, blocks)
  BY DEF LoadTypeSection
<1>4. Holdings(new, heap \cup Blocks(Len(items))) /\ <<"functions">> \in new.arrays
  <2> DEFINE changed == {"types", "refs", "typesBlock"}
             g == heap \cup Blocks(Len(items))
  <2>1. Agree(new, m, changed) /\ heap \subseteq g /\ new.typesBlock = <<"types", pos>>
        /\ new.types = types /\ new.refs = refs
    <3> HIDE DEF types, refs
    <3> QED BY <1>2, ModuleFields DEF Agree
  <2>2. <<"types", pos>> \in g /\ \A i \in all : Block(i) \in g /\ Block(i)[1] = "type"
    <3> HIDE DEF First
    <3> QED OBVIOUS
  <2> HIDE DEF new, g, Block
  <2>3. HoldsTypes(new, g)
    <3>1. Counted(types)
      BY <1>2 DEF Counted
    <3>2. ASSUME NEW i \in all
          PROVE  /\ types[i] \in g /\ types[i][1] = "type"
                 /\ refs[types[i]] = Cardinality({j \in all : types[j] = types[i]})
      <4>1. types[i] = Block(i) /\ \A j \in all : types[j] = Block(j)
        OBVIOUS
      <4>2. {j \in all : types[j] = types[i]} = {j \in all : Block(j) = Block(i)}
        BY <4>1
      <4>3. refs[Block(i)] = Cardinality({j \in all : Block(j) = Block(i)})
        OBVIOUS
      <4> QED BY <2>2, <4>1, <4>2, <4>3
    <3>3. DOMAIN types = all
      OBVIOUS
    <3> HIDE DEF types, refs, all
    <3> QED BY <2>1, <3>1, <3>2, <3>3 DEF HoldsTypes
  <2> HIDE DEF types, refs
  <2>4. HoldsElements(new, g)
    <3>1. {"elements"} \cap changed = {}
      OBVIOUS
    <3> HIDE DEF changed
    <3> QED BY <1>2, <2>1, <3>1, HoldingsKept
  <2>5. new.arrays = m.arrays /\ new.elementsBlock = m.elementsBlock
        /\ new.exportsBlock = m.exportsBlock /\ new.dataBlock = m.dataBlock
    BY <1>2, <2>1, ModuleFields DEF Agree
  <2>6. HoldsSections(new, g)
    BY <1>2, <2>1, <2>2, <2>5 DEF Holdings, HoldsSections, Holds
  <2>7. Agree(new, m, {"types", "refs", "typesBlock", "exports", "exportsBlock",
                       "elements", "elementsBlock", "data", "dataBlock"})
    BY <2>1 DEF Agree
  <2>8. Holdings(new, g)
    BY <1>2, <2>1, <2>3, <2>4, <2>6, <2>7, SectionChange
  <2> QED BY <1>2, <2>5, <2>8 DEF g
<1> HIDE DEF new, Blocks
<1>5. CASE Loaded(new, Blocks(Len(items)))
  BY <1>2, <1>4, <1>5, LoadedKept
<1> QED BY <1>2, <1>3, <1>5, UnchangedRejectedKept, UnchangedLoadedKept, UnchangedExhaustedKept

(* load_code_section: the arrays of a body belong to the one function they *)
(* were allocated for, also when the section fails in the middle.          *)
LEMMA LoadCodeKept ==
  ASSUME Possession, LoadCodeSection
  PROVE  Possession'
<1> DEFINE items == file.sections[pos].items
           base == m.imports["func"]
           Types(i) == IF items[i].locals > 0 THEN <<"locals", pos, i>> ELSE Null
           Offsets(i) == IF items[i].locals + m.functions[base + i].params > 0
                         THEN <<"offsets", pos, i>> ELSE Null
           Mod(n) == [m EXCEPT !.functions = [k \in DOMAIN @ |->
                       IF k - base \in 1..n
                       THEN [@[k] EXCEPT !.types = Types(k - base),
                                         !.offsets = Offsets(k - base),
                                         !.room = m.functions[k].params,
                                         !.verdict = items[k - base].verdict,
                                         !.branches = items[k - base].branches]
                       ELSE @[k]]]
           Blocks(n) == (UNION {{Types(i), Offsets(i)} : i \in 1..n}) \ {Null}
<1>1. Section("code")
  BY DEF LoadCodeSection
<1>2. /\ pc = "sections" /\ pc \notin Final
      /\ Holdings(m, heap) /\ DOMAIN m = DOMAIN NewModule /\ <<"functions">> \in m.arrays
      /\ Counted(items)
  BY <1>1, InSection
<1>3. \/ Rejected(m, {}) \/ Loaded(Mod(Len(items)), Blocks(Len(items)))
      \/ \E n \in {0} \cup DOMAIN items : Rejected(Mod(n), Blocks(n))
      \/ \E i \in DOMAIN items : \/ Rejected(Mod(i - 1), Blocks(i - 1))
                                 \/ Rejected(Mod(i - 1), (Blocks(i - 1) \cup {Types(i)}) \ {Null})
  BY DEF LoadCodeSection
<1>4. \A i : /\ Types(i) = Null \/ (Types(i) = <<"locals", pos, i>> /\ Types(i) # Null)
             /\ Offsets(i) = Null \/ (Offsets(i) = <<"offsets", pos, i>> /\ Offsets(i) # Null)
  BY DEF Null
<1>5. ASSUME NEW n \in Nat, NEW i \in 1 .. n
      PROVE  /\ Types(i) = Null \/ Types(i) \in Blocks(n)
             /\ Offsets(i) = Null \/ Offsets(i) \in Blocks(n)
  <2> DEFINE all == {{Types(j), Offsets(j)} : j \in 1 .. n}
  <2> HIDE DEF Types, Offsets
  <2>1. {Types(i), Offsets(i)} \in all
    BY <1>5
  <2>2. Blocks(n) = (UNION all) \ {Null}
    OBVIOUS
  <2>3. Types(i) \in UNION all /\ Offsets(i) \in UNION all
    BY <2>1
  <2> HIDE DEF all, Blocks
  <2> QED BY <2>2, <2>3
<1>14. ASSUME NEW n PROVE Null \notin Blocks(n)
  <2> DEFINE all == UNION {{Types(j), Offsets(j)} : j \in 1 .. n}
  <2> HIDE DEF Types, Offsets
  <2>1. Blocks(n) = all \ {Null}
    OBVIOUS
  <2> HIDE DEF all, Blocks
  <2> QED BY <2>1
<1>6. ASSUME NEW n
      PROVE  /\ DOMAIN Mod(n) = DOMAIN m
             /\ Agree(Mod(n), m, {"functions", "globals", "pages"})
             /\ DOMAIN Mod(n).functions = DOMAIN m.functions
             /\ \A k \in DOMAIN m.functions :
                  \/ Mod(n).functions[k] = m.functions[k]
                  \/ /\ k - base \in 1 .. n
                     /\ \E room, verdict, branches :
                          Mod(n).functions[k] =
                            [m.functions[k] EXCEPT !.types = Types(k - base),
                                                   !.offsets = Offsets(k - base), !.room = room,
                                                   !.verdict = verdict, !.branches = branches]
  <2> HIDE DEF Types, Offsets
  <2> QED BY <1>2, ModuleFields DEF Agree
<1> HIDE DEF Mod, Blocks, Types, Offsets
<1>7. ASSUME NEW n \in Nat, NEW g, heap \subseteq g, Blocks(n) \subseteq g
      PROVE  Holdings(Mod(n), g) /\ <<"functions">> \in Mod(n).arrays
  <2> DEFINE new == Mod(n)
  <2>1. /\ Agree(new, m, {"functions", "globals", "pages"})
        /\ DOMAIN new.functions = DOMAIN m.functions
    BY <1>6
  <2>2. new.imports = m.imports /\ new.arrays = m.arrays
    BY <1>2, <2>1, ModuleFields DEF Agree
  <2>3. HoldsFunctions(m, heap)
    BY <1>2 DEF Holdings
  <2>4. Counted(new.functions) /\ new.imports["func"] \in Nat /\ new.imports["func"] = base
    BY <2>1, <2>2, <2>3 DEF HoldsFunctions, Counted
  <2>5. ASSUME NEW k \in DOMAIN m.functions
        PROVE  LET f == new.functions[k]
               IN  /\ DOMAIN f = DOMAIN NoFunction
                   /\ f.table = Null \/ (f.table = <<"branches", k>> /\ f.table \in g)
                   /\ Holds(f.offsets, "offsets", g) /\ (f.offsets # Null => f.offsets[3] = k - base)
                   /\ Holds(f.types, "locals", g) /\ (f.types # Null => f.types[3] = k - base)
    <3> DEFINE old == m.functions[k]
               f == new.functions[k]
    <3>1. /\ DOMAIN old = DOMAIN NoFunction
          /\ old.table = Null \/ (old.table = <<"branches", k>> /\ old.table \in g)
          /\ Holds(old.offsets, "offsets", g) /\ (old.offsets # Null => old.offsets[3] = k - base)
          /\ Holds(old.types, "locals", g) /\ (old.types # Null => old.types[3] = k - base)
      BY <1>7, <2>3 DEF HoldsFunctions, Holds
    <3>2. CASE f = old
      BY <3>1, <3>2
    <3>3. CASE /\ k - base \in 1 .. n
               /\ \E room, verdict, branches :
                    f = [old EXCEPT !.types = Types(k - base),
                                    !.offsets = Offsets(k - base), !.room = room,
                                    !.verdict = verdict, !.branches = branches]
      <4>1. /\ DOMAIN f = DOMAIN NoFunction /\ f.table = old.table
            /\ f.types = Types(k - base) /\ f.offsets = Offsets(k - base)
        BY <3>1, <3>3, FunctionFields
      <4> HIDE DEF f, old
      <4>2. Holds(f.types, "locals", g) /\ (f.types # Null => f.types[3] = k - base)
        BY <1>4, <1>5, <1>7, <3>3, <4>1 DEF Holds
      <4>3. Holds(f.offsets, "offsets", g) /\ (f.offsets # Null => f.offsets[3] = k - base)
        BY <1>4, <1>5, <1>7, <3>3, <4>1 DEF Holds
      <4> QED BY <3>1, <4>1, <4>2, <4>3 DEF f
    <3>4. \/ f = old
          \/ /\ k - base \in 1 .. n
             /\ \E room, verdict, branches :
                  f = [old EXCEPT !.types = Types(k - base),
                                  !.offsets = Offsets(k - base), !.room = room,
                                  !.verdict = verdict, !.branches = branches]
      BY <1>6, ZenonT(60)
    <3> QED BY <3>2, <3>3, <3>4
  <2> HIDE DEF new
  <2>6. HoldsFunctions(new, g)
    BY <2>1, <2>4, <2>5 DEF HoldsFunctions
  <2>7. Holdings(new, g)
    BY <1>2, <1>7, <2>1, <2>6, FunctionsChange
  <2> QED BY <1>2, <2>2, <2>7 DEF new
<1>8. ASSUME NEW n \in Nat, NEW extra
      PROVE  /\ Holdings(Mod(n), heap \cup Blocks(n)) /\ <<"functions">> \in Mod(n).arrays
             /\ Holdings(Mod(n), heap \cup ((Blocks(n) \cup {extra}) \ {Null}))
  <2>1. Null \notin Blocks(n)
    BY <1>14
  <2>2. /\ heap \subseteq heap \cup Blocks(n) /\ Blocks(n) \subseteq heap \cup Blocks(n)
        /\ heap \subseteq heap \cup ((Blocks(n) \cup {extra}) \ {Null})
        /\ Blocks(n) \subseteq heap \cup ((Blocks(n) \cup {extra}) \ {Null})
    BY <2>1
  <2> QED BY <1>7, <2>2
<1>9. Len(items) \in Nat /\ \A i \in DOMAIN items : i \in Nat /\ i - 1 \in Nat
  BY <1>2 DEF Counted
<1>10. CASE Loaded(Mod(Len(items)), Blocks(Len(items)))
  BY <1>2, <1>8, <1>9, <1>10, LoadedKept
<1>11. CASE \E n \in {0} \cup DOMAIN items : Rejected(Mod(n), Blocks(n))
  BY <1>2, <1>8, <1>9, <1>11, RejectedKept
<1>12. ASSUME NEW i \in DOMAIN items, Rejected(Mod(i - 1), Blocks(i - 1))
       PROVE  Possession'
  BY <1>2, <1>8, <1>9, <1>12, RejectedKept
<1>13. ASSUME NEW i \in DOMAIN items,
              Rejected(Mod(i - 1), (Blocks(i - 1) \cup {Types(i)}) \ {Null})
       PROVE  Possession'
  <2>1. Holdings(Mod(i - 1), heap \cup ((Blocks(i - 1) \cup {Types(i)}) \ {Null}))
    BY <1>8, <1>9
  <2> QED BY <1>2, <1>13, <2>1, RejectedKept
<1> QED BY <1>2, <1>3, <1>10, <1>11, <1>12, <1>13, UnchangedRejectedKept

(* wasm_loader.                                                            *)
LEMMA LoadSectionKept ==
  ASSUME Possession, LoadSection
  PROVE  Possession'
BY LoadTypeKept, LoadImportKept, LoadFunctionKept, LoadPlainKept, LoadExportKept,
   LoadElementKept, LoadDataKept, LoadCodeKept DEF LoadSection

----------------------------------------------------------------------------
(* Validation                                                              *)

(* Validation and execution: a step that leaves the module's blocks alone. *)
LEMMA StageChange ==
  ASSUME NEW mod, NEW new, NEW h, NEW g, Holdings(mod, h), h \subseteq g,
         Agree(new, mod, {"stage"}), <<"functions">> \in mod.arrays
  PROVE  Holdings(new, g) /\ <<"functions">> \in new.arrays
<1> DEFINE changed == {"stage"}
<1>1. /\ {"types", "refs"} \cap changed = {} /\ {"elements"} \cap changed = {}
      /\ {"typesBlock", "exportsBlock", "elementsBlock", "dataBlock"} \cap changed = {}
      /\ {"functions", "imports"} \cap changed = {}
      /\ {"counts", "tables", "tableData"} \cap changed = {}
      /\ {"globalData", "memoryData", "exportFuncs", "wasi"} \cap changed = {}
  OBVIOUS
<1>2. new.arrays = mod.arrays
  BY ModuleFields DEF Agree, Holdings
<1>3. HoldsArrays(new, g)
  BY <1>2 DEF Holdings, HoldsArrays
<1> HIDE DEF changed
<1> QED BY <1>1, <1>2, <1>3, HoldingsKept DEF Holdings, changed

(* wasm_validator starts.                                                  *)
LEMMA StartValidatorKept ==
  ASSUME Possession, StartValidator
  PROVE  Possession'
<1> DEFINE mod == [m EXCEPT !.stage = "Validate"]
<1>1. pc = "validate" /\ pc \notin Final /\ pc \in WithSlots
  BY DEF StartValidator, Final, Over, Early, WithSlots
<1>2. Holdings(m, heap) /\ DOMAIN m = DOMAIN NewModule /\ <<"functions">> \in m.arrays
  BY <1>1, SlotsHeld
<1>3. Agree(mod, m, {"stage"})
  BY <1>2 DEF Agree
<1>4. /\ Holdings(mod, heap \cup {}) /\ <<"functions">> \in mod.arrays
      /\ Holdings(mod, heap)
  <2>1. heap \subseteq heap /\ heap \subseteq heap \cup {}
    OBVIOUS
  <2> HIDE DEF mod
  <2> QED BY <1>2, <1>3, <2>1, StageChange
<1>5. \/ Rejected(mod, {})
      \/ Undefined("global slots") \/ Undefined("import value") \/ Undefined("thread")
      \/ m' = mod /\ heap' = heap /\ file' = file /\ fault' = fault /\ pc' \in {"serial", "join"}
  BY DEF StartValidator
<1> HIDE DEF mod
<1>6. CASE m' = mod /\ heap' = heap /\ file' = file /\ fault' = fault /\ pc' \in {"serial", "join"}
  <2>1. fault' # "free"
    BY <1>1, <1>6 DEF Possession, Final
  <2> QED BY <1>1, <1>4, <1>6, <2>1, MoreKept DEF Final, Over, Early
<1> QED BY <1>1, <1>4, <1>5, <1>6, RejectedKept, UndefinedKept

(* A body that is validated owns its branch table; one that is rejected    *)
(* leaves the table without an owner.                                      *)
LEMMA AcceptHeld ==
  ASSUME Possession, pc \in {"join", "serial"}, NEW k, Accept(k) \/ Reject(k)
  PROVE  /\ Holdings(m', heap') /\ <<"functions">> \in m'.arrays /\ heap \subseteq heap'
<1>1. pc \notin Final /\ pc \in WithSlots
  BY DEF Final, Over, Early, WithSlots
<1>2. Holdings(m, heap) /\ DOMAIN m = DOMAIN NewModule /\ <<"functions">> \in m.arrays
  BY <1>1, SlotsHeld
<1>3. CASE Reject(k)
  <2>1. m' = m /\ heap \subseteq heap'
    BY <1>3 DEF Reject
  <2> QED BY <1>2, <2>1, SameHoldings
<1>4. CASE Accept(k)
  <2> DEFINE block == IF Branches(k) = {} THEN Null ELSE <<"branches", k>>
             new == [m EXCEPT !.functions[k].table = block]
  <2>1. m' = new /\ heap' = heap \cup {<<"stacks", k>>} \cup Branches(k)
    BY <1>4 DEF Accept
  <2>2. heap \subseteq heap' /\ (block = Null \/ (block = <<"branches", k>> /\ block \in heap'))
    <3>1. Branches(k) = {} \/ Branches(k) = {<<"branches", k>>}
      BY DEF Branches
    <3> HIDE DEF new
    <3>2. heap \subseteq heap' /\ Branches(k) \subseteq heap'
      BY <2>1
    <3> QED BY <3>1, <3>2
  <2>3. /\ Agree(new, m, {"functions", "globals", "pages"})
        /\ new.functions = [m.functions EXCEPT ![k].table = block]
    <3> HIDE DEF block
    <3> QED BY <1>2, ModuleFields DEF Agree
  <2> HIDE DEF new, block
  <2>4. new.imports = m.imports /\ new.arrays = m.arrays
    BY <1>2, <2>3, ModuleFields DEF Agree
  <2>5. HoldsFunctions(m, heap)
    BY <1>2 DEF Holdings
  <2>6. Counted(new.functions) /\ DOMAIN new.functions = DOMAIN m.functions /\ new.imports["func"] \in Nat
    BY <2>3, <2>4, <2>5 DEF HoldsFunctions, Counted
  <2> DEFINE base == m.imports["func"]
  <2>7. ASSUME NEW j \in DOMAIN m.functions
        PROVE  LET f == new.functions[j]
               IN  /\ DOMAIN f = DOMAIN NoFunction
                   /\ f.table = Null \/ (f.table = <<"branches", j>> /\ f.table \in heap')
                   /\ Holds(f.offsets, "offsets", heap') /\ (f.offsets # Null => f.offsets[3] = j - base)
                   /\ Holds(f.types, "locals", heap') /\ (f.types # Null => f.types[3] = j - base)
    <3> DEFINE old == m.functions[j]
               f == new.functions[j]
    <3>1. /\ DOMAIN old = DOMAIN NoFunction
          /\ old.table = Null \/ (old.table = <<"branches", j>> /\ old.table \in heap')
          /\ Holds(old.offsets, "offsets", heap') /\ (old.offsets # Null => old.offsets[3] = j - base)
          /\ Holds(old.types, "locals", heap') /\ (old.types # Null => old.types[3] = j - base)
      BY <2>2, <2>5 DEF HoldsFunctions, Holds
    <3>2. CASE j # k
      <4>1. f = old
        BY <2>3, <3>2
      <4> QED BY <3>1, <4>1
    <3>3. CASE j = k
      <4>1. f = [old EXCEPT !.table = block]
        BY <2>3, <3>3
      <4>2. /\ DOMAIN f = DOMAIN NoFunction /\ f.table = block
            /\ f.types = old.types /\ f.offsets = old.offsets
        BY <3>1, <4>1, FunctionFields
      <4> HIDE DEF f, old
      <4> QED BY <2>2, <3>1, <3>3, <4>2 DEF f
    <3> QED BY <3>2, <3>3
  <2>8. HoldsFunctions(new, heap')
    BY <2>4, <2>6, <2>7 DEF HoldsFunctions
  <2>9. Holdings(new, heap')
    BY <1>2, <2>2, <2>3, <2>8, FunctionsChange
  <2> QED BY <1>2, <2>1, <2>2, <2>4, <2>9
<1> QED BY <1>3, <1>4

(* A function without a body or without room for its locals.               *)
LEMMA UnusableKept ==
  ASSUME Possession, pc \notin Final, NEW k, Unusable(k)
  PROVE  Possession'
BY UndefinedKept DEF Unusable

(* The validation of the bodies, by main or by the threads in any order.   *)
LEMMA ValidationKept ==
  ASSUME Possession,
         ValidateSerially \/ JoinThreads \/ \E t \in Threads : ThreadStep(t)
  PROVE  Possession'
<1>1. pc \in {"join", "serial"} /\ pc \notin Final /\ pc \in WithSlots
  BY DEF ValidateSerially, JoinThreads, ThreadStep, ValidateBody, ThreadExit, Final, Over, Early, WithSlots
<1>2. /\ Holdings(m, heap) /\ Holdings(m, heap \cup {}) /\ <<"functions">> \in m.arrays
  BY <1>1, SlotsHeld
<1>3. ASSUME NEW k, Accept(k) \/ Reject(k), file' = file, fault' = fault, pc' \in {pc, "fail"}
      PROVE  Possession'
  <2>1. Holdings(m', heap') /\ <<"functions">> \in m'.arrays /\ heap \subseteq heap'
    BY <1>1, <1>3, AcceptHeld
  <2>2. pc' \notin Over \cup {"header"}
    BY <1>1, <1>3 DEF Final, Over, Early
  <2>3. fault' # "free" /\ pc' # "running"
    BY <1>1, <1>3 DEF Possession, Final
  <2> QED BY <1>1, <1>3, <2>1, <2>2, <2>3, MoreKept
<1>4. ASSUME NEW next \in {"globals", "fail"}, Goto(next, m, {})
      PROVE  Possession'
  <2>1. next \notin Over \cup {"header"}
    BY DEF Final, Over, Early
  <2> QED BY <1>1, <1>2, <1>4, <2>1, GotoKept
<1>5. CASE ValidateSerially
  BY <1>1, <1>3, <1>4, <1>5, UnusableKept DEF ValidateSerially
<1>6. CASE JoinThreads
  BY <1>4, <1>6 DEF JoinThreads
<1>7. ASSUME NEW t \in Threads, ValidateBody(t)
      PROVE  Possession'
  BY <1>1, <1>3, <1>7, UnusableKept DEF ValidateBody
<1>8. ASSUME NEW t \in Threads, ThreadExit(t)
      PROVE  Possession'
  <2>1. m' = m /\ heap' = heap /\ file' = file /\ fault' = fault /\ pc' = pc
    BY <1>8 DEF ThreadExit
  <2>2. pc' \notin Over \cup {"header"}
    BY <1>1, <2>1 DEF Final, Over, Early
  <2>3. fault' # "free" /\ heap \subseteq heap' /\ Holdings(m', heap') /\ pc' # "running"
    BY <1>1, <1>2, <2>1 DEF Possession, Final
  <2> QED BY <1>1, <1>2, <2>1, <2>2, <2>3, MoreKept
<1> QED BY <1>5, <1>6, <1>7, <1>8 DEF ThreadStep

----------------------------------------------------------------------------
(* Instantiation and execution                                             *)

(* A module is held after a change to its tables and what an instance has. *)
LEMMA InstanceChange ==
  ASSUME NEW mod, NEW new, NEW h, NEW g, Holdings(mod, h), h \subseteq g,
         Agree(new, mod, {"stage", "counts", "tableData", "globalData", "memoryData",
                          "exportFuncs", "wasi"}),
         <<"functions">> \in mod.arrays, HoldsTables(new, g), HoldsInstance(new, g)
  PROVE  Holdings(new, g) /\ <<"functions">> \in new.arrays
<1> DEFINE changed == {"stage", "counts", "tableData", "globalData", "memoryData",
                       "exportFuncs", "wasi"}
<1>1. /\ {"types", "refs"} \cap changed = {} /\ {"elements"} \cap changed = {}
      /\ {"typesBlock", "exportsBlock", "elementsBlock", "dataBlock"} \cap changed = {}
      /\ {"functions", "imports"} \cap changed = {}
  OBVIOUS
<1>2. new.arrays = mod.arrays
  BY ModuleFields DEF Agree, Holdings
<1>3. HoldsArrays(new, g)
  BY <1>2 DEF Holdings, HoldsArrays
<1> HIDE DEF changed
<1> QED BY <1>1, <1>2, <1>3, HoldingsKept DEF Holdings, changed

(* The count of the globals, the memories or the functions is another.     *)
LEMMA CountChange ==
  ASSUME NEW mod, NEW new, NEW h, NEW g, HoldsTables(mod, h), h \subseteq g,
         new.tables = mod.tables, new.tableData = mod.tableData,
         DOMAIN new.counts = ImportKinds, new.counts["table"] = mod.counts["table"]
  PROVE  HoldsTables(new, g)
BY DEF HoldsTables

(* globals_instantiate.                                                    *)
LEMMA GlobalsKept ==
  ASSUME Possession, GlobalsInstantiate
  PROVE  Possession'
<1> DEFINE n == Len(m.globals)
           staged == [m EXCEPT !.stage = "Instantiate"]
           data == IF n = 0 THEN Null ELSE <<"global_data">>
           done == [staged EXCEPT !.counts["global"] = n, !.globalData = data]
           g == heap \cup Allocated(done.globalData)
<1>1. pc = "globals" /\ pc \notin Final /\ pc \in WithSlots /\ "memories" \notin Over \cup {"header"}
  BY DEF GlobalsInstantiate, Final, Over, Early, WithSlots
<1>2. Holdings(m, heap) /\ DOMAIN m = DOMAIN NewModule /\ <<"functions">> \in m.arrays
  BY <1>1, SlotsHeld
<1>3. \/ Undefined("global slots") \/ Undefined("import value")
      \/ Goto("memories", done, Allocated(done.globalData)) \/ Rejected(staged, {})
  BY DEF GlobalsInstantiate
<1>4. Holdings(staged, heap \cup {})
  <2>1. Agree(staged, m, {"stage"}) /\ heap \subseteq heap \cup {}
    BY <1>2 DEF Agree
  <2> HIDE DEF staged
  <2> QED BY <1>2, <2>1, StageChange
<1>5. /\ done.globalData = data /\ done.counts = [m.counts EXCEPT !["global"] = n]
      /\ Agree(done, m, {"stage", "counts", "tableData", "globalData", "memoryData",
                         "exportFuncs", "wasi"})
      /\ Agree(done, m, {"stage", "counts", "globalData"})
  BY <1>2, ModuleFields DEF Agree
<1>6. heap \subseteq g /\ Holds(data, "global_data", g)
  <2>1. CASE n = 0
    BY <2>1 DEF Holds
  <2>2. CASE n # 0
    <3>1. data = <<"global_data">> /\ data # Null
      BY <2>2 DEF Null
    <3>2. data \in g
      BY <1>5, <3>1 DEF Allocated
    <3> QED BY <3>1, <3>2 DEF Holds
  <2> QED BY <2>1, <2>2
<1> HIDE DEF done, g, data, staged
<1>7. done.tables = m.tables /\ done.tableData = m.tableData /\ done.memoryData = m.memoryData
      /\ done.exportFuncs = m.exportFuncs /\ done.wasi = m.wasi
  BY <1>2, <1>5, ModuleFields DEF Agree
<1>8. HoldsTables(done, g)
  <2>1. HoldsTables(m, heap)
    BY <1>2 DEF Holdings
  <2>2. DOMAIN done.counts = ImportKinds /\ done.counts["table"] = m.counts["table"]
    <3> HIDE DEF n
    <3> QED BY <1>5, <2>1 DEF HoldsTables, ImportKinds
  <2> QED BY <1>6, <1>7, <2>1, <2>2, CountChange
<1>9. HoldsInstance(done, g)
  BY <1>2, <1>5, <1>6, <1>7 DEF Holdings, HoldsInstance, Holds
<1>10. Holdings(done, g) /\ <<"functions">> \in done.arrays
  BY <1>2, <1>5, <1>6, <1>8, <1>9, InstanceChange
<1>11. CASE Goto("memories", done, Allocated(done.globalData))
  BY <1>1, <1>10, <1>11, GotoKept DEF g
<1> QED BY <1>1, <1>3, <1>4, <1>11, RejectedKept, UndefinedKept

(* memories_instantiate.                                                   *)
LEMMA MemoriesKept ==
  ASSUME Possession, MemoriesInstantiate
  PROVE  Possession'
<1> DEFINE n == m.imports["memory"] + m.counts["memory"]
           none == n = 0 \/ m.pages = 0
           data == IF none THEN Null ELSE <<"memory_data">>
           done == [m EXCEPT !.counts["memory"] = n, !.memoryData = data]
           g == heap \cup Allocated(done.memoryData)
<1>1. pc = "memories" /\ pc \notin Final /\ pc \in WithSlots /\ "tables" \notin Over \cup {"header"}
  BY DEF MemoriesInstantiate, Final, Over, Early, WithSlots
<1>2. Holdings(m, heap) /\ DOMAIN m = DOMAIN NewModule /\ <<"functions">> \in m.arrays
  BY <1>1, SlotsHeld
<1>3. \/ Rejected(m, {})
      \/ \E what \in {"memory size", "memory slots", "global slots", "data segment", "import value"} :
           Undefined(what)
      \/ Goto("tables", done, Allocated(done.memoryData))
  BY DEF MemoriesInstantiate
<1>4. data = Null \/ data = <<"memory_data">>
  OBVIOUS
<1>5. /\ done.memoryData = data /\ done.counts = [m.counts EXCEPT !["memory"] = n]
      /\ Agree(done, m, {"stage", "counts", "tableData", "globalData", "memoryData",
                         "exportFuncs", "wasi"})
      /\ Agree(done, m, {"counts", "memoryData"})
  <2> HIDE DEF n, data
  <2> QED BY <1>2, ModuleFields DEF Agree
<1> HIDE DEF done, data, n
<1>6. heap \subseteq g /\ Holds(data, "memory_data", g)
  <2>1. CASE data = Null
    BY <2>1 DEF Holds
  <2>2. CASE data = <<"memory_data">>
    <3>1. data # Null
      BY <2>2 DEF Null
    <3>2. data \in g
      BY <1>5, <3>1 DEF Allocated
    <3> QED BY <2>2, <3>1, <3>2 DEF Holds
  <2> QED BY <1>4, <2>1, <2>2
<1> HIDE DEF g
<1>7. done.tables = m.tables /\ done.tableData = m.tableData /\ done.globalData = m.globalData
      /\ done.exportFuncs = m.exportFuncs /\ done.wasi = m.wasi
  BY <1>2, <1>5, ModuleFields DEF Agree
<1>8. HoldsTables(done, g)
  <2>1. HoldsTables(m, heap)
    BY <1>2 DEF Holdings
  <2>2. DOMAIN done.counts = ImportKinds /\ done.counts["table"] = m.counts["table"]
    <3> HIDE DEF n
    <3> QED BY <1>5, <2>1 DEF HoldsTables, ImportKinds
  <2> QED BY <1>6, <1>7, <2>1, <2>2, CountChange
<1>9. HoldsInstance(done, g)
  BY <1>2, <1>5, <1>6, <1>7 DEF Holdings, HoldsInstance, Holds
<1>10. Holdings(done, g) /\ <<"functions">> \in done.arrays
  BY <1>2, <1>5, <1>6, <1>8, <1>9, InstanceChange
<1>11. CASE Goto("tables", done, Allocated(done.memoryData))
  BY <1>1, <1>10, <1>11, GotoKept DEF g
<1> QED BY <1>1, <1>3, <1>11, UnchangedRejectedKept, UndefinedKept

(* tables_instantiate: after a failure the tables up to the one that       *)
(* failed are owned.                                                       *)
LEMMA TablesKept ==
  ASSUME Possession, TablesInstantiate
  PROVE  Possession'
<1> DEFINE n == m.tables
           slots(k) == [i \in 1..n |-> IF i <= k THEN <<"table_data", i>> ELSE Null]
           Data(k) == [m EXCEPT !.tableData = slots(k)]
           Blocks(k) == {<<"table_data", i>> : i \in 1..k}
           done == [Data(n) EXCEPT !.counts["table"] = n]
<1>1. pc = "tables" /\ pc \notin Final /\ pc \in WithSlots /\ "exports" \notin Over \cup {"header"}
  BY DEF TablesInstantiate, Final, Over, Early, WithSlots
<1>2. Holdings(m, heap) /\ DOMAIN m = DOMAIN NewModule /\ <<"functions">> \in m.arrays
  BY <1>1, SlotsHeld
<1>3. n \in Nat /\ m.counts["table"] \in 0 .. n /\ DOMAIN m.counts = ImportKinds /\ "table" \in ImportKinds
  BY <1>2 DEF Holdings, HoldsTables, ImportKinds
<1>4. \/ \E k \in 0 .. n - 1 : Rejected(Data(k), Blocks(k))
      \/ Undefined("element") \/ Undefined("global slots") \/ Rejected(Data(n), Blocks(n))
      \/ Goto("exports", done, Blocks(n))
  BY DEF TablesInstantiate
<1>5. ASSUME NEW k
      PROVE  /\ Data(k).tableData = slots(k) /\ Data(k).counts = m.counts
             /\ Agree(Data(k), m, {"tableData"})
  <2> HIDE DEF slots
  <2> QED BY <1>2, ModuleFields DEF Agree
<1>6. /\ done.tableData = slots(n) /\ done.counts = [m.counts EXCEPT !["table"] = n]
      /\ Agree(done, m, {"tableData", "counts"})
  <2> HIDE DEF slots
  <2> QED BY <1>2, ModuleFields DEF Agree
<1>7. ASSUME NEW k \in 0 .. n, NEW new, Agree(new, m, {"tableData", "counts"}),
             new.tableData = slots(k), DOMAIN new.counts = ImportKinds,
             new.counts["table"] \in 0 .. n
      PROVE  Holdings(new, heap \cup Blocks(k)) /\ <<"functions">> \in new.arrays
  <2> DEFINE g == heap \cup Blocks(k)
  <2>1. heap \subseteq g /\ \A i \in 1 .. k : <<"table_data", i>> \in g
    OBVIOUS
  <2>2. new.tables = n
    BY <1>2, <1>7, ModuleFields DEF Agree
  <2>3. Counted(slots(k)) /\ Len(slots(k)) = n
    BY <1>3 DEF Counted
  <2>4. \A i \in 1 .. n : slots(k)[i] = Null \/ (slots(k)[i] = <<"table_data", i>> /\ slots(k)[i] \in g)
    <3> HIDE DEF g
    <3>1. ASSUME NEW i \in 1 .. n, i <= k
          PROVE  <<"table_data", i>> \in g
      <4>1. i \in 1 .. k
        BY <3>1
      <4> QED BY <2>1, <4>1
    <3> QED BY <3>1
  <2>5. DOMAIN slots(k) = 1 .. n
    OBVIOUS
  <2> HIDE DEF slots, g, Data, done
  <2>6. HoldsTables(new, g)
    BY <1>3, <1>7, <2>2, <2>3, <2>4, <2>5 DEF HoldsTables
  <2>7. new.globalData = m.globalData /\ new.memoryData = m.memoryData
        /\ new.exportFuncs = m.exportFuncs /\ new.wasi = m.wasi
    BY <1>2, <1>7, ModuleFields DEF Agree
  <2>8. HoldsInstance(new, g)
    BY <1>2, <2>1, <2>7 DEF Holdings, HoldsInstance, Holds
  <2>9. Agree(new, m, {"stage", "counts", "tableData", "globalData", "memoryData",
                         "exportFuncs", "wasi"})
    BY <1>7 DEF Agree
  <2>10. Holdings(new, g) /\ <<"functions">> \in new.arrays
    BY <1>2, <2>1, <2>6, <2>8, <2>9, InstanceChange
  <2> QED BY <2>10 DEF g
<1>8. ASSUME NEW k \in 0 .. n
      PROVE  Holdings(Data(k), heap \cup Blocks(k))
  <2>1. Agree(Data(k), m, {"tableData", "counts"})
    BY <1>5 DEF Agree
  <2> HIDE DEF Data, Blocks, slots
  <2> QED BY <1>3, <1>5, <1>7, <2>1
<1>9. Holdings(done, heap \cup Blocks(n)) /\ <<"functions">> \in done.arrays
  <2>1. n \in 0 .. n
    BY <1>3
  <2> HIDE DEF done, Blocks, slots
  <2> QED BY <1>3, <1>6, <1>7, <2>1
<1> HIDE DEF Data, Blocks, done
<1>10. ASSUME NEW k \in 0 .. n, Rejected(Data(k), Blocks(k))
       PROVE  Possession'
  BY <1>1, <1>8, <1>10, RejectedKept
<1>11. CASE Goto("exports", done, Blocks(n))
  BY <1>1, <1>9, <1>11, GotoKept
<1>12. \A k \in 0 .. n - 1 : k \in 0 .. n
  BY <1>3
<1>13. n \in 0 .. n
  BY <1>3
<1> QED BY <1>1, <1>4, <1>10, <1>11, <1>12, <1>13, UndefinedKept

(* export_instantiate.                                                     *)
LEMMA ExportsKept ==
  ASSUME Possession, ExportInstantiate
  PROVE  Possession'
<1> DEFINE block == <<"export_functions">>
           new == [m EXCEPT !.exportFuncs = block]
           g == heap \cup {block}
<1>1. pc = "exports" /\ pc \notin Final /\ pc \in WithSlots /\ "functions" \notin Over \cup {"header"}
  BY DEF ExportInstantiate, Final, Over, Early, WithSlots
<1>2. Holdings(m, heap) /\ DOMAIN m = DOMAIN NewModule /\ <<"functions">> \in m.arrays
  BY <1>1, SlotsHeld
<1>3. Rejected(m, {}) \/ Goto("functions", new, {block})
  BY DEF ExportInstantiate
<1>4. /\ new.exportFuncs = block /\ Agree(new, m, {"exportFuncs"})
      /\ Agree(new, m, {"stage", "counts", "tableData", "globalData", "memoryData",
                        "exportFuncs", "wasi"})
  BY <1>2, ModuleFields DEF Agree
<1>5. heap \subseteq g /\ Holds(block, "export_functions", g)
  BY DEF Holds
<1> HIDE DEF new, g, block
<1>6. new.tables = m.tables /\ new.tableData = m.tableData /\ new.counts = m.counts
      /\ new.globalData = m.globalData /\ new.memoryData = m.memoryData /\ new.wasi = m.wasi
  BY <1>2, <1>4, ModuleFields DEF Agree
<1>7. HoldsTables(new, g)
  BY <1>2, <1>5, <1>6 DEF Holdings, HoldsTables
<1>8. HoldsInstance(new, g)
  BY <1>2, <1>4, <1>5, <1>6 DEF Holdings, HoldsInstance, Holds
<1>9. Holdings(new, g) /\ <<"functions">> \in new.arrays
  BY <1>2, <1>4, <1>5, <1>7, <1>8, InstanceChange
<1>10. CASE Goto("functions", new, {block})
  BY <1>1, <1>9, <1>10, GotoKept DEF g
<1> QED BY <1>1, <1>3, <1>10, UnchangedRejectedKept

(* functions_instantiate.                                                  *)
LEMMA FunctionsKept ==
  ASSUME Possession, FunctionsInstantiate
  PROVE  Possession'
<1> DEFINE n == m.counts["func"] + Base
           new == [m EXCEPT !.counts["func"] = @ + Base]
<1>1. pc = "functions" /\ pc \notin Final /\ pc \in WithSlots /\ "wasi" \notin Over \cup {"header"}
  BY DEF FunctionsInstantiate, Final, Over, Early, WithSlots
<1>2. Holdings(m, heap) /\ DOMAIN m = DOMAIN NewModule /\ <<"functions">> \in m.arrays
  BY <1>1, SlotsHeld
<1>3. Rejected(m, {}) \/ Undefined("function slots") \/ Goto("wasi", new, {})
  BY DEF FunctionsInstantiate
<1>4. HoldsTables(m, heap)
  BY <1>2 DEF Holdings
<1>5. /\ new.counts = [m.counts EXCEPT !["func"] = n] /\ Agree(new, m, {"counts"})
      /\ Agree(new, m, {"stage", "counts", "tableData", "globalData", "memoryData",
                        "exportFuncs", "wasi"})
  BY <1>2, <1>4, ModuleFields DEF Agree, HoldsTables, ImportKinds
<1> HIDE DEF new, n
<1>6. new.tables = m.tables /\ new.tableData = m.tableData /\ new.exportFuncs = m.exportFuncs
      /\ new.globalData = m.globalData /\ new.memoryData = m.memoryData /\ new.wasi = m.wasi
  BY <1>2, <1>5, ModuleFields DEF Agree
<1>7. DOMAIN new.counts = ImportKinds /\ new.counts["table"] = m.counts["table"]
  BY <1>4, <1>5 DEF HoldsTables, ImportKinds
<1>8. heap \subseteq heap \cup {}
  OBVIOUS
<1>9. HoldsTables(new, heap \cup {})
  BY <1>4, <1>6, <1>7, <1>8, CountChange
<1>10. HoldsInstance(new, heap \cup {})
  BY <1>2, <1>6 DEF Holdings, HoldsInstance, Holds
<1>11. Holdings(new, heap \cup {}) /\ <<"functions">> \in new.arrays
  BY <1>2, <1>5, <1>8, <1>9, <1>10, InstanceChange
<1>12. CASE Goto("wasi", new, {})
  BY <1>1, <1>11, <1>12, GotoKept
<1> QED BY <1>1, <1>3, <1>12, UnchangedRejectedKept, UndefinedKept

(* wasm_runtime_wasi_init: on failure the module still has the context.    *)
LEMMA WasiInitKept ==
  ASSUME Possession, WasiInit
  PROVE  Possession'
<1> DEFINE block == <<"wasi_ctx">>
           new == [m EXCEPT !.wasi = block]
<1>1. pc = "wasi" /\ pc \notin Final /\ pc \in WithSlots /\ "execute" \notin Over \cup {"header"}
  BY DEF WasiInit, Final, Over, Early, WithSlots
<1>2. Holdings(m, heap) /\ DOMAIN m = DOMAIN NewModule /\ <<"functions">> \in m.arrays
  BY <1>1, SlotsHeld
<1>3. Goto("execute", new, {block} \cup WasiBlocks) \/ Rejected(new, {block}) \/ Exhausted(m, {})
  BY DEF WasiInit
<1>4. /\ new.wasi = block /\ Agree(new, m, {"wasi"})
      /\ Agree(new, m, {"stage", "counts", "tableData", "globalData", "memoryData",
                        "exportFuncs", "wasi"})
  BY <1>2, ModuleFields DEF Agree
<1>5. block[1] = "wasi_ctx"
  OBVIOUS
<1> HIDE DEF new, block
<1>6. new.tables = m.tables /\ new.tableData = m.tableData /\ new.counts = m.counts
      /\ new.globalData = m.globalData /\ new.memoryData = m.memoryData
      /\ new.exportFuncs = m.exportFuncs
  BY <1>2, <1>4, ModuleFields DEF Agree
<1>7. ASSUME NEW g, heap \subseteq g, block \in g
      PROVE  Holdings(new, g) /\ <<"functions">> \in new.arrays
  <2>1. HoldsTables(new, g)
    BY <1>2, <1>6, <1>7 DEF Holdings, HoldsTables
  <2>2. HoldsInstance(new, g)
    BY <1>2, <1>4, <1>5, <1>6, <1>7 DEF Holdings, HoldsInstance, Holds
  <2> QED BY <1>2, <1>4, <1>7, <2>1, <2>2, InstanceChange
<1>8. CASE Goto("execute", new, {block} \cup WasiBlocks)
  <2>1. heap \subseteq heap \cup ({block} \cup WasiBlocks) /\ block \in heap \cup ({block} \cup WasiBlocks)
    OBVIOUS
  <2>2. Holdings(new, heap \cup ({block} \cup WasiBlocks)) /\ <<"functions">> \in new.arrays
    BY <1>7, <2>1
  <2> QED BY <1>1, <1>8, <2>2, GotoKept
<1>9. CASE Rejected(new, {block})
  <2>1. heap \subseteq heap \cup {block} /\ block \in heap \cup {block}
    OBVIOUS
  <2>2. Holdings(new, heap \cup {block})
    BY <1>7, <2>1
  <2> QED BY <1>1, <1>9, <2>2, RejectedKept
<1> QED BY <1>1, <1>3, <1>8, <1>9, UnchangedExhaustedKept

(* execute_main, and its way to the destruction.                           *)
LEMMA ExecutionKept ==
  ASSUME Possession, ExecuteMain \/ Return \/ Fail
  PROVE  Possession'
<1>1. CASE ExecuteMain
  <2>1. pc \in WithSlots /\ pc \notin Final /\ "running" \notin Over \cup {"header"}
    BY <1>1 DEF ExecuteMain, Final, Over, Early, WithSlots
  <2>2. <<"functions">> \in m.arrays /\ \A blocks : Holdings(m, heap \cup blocks)
    BY <2>1, SlotsHeld
  <2>3. \/ \E blocks : Rejected(m, blocks)
        \/ Goto("running", m, {<<"exec_env">>, <<"stack">>})
    BY <1>1 DEF ExecuteMain
  <2> QED BY <2>1, <2>2, <2>3, GotoKept, RejectedKept
<1>2. CASE Return
  <2>1. pc = "running" /\ pc \notin Final /\ pc' \in {"destroy", "fail"}
    BY <1>2 DEF Return, Final, Over, Early
  <2>2. Holdings(m, heap) /\ DOMAIN m = DOMAIN NewModule
    BY <2>1, SlotsHeld
  <2>3. <<"stack">> \in heap /\ fault # "free" /\ {<<"module">>, <<"file">>} \subseteq heap
    BY <2>1 DEF Possession, Final, Over
  <2>4. /\ file' = file /\ fault' = fault
        /\ \/ m' = m /\ heap' = heap
           \/ /\ m' = [m EXCEPT !.memoryData = <<"memory_data">>]
              /\ heap \ {<<"memory_data">>} \subseteq heap'
    <3>1. ASSUME m' = [m EXCEPT !.memoryData = <<"memory_data">>]
          PROVE  m'.memoryData = <<"memory_data">>
      BY <2>2, <3>1, ModuleFields
    <3> QED BY <1>2, <3>1 DEF Return
  <2>5. <<"stack">> \in heap' /\ {<<"module">>, <<"file">>} \subseteq heap'
    BY <2>3, <2>4
  <2>6. heap \subseteq Known' /\ <<"memory_data">> \in Known'
    BY <2>1, <2>4, <2>5 DEF Known, Lost
  <2>7. CASE m' = m
    <3>1. Holdings(m', Known')
      BY <2>2, <2>6, <2>7, SameHoldings
    <3> QED BY <2>1, <2>3, <2>4, <2>5, <3>1, StepKept DEF Over, Early, WithSlots
  <2>8. CASE m' = [m EXCEPT !.memoryData = <<"memory_data">>]
    <3>1. /\ Agree(m', m, {"memoryData"})
          /\ m'.memoryData = <<"memory_data">> /\ m'.globalData = m.globalData
          /\ m'.exportFuncs = m.exportFuncs /\ m'.wasi = m.wasi
      BY <2>2, <2>8, ModuleFields DEF Agree
    <3>2. HoldsInstance(m', Known')
      BY <2>2, <2>6, <3>1 DEF Holdings, HoldsInstance, Holds
    <3>3. HoldsTables(m', Known')
      BY <2>2, <2>6, <3>1, ModuleFields DEF Holdings, HoldsTables, Agree
    <3>4. Agree(m', m, {"stage", "counts", "tableData", "globalData", "memoryData",
                        "exportFuncs", "wasi"})
      BY <3>1 DEF Agree
    <3>5. <<"functions">> \in m.arrays
      BY <2>1, SlotsHeld DEF WithSlots
    <3>6. Holdings(m', Known')
      BY <2>2, <2>6, <3>2, <3>3, <3>4, <3>5, InstanceChange
    <3> QED BY <2>1, <2>3, <2>4, <2>5, <3>6, StepKept DEF Over, Early, WithSlots
  <2> QED BY <2>4, <2>7, <2>8
<1>3. CASE Fail
  <2>1. /\ pc = "fail" /\ pc' = "destroy" /\ fault' = fault
        /\ m' = m /\ heap' = heap /\ file' = file
    BY <1>3 DEF Fail
  <2>2. Known' = Known
    BY <2>1 DEF Known, Lost
  <2> QED BY <2>1, <2>2 DEF Possession, FreedOnce, Early, WithSlots
<1> QED BY <1>1, <1>2, <1>3

----------------------------------------------------------------------------
(* Destruction                                                             *)

(* A list of frees: allocated blocks of some kinds, none of them twice.    *)
Part(s, tags, h) ==
  /\ s \in Seq(h \cup {Null})
  /\ \A i \in DOMAIN s : s[i] # Null => s[i][1] \in tags
  /\ ~Repeats(s)

(* Nothing is freed ...                                                    *)
LEMMA PartEmpty ==
  ASSUME NEW h
  PROVE  Part(<<>>, {}, h)
BY DEF Part, Repeats

(* ... or one block ...                                                    *)
LEMMA PartOne ==
  ASSUME NEW h, NEW b, NEW tag, Holds(b, tag, h)
  PROVE  Part(<<b>>, {tag}, h)
<1>1. /\ <<b>> \in Seq(h \cup {Null}) /\ Len(<<b>>) = 1 /\ DOMAIN <<b>> = 1 .. 1 /\ <<b>>[1] = b
  BY DEF Holds
<1> DEFINE s == <<b>>
<1> HIDE DEF s
<1>2. \A i, j \in DOMAIN s : ~(i < j)
  BY <1>1 DEF s
<1>3. \A i \in DOMAIN s : s[i] # Null => s[i][1] \in {tag}
  BY <1>1 DEF Holds, s
<1> QED BY <1>1, <1>2, <1>3 DEF Part, Repeats, s

(* ... or two lists of blocks of different kinds, one after the other.     *)
LEMMA PartJoined ==
  ASSUME NEW h, NEW s, NEW t, NEW left, NEW right,
         Part(s, left, h), Part(t, right, h), left \cap right = {}
  PROVE  Part(s \o t, left \cup right, h)
<1> DEFINE B == h \cup {Null}
           u == s \o t
<1>1. s \in Seq(B) /\ t \in Seq(B)
  BY DEF Part
<1> HIDE DEF B
<1>2. /\ u \in Seq(B) /\ Len(s) \in Nat /\ Len(t) \in Nat
      /\ DOMAIN s = 1 .. Len(s) /\ DOMAIN t = 1 .. Len(t) /\ DOMAIN u = 1 .. Len(s) + Len(t)
      /\ \A i \in 1 .. Len(s) + Len(t) : u[i] = IF i <= Len(s) THEN s[i] ELSE t[i - Len(s)]
  BY <1>1
<1> HIDE DEF u
<1>3. ASSUME NEW i \in DOMAIN u
      PROVE  \/ i \in DOMAIN s /\ u[i] = s[i]
             \/ i \notin DOMAIN s /\ i - Len(s) \in DOMAIN t /\ u[i] = t[i - Len(s)]
  BY <1>2, SMT
<1>4. \A i \in DOMAIN u : u[i] # Null => u[i][1] \in left \cup right
  BY <1>3 DEF Part
<1>5. ~Repeats(u)
  <2> SUFFICES ASSUME NEW i \in DOMAIN u, NEW j \in DOMAIN u, i < j, u[i] = u[j], u[i] # Null
               PROVE  FALSE
    BY DEF Repeats
  <2>1. CASE i \in DOMAIN s /\ j \in DOMAIN s
    <3>1. s[i] = s[j] /\ s[i] # Null
      BY <1>3, <2>1
    <3> QED BY <2>1, <3>1 DEF Part, Repeats
  <2>2. CASE i \notin DOMAIN s /\ j \notin DOMAIN s
    <3>1. /\ i - Len(s) \in DOMAIN t /\ j - Len(s) \in DOMAIN t
          /\ t[i - Len(s)] = t[j - Len(s)] /\ t[i - Len(s)] # Null
      BY <1>3, <2>2
    <3>2. i - Len(s) < j - Len(s)
      BY <1>2, SMT
    <3> QED BY <3>1, <3>2, Zenon DEF Part, Repeats
  <2>3. CASE i \in DOMAIN s /\ j \notin DOMAIN s
    <3>1. u[i] = s[i] /\ j - Len(s) \in DOMAIN t /\ u[j] = t[j - Len(s)]
      BY <1>3, <2>3
    <3>2. u[i][1] \in left /\ u[i][1] \in right
      BY <2>3, <3>1 DEF Part
    <3> QED BY <3>2
  <2>4. CASE i \notin DOMAIN s /\ j \in DOMAIN s
    BY <1>2, <2>4, SMT
  <2> QED BY <2>1, <2>2, <2>3, <2>4
<1> QED BY <1>2, <1>4, <1>5 DEF Part, B, u

(* A sequence whose blocks differ.                                         *)
LEMMA PartDistinct ==
  ASSUME NEW h, NEW tag, NEW s \in Seq(h \cup {Null}),
         \A i \in DOMAIN s : s[i] # Null => s[i][1] = tag,
         \A i, j \in DOMAIN s : s[i] = s[j] /\ s[i] # Null => i = j
  PROVE  Part(s, {tag}, h)
<1>1. DOMAIN s \subseteq Int
  OBVIOUS
<1>2. ~Repeats(s)
  <2> SUFFICES ASSUME NEW i \in DOMAIN s, NEW j \in DOMAIN s, i < j, s[i] = s[j], s[i] # Null
               PROVE  FALSE
    BY DEF Repeats
  <2>1. i = j
    OBVIOUS
  <2> QED BY <1>1, <2>1, SMT
<1> QED BY <1>2 DEF Part

(* Before wasm_module_destory.                                             *)
Destroying == Possession /\ pc = "destroy"

(* What wasm_module_destory finds.                                         *)
LEMMA DestroyingHolds ==
  ASSUME Destroying
  PROVE  Holdings(m, Known) /\ {<<"module">>, <<"file">>} \subseteq Known
BY DEF Destroying, Possession, Early, Known

(* What wasm_module_destory frees of an instance.                          *)
LEMMA PartOfInstance ==
  ASSUME Destroying
  PROVE  Part(FreesOfInstance,
              {"global_data", "wasi_ctx", "export_functions"} \cup {"table_data"} \cup {"memory_data"},
              Known)
<1> DEFINE s == <<m.globalData, m.wasi, m.exportFuncs>>
           t == SubSeq(m.tableData, 1, m.counts["table"])
           u == IF m.counts["memory"] > 0 THEN <<m.memoryData>> ELSE <<>>
<1>1. HoldsInstance(m, Known) /\ HoldsTables(m, Known)
  BY DestroyingHolds DEF Holdings
<1>2. Part(s, {"global_data", "wasi_ctx", "export_functions"}, Known)
  <2>1. s \in Seq(Known \cup {Null}) /\ Len(s) = 3 /\ DOMAIN s = 1 .. 3
        /\ s[1] = m.globalData /\ s[2] = m.wasi /\ s[3] = m.exportFuncs
    BY <1>1 DEF HoldsInstance, Holds
  <2> HIDE DEF s
  <2>2. \A i \in DOMAIN s : i = 1 \/ i = 2 \/ i = 3
    BY <2>1
  <2>3. \A i \in DOMAIN s : s[i] # Null =>
          s[i][1] = IF i = 1 THEN "global_data" ELSE IF i = 2 THEN "wasi_ctx" ELSE "export_functions"
    BY <1>1, <2>1, <2>2 DEF HoldsInstance, Holds
  <2>4. \A i, j \in DOMAIN s : (s[i] = s[j] /\ s[i] # Null) => i = j
    BY <2>2, <2>3
  <2>5. ~Repeats(s)
    <3> SUFFICES ASSUME NEW i \in DOMAIN s, NEW j \in DOMAIN s, i < j, s[i] = s[j], s[i] # Null
                 PROVE  FALSE
      BY DEF Repeats
    <3>1. i = j /\ i \in 1 .. 3
      BY <2>1, <2>4
    <3> QED BY <3>1, SMT
  <2> QED BY <2>1, <2>3, <2>5 DEF Part
<1>3. Part(t, {"table_data"}, Known)
  <2>1. /\ t \in Seq(Known \cup {Null}) /\ DOMAIN t = 1 .. m.counts["table"]
        /\ \A i \in DOMAIN t : t[i] = m.tableData[i] /\ i \in DOMAIN m.tableData
    BY <1>1 DEF HoldsTables, Counted
  <2> HIDE DEF t
  <2>2. \A i \in DOMAIN t : t[i] # Null => t[i] = <<"table_data", i>>
    BY <1>1, <2>1 DEF HoldsTables
  <2>3. \A i \in DOMAIN t : t[i] # Null => t[i][1] = "table_data"
    BY <2>2
  <2>4. \A i, j \in DOMAIN t : (t[i] = t[j] /\ t[i] # Null) => i = j
    <3> SUFFICES ASSUME NEW i \in DOMAIN t, NEW j \in DOMAIN t, t[i] = t[j], t[i] # Null
                 PROVE  i = j
      OBVIOUS
    <3>1. <<"table_data", i>> = <<"table_data", j>>
      BY <2>2
    <3> QED BY <3>1
  <2> QED BY <2>1, <2>3, <2>4, PartDistinct
<1>4. Part(u, {"memory_data"}, Known)
  <2>1. Part(<<m.memoryData>>, {"memory_data"}, Known)
    BY <1>1, PartOne DEF HoldsInstance
  <2>2. Part(<<>>, {"memory_data"}, Known)
    BY PartEmpty DEF Part
  <2> QED BY <2>1, <2>2
<1> HIDE DEF s, t, u
<1>5. {"global_data", "wasi_ctx", "export_functions"} \cap {"table_data"} = {}
  OBVIOUS
<1>6. ({"global_data", "wasi_ctx", "export_functions"} \cup {"table_data"}) \cap {"memory_data"} = {}
  OBVIOUS
<1>7. Part(s \o t, {"global_data", "wasi_ctx", "export_functions"} \cup {"table_data"}, Known)
  BY <1>2, <1>3, <1>5, PartJoined
<1>8. Part((s \o t) \o u,
           ({"global_data", "wasi_ctx", "export_functions"} \cup {"table_data"}) \cup {"memory_data"},
           Known)
  BY <1>4, <1>6, <1>7, PartJoined
<1> QED BY <1>8 DEF FreesOfInstance, s, t, u

(* The slots it goes through exist.                                        *)
Bounded == <<"functions">> \in m.arrays => Defined \in 0 .. Len(m.functions) - Base

(* The slots it takes for those of the defined functions are such slots.   *)
LEMMA OwnHolds ==
  ASSUME Destroying, <<"functions">> \in m.arrays, Bounded, NEW k \in 1 .. Defined
  PROVE  /\ Own(k).table = Null \/ (Own(k).table = <<"branches", Base + k>> /\ Own(k).table \in Known)
         /\ Holds(Own(k).offsets, "offsets", Known) /\ (Own(k).offsets # Null => Own(k).offsets[3] = k)
         /\ Holds(Own(k).types, "locals", Known) /\ (Own(k).types # Null => Own(k).types[3] = k)
<1>1. HoldsFunctions(m, Known)
  BY DestroyingHolds DEF Holdings
<1>2. Base \in Nat /\ Defined \in 0 .. Len(m.functions) - Base /\ Len(m.functions) \in Nat
      /\ DOMAIN m.functions = 1 .. Len(m.functions)
  BY <1>1 DEF HoldsFunctions, Counted, Base, Bounded
<1>3. Base + k \in DOMAIN m.functions /\ (Base + k) - Base = k
  <2> HIDE DEF Base, Defined
  <2> QED BY <1>2
<1>4. (Base + k) - m.imports["func"] = k
  BY <1>3 DEF Base
<1> QED BY <1>1, <1>3, <1>4 DEF HoldsFunctions, Own

(* What it frees of the validation: the branch tables.                     *)
LEMMA PartOfValidation ==
  ASSUME Destroying, <<"functions">> \in m.arrays, Bounded
  PROVE  Part(FreesOfValidation, {"branches"}, Known)
<1> DEFINE s == FreesOfValidation
<1>0. Base \in Nat /\ Defined \in Nat
  <2>1. HoldsFunctions(m, Known)
    BY DestroyingHolds DEF Holdings
  <2> HIDE DEF Defined
  <2> QED BY <2>1 DEF HoldsFunctions, Counted, Base, Bounded
<1>1. /\ DOMAIN s = 1 .. Defined
      /\ \A k \in 1 .. Defined : s[k] = Own(k).table
  BY <1>0 DEF FreesOfValidation
<1>2. \A k \in 1 .. Defined : s[k] = Null \/ (s[k] = <<"branches", Base + k>> /\ s[k] \in Known)
  BY <1>1, OwnHolds, Zenon
<1>3. s \in Seq(Known \cup {Null})
  <2>1. \A k \in 1 .. Defined : Own(k).table \in Known \cup {Null}
    BY <1>1, <1>2
  <2> HIDE DEF s
  <2>2. s = [k \in 1 .. Defined |-> Own(k).table]
    BY DEF s, FreesOfValidation
  <2> QED BY <1>0, <2>1, <2>2
<1> HIDE DEF s
<1>4. \A k \in DOMAIN s : s[k] # Null => s[k][1] = "branches"
  BY <1>1, <1>2
<1>5. \A i, j \in DOMAIN s : (s[i] = s[j] /\ s[i] # Null) => i = j
  <2> SUFFICES ASSUME NEW i \in 1 .. Defined, NEW j \in 1 .. Defined, s[i] = s[j], s[i] # Null
               PROVE  i = j
    BY <1>1
  <2>1. <<"branches", Base + i>> = <<"branches", Base + j>>
    BY <1>2
  <2>2. Base + i = Base + j
    BY <2>1
  <2> HIDE DEF Defined, Base
  <2> QED BY <1>0, <2>2, SMT
<1> QED BY <1>3, <1>4, <1>5, PartDistinct DEF s

(* A type is freed at the last of the entries that share it, and only      *)
(* there: of two entries with one type the first finds the count above     *)
(* one.                                                                    *)
LEMMA PartOfTypes ==
  ASSUME Destroying
  PROVE  Part(TypeFrees, {"type"}, Known)
<1> DEFINE n == Len(m.types)
           s == TypeFrees
           Before(i) == {j \in 1 .. i - 1 : m.types[j] = m.types[i]}
           Same(i) == {j \in DOMAIN m.types : m.types[j] = m.types[i]}
<1>1. HoldsTypes(m, Known)
  BY DestroyingHolds DEF Holdings
<1>2. n \in Nat /\ DOMAIN m.types = 1 .. n
  BY <1>1 DEF HoldsTypes, Counted
<1>3. DOMAIN s = 1 .. n
  BY DEF TypeFrees
<1>4. \A i \in 1 .. n :
        s[i] = IF m.refs[m.types[i]] - Cardinality(Before(i)) <= 1 THEN m.types[i] ELSE Null
  BY DEF TypeFrees
<1>5. \A i \in 1 .. n : m.types[i] \in Known /\ m.types[i][1] = "type"
                        /\ m.refs[m.types[i]] = Cardinality(Same(i))
  BY <1>1, <1>2 DEF HoldsTypes
<1>6. s \in Seq(Known \cup {Null})
  <2>1. \A i \in 1 .. n : s[i] \in Known \cup {Null}
    BY <1>4, <1>5
  <2>2. s = [i \in 1 .. n |-> s[i]]
    BY DEF TypeFrees
  <2> HIDE DEF s
  <2> QED BY <1>2, <2>1, <2>2
<1> HIDE DEF s
<1>7. \A i \in DOMAIN s : s[i] # Null => s[i][1] = "type"
  BY <1>3, <1>4, <1>5
<1>8. ~Repeats(s)
  <2> SUFFICES ASSUME NEW i \in 1 .. n, NEW j \in 1 .. n, i < j, s[i] = s[j], s[i] # Null
               PROVE  FALSE
    BY <1>3 DEF Repeats
  <2>1. /\ m.types[i] = m.types[j]
        /\ m.refs[m.types[i]] - Cardinality(Before(i)) <= 1
    BY <1>4
  <2>2. /\ Before(i) \in SUBSET (1 .. n) /\ Same(i) \in SUBSET (1 .. n)
        /\ i \notin Before(i) /\ j \notin Before(i) \cup {i}
        /\ (Before(i) \cup {i}) \cup {j} \in SUBSET Same(i)
    <3> HIDE DEF n
    <3>1. Before(i) \in SUBSET (1 .. n) /\ i \notin Before(i) /\ j \notin Before(i)
      BY <1>2
    <3>2. j # i
      BY SMT
    <3>3. Before(i) \in SUBSET Same(i)
      BY <1>2
    <3>4. i \in Same(i) /\ j \in Same(i)
      BY <1>2, <2>1
    <3> QED BY <1>2, <3>1, <3>2, <3>3, <3>4
  <2> HIDE DEF n, Before, Same
  <2>3. /\ IsFiniteSet(Before(i)) /\ Cardinality(Before(i)) \in Nat
        /\ IsFiniteSet(Same(i)) /\ Cardinality(Same(i)) \in Nat
    BY <1>2, <2>2, CardinalityNat
  <2>4. IsFiniteSet(Before(i) \cup {i}) /\ Cardinality(Before(i) \cup {i}) = Cardinality(Before(i)) + 1
    BY <2>2, <2>3, FS_AddElement
  <2>5. /\ Cardinality((Before(i) \cup {i}) \cup {j}) = Cardinality(Before(i) \cup {i}) + 1
    BY <2>2, <2>4, FS_AddElement
  <2>6. Cardinality((Before(i) \cup {i}) \cup {j}) <= Cardinality(Same(i))
    BY <2>2, <2>3, FS_Subset
  <2>7. Cardinality(Same(i)) - Cardinality(Before(i)) <= 1
    BY <1>5, <2>1
  <2> QED BY <2>3, <2>4, <2>5, <2>6, <2>7, SMT
<1> QED BY <1>6, <1>7, <1>8 DEF Part, s

(* The arrays of the sections.                                             *)
LEMMA PartOfSections ==
  ASSUME Destroying
  PROVE  Part(ArraysOfSections, {"types", "exports", "elements", "data"}, Known)
<1> DEFINE s == ArraysOfSections
<1>1. HoldsSections(m, Known)
  BY DestroyingHolds DEF Holdings
<1>2. s \in Seq(Known \cup {Null}) /\ Len(s) = 4 /\ DOMAIN s = 1 .. 4
      /\ s[1] = m.typesBlock /\ s[2] = m.exportsBlock /\ s[3] = m.elementsBlock /\ s[4] = m.dataBlock
  BY <1>1 DEF HoldsSections, Holds, ArraysOfSections
<1> HIDE DEF s
<1>3. \A i \in DOMAIN s : i = 1 \/ i = 2 \/ i = 3 \/ i = 4
  BY <1>2
<1>4. \A i \in DOMAIN s : s[i] # Null =>
        s[i][1] = IF i = 1 THEN "types" ELSE IF i = 2 THEN "exports"
                  ELSE IF i = 3 THEN "elements" ELSE "data"
  BY <1>1, <1>2, <1>3 DEF HoldsSections, Holds
<1>5. \A i, j \in DOMAIN s : (s[i] = s[j] /\ s[i] # Null) => i = j
  BY <1>3, <1>4
<1>6. ~Repeats(s)
  <2> SUFFICES ASSUME NEW i \in DOMAIN s, NEW j \in DOMAIN s, i < j, s[i] = s[j], s[i] # Null
               PROVE  FALSE
    BY DEF Repeats
  <2>1. i = j /\ i \in 1 .. 4
    BY <1>2, <1>5
  <2> QED BY <2>1, SMT
<1> QED BY <1>2, <1>4, <1>6 DEF Part, s

(* The arrays of the slots.                                                *)
LEMMA PartOfSlots ==
  ASSUME Destroying
  PROVE  Part(ArraysOfSlots, {"globals", "functions", "tables"}, Known)
<1> DEFINE s == ArraysOfSlots
<1>1. HoldsArrays(m, Known)
  BY DestroyingHolds DEF Holdings
<1>2. Arrays \in Seq({"globals", "functions", "tables"}) /\ DOMAIN Arrays = 1 .. 3
      /\ Arrays[1] = "globals" /\ Arrays[2] = "functions" /\ Arrays[3] = "tables"
  BY DEF Arrays
<1>3. DOMAIN s = 1 .. 3 /\ \A i \in 1 .. 3 : s[i] = IF <<Arrays[i]>> \in m.arrays THEN <<Arrays[i]>> ELSE Null
  BY <1>2 DEF ArraysOfSlots
<1>4. s \in Seq(Known \cup {Null})
  <2>1. \A i \in 1 .. 3 : s[i] \in Known \cup {Null}
    BY <1>1, <1>3 DEF HoldsArrays
  <2>2. s = [i \in 1 .. 3 |-> s[i]]
    BY <1>2 DEF ArraysOfSlots
  <2> HIDE DEF s
  <2> QED BY <2>1, <2>2
<1> HIDE DEF s
<1>5. \A i \in DOMAIN s : s[i] # Null => s[i] = <<Arrays[i]>>
  BY <1>3
<1>6. \A i \in DOMAIN s : s[i] # Null => s[i][1] = Arrays[i]
  BY <1>5
<1>7. \A i \in DOMAIN s : (i = 1 \/ i = 2 \/ i = 3) /\ Arrays[i] \in {"globals", "functions", "tables"}
  BY <1>2, <1>3
<1>8. \A i, j \in DOMAIN s : (s[i] = s[j] /\ s[i] # Null) => i = j
  BY <1>2, <1>6, <1>7
<1>9. ~Repeats(s)
  <2> SUFFICES ASSUME NEW i \in DOMAIN s, NEW j \in DOMAIN s, i < j, s[i] = s[j], s[i] # Null
               PROVE  FALSE
    BY DEF Repeats
  <2>1. i = j /\ i \in 1 .. 3
    BY <1>3, <1>8
  <2> QED BY <2>1, SMT
<1> QED BY <1>4, <1>6, <1>7, <1>9 DEF Part, s

(* The arrays of the bodies.                                               *)
LEMMA PartOfBodies ==
  ASSUME Destroying, <<"functions">> \in m.arrays, Bounded
  PROVE  /\ Part([k \in 1 .. Defined |-> Own(k).offsets], {"offsets"}, Known)
         /\ Part([k \in 1 .. Defined |-> Own(k).types], {"locals"}, Known)
<1> DEFINE s == [k \in 1 .. Defined |-> Own(k).offsets]
           t == [k \in 1 .. Defined |-> Own(k).types]
<1>0. Defined \in Nat
  <2>1. HoldsFunctions(m, Known)
    BY DestroyingHolds DEF Holdings
  <2> HIDE DEF Defined
  <2> QED BY <2>1 DEF HoldsFunctions, Counted, Base, Bounded
<1>1. \A k \in 1 .. Defined :
        /\ Holds(Own(k).offsets, "offsets", Known) /\ (Own(k).offsets # Null => Own(k).offsets[3] = k)
        /\ Holds(Own(k).types, "locals", Known) /\ (Own(k).types # Null => Own(k).types[3] = k)
  BY OwnHolds, Zenon
<1> HIDE DEF Defined, Own
<1>2. /\ s \in Seq(Known \cup {Null}) /\ DOMAIN s = 1 .. Defined
      /\ \A k \in 1 .. Defined : s[k] = Own(k).offsets
  BY <1>0, <1>1 DEF Holds
<1>3. /\ t \in Seq(Known \cup {Null}) /\ DOMAIN t = 1 .. Defined
      /\ \A k \in 1 .. Defined : t[k] = Own(k).types
  BY <1>0, <1>1 DEF Holds
<1> HIDE DEF s, t
<1>4. Part(s, {"offsets"}, Known)
  <2>1. \A k \in DOMAIN s : s[k] # Null => s[k][1] = "offsets"
    BY <1>1, <1>2 DEF Holds
  <2>2. \A i, j \in DOMAIN s : (s[i] = s[j] /\ s[i] # Null) => i = j
    BY <1>1, <1>2
  <2> QED BY <1>2, <2>1, <2>2, PartDistinct
<1>5. Part(t, {"locals"}, Known)
  <2>1. \A k \in DOMAIN t : t[k] # Null => t[k][1] = "locals"
    BY <1>1, <1>3 DEF Holds
  <2>2. \A i, j \in DOMAIN t : (t[i] = t[j] /\ t[i] # Null) => i = j
    BY <1>1, <1>3
  <2> QED BY <1>3, <2>1, <2>2, PartDistinct
<1> QED BY <1>4, <1>5 DEF s, t

(* The arrays of the elements.                                             *)
LEMMA PartOfElements ==
  ASSUME Destroying
  PROVE  Part([e \in DOMAIN m.elements |-> m.elements[e].block], {"indexes"}, Known)
<1> DEFINE s == [e \in DOMAIN m.elements |-> m.elements[e].block]
<1>1. HoldsElements(m, Known)
  BY DestroyingHolds DEF Holdings
<1>2. Len(m.elements) \in Nat /\ DOMAIN m.elements = 1 .. Len(m.elements)
      /\ \A e \in DOMAIN m.elements :
           /\ Holds(m.elements[e].block, "indexes", Known)
           /\ (m.elements[e].block # Null => m.elements[e].block[3] = e)
  BY <1>1 DEF HoldsElements, Counted
<1>3. /\ s \in Seq(Known \cup {Null}) /\ DOMAIN s = DOMAIN m.elements
      /\ \A e \in DOMAIN s : s[e] = m.elements[e].block
  BY <1>2 DEF Holds
<1> HIDE DEF s
<1>4. \A e \in DOMAIN s : s[e] # Null => s[e][1] = "indexes"
  BY <1>2, <1>3 DEF Holds
<1>5. \A i, j \in DOMAIN s : (s[i] = s[j] /\ s[i] # Null) => i = j
  BY <1>2, <1>3
<1> QED BY <1>3, <1>4, <1>5, PartDistinct DEF s

(* What it frees of the loaded module.                                     *)
LEMMA PartOfLoad ==
  ASSUME Destroying, Bounded
  PROVE  Part(FreesOfLoad,
              ((({"type"} \cup {"types", "exports", "elements", "data"})
                \cup {"globals", "functions", "tables"}) \cup {"offsets", "locals"}) \cup {"indexes"},
              Known)
<1> DEFINE bodies == IF <<"functions">> \in m.arrays
                     THEN [k \in 1 .. Defined |-> Own(k).offsets] \o [k \in 1 .. Defined |-> Own(k).types]
                     ELSE <<>>
           elements == [e \in DOMAIN m.elements |-> m.elements[e].block]
           A == {"type"}
           B == {"types", "exports", "elements", "data"}
           C == {"globals", "functions", "tables"}
           D == {"offsets", "locals"}
           E == {"indexes"}
<1>1. Part(TypeFrees, A, Known) /\ Part(ArraysOfSections, B, Known) /\ Part(ArraysOfSlots, C, Known)
      /\ Part(elements, E, Known)
  BY PartOfTypes, PartOfSections, PartOfSlots, PartOfElements
<1>2. Part(bodies, D, Known)
  <2>1. CASE <<"functions">> \in m.arrays
    <3> DEFINE s == [k \in 1 .. Defined |-> Own(k).offsets]
               t == [k \in 1 .. Defined |-> Own(k).types]
    <3>1. Part(s, {"offsets"}, Known) /\ Part(t, {"locals"}, Known)
      BY <2>1, PartOfBodies
    <3>2. bodies = s \o t
      BY <2>1
    <3> HIDE DEF s, t, bodies
    <3>3. {"offsets"} \cap {"locals"} = {} /\ {"offsets"} \cup {"locals"} = D
      OBVIOUS
    <3> QED BY <3>1, <3>2, <3>3, PartJoined
  <2>2. CASE <<"functions">> \notin m.arrays
    <3>1. bodies = <<>>
      BY <2>2
    <3>2. Part(<<>>, D, Known)
      BY PartEmpty DEF Part
    <3> HIDE DEF bodies, D
    <3> QED BY <3>1, <3>2
  <2> QED BY <2>1, <2>2
<1>3. A \cap B = {} /\ (A \cup B) \cap C = {} /\ ((A \cup B) \cup C) \cap D = {}
      /\ (((A \cup B) \cup C) \cup D) \cap E = {}
  OBVIOUS
<1>4. FreesOfLoad = (((TypeFrees \o ArraysOfSections) \o ArraysOfSlots) \o bodies) \o elements
  BY DEF FreesOfLoad
<1> HIDE DEF A, B, C, D, E, bodies, elements
<1>5. Part(TypeFrees \o ArraysOfSections, A \cup B, Known)
  BY <1>1, <1>3, PartJoined
<1>6. Part((TypeFrees \o ArraysOfSections) \o ArraysOfSlots, (A \cup B) \cup C, Known)
  BY <1>1, <1>3, <1>5, PartJoined
<1>7. Part(((TypeFrees \o ArraysOfSections) \o ArraysOfSlots) \o bodies, ((A \cup B) \cup C) \cup D, Known)
  BY <1>2, <1>3, <1>6, PartJoined
<1>8. Part((((TypeFrees \o ArraysOfSections) \o ArraysOfSlots) \o bodies) \o elements,
           (((A \cup B) \cup C) \cup D) \cup E, Known)
  BY <1>1, <1>3, <1>7, PartJoined
<1> QED BY <1>4, <1>8 DEF A, B, C, D, E

(* All it frees is allocated or was, and no block is freed twice.          *)
LEMMA FreesHeld ==
  ASSUME Destroying, Bounded
  PROVE  Released \subseteq Known /\ ~Repeats(Frees)
<1> DEFINE A == {"global_data", "wasi_ctx", "export_functions"} \cup {"table_data"} \cup {"memory_data"}
           B == {"branches"}
           C == ((({"type"} \cup {"types", "exports", "elements", "data"})
                \cup {"globals", "functions", "tables"}) \cup {"offsets", "locals"}) \cup {"indexes"}
           D == {"module", "file"}
           s == IF m.stage = "Instantiate" THEN FreesOfInstance ELSE <<>>
           t == IF m.stage # "Load" THEN FreesOfValidation ELSE <<>>
           u == << <<"module">>, <<"file">> >>
<1>0. Part(<<>>, A, Known) /\ Part(<<>>, B, Known)
  BY PartEmpty DEF Part
<1>1. Part(s, A, Known)
  <2> HIDE DEF A
  <2>1. Part(FreesOfInstance, A, Known)
    BY PartOfInstance DEF A
  <2> QED BY <1>0, <2>1
<1>2. Part(t, B, Known)
  <2>1. CASE m.stage # "Load"
    <3>1. <<"functions">> \in m.arrays
      BY <2>1, DestroyingHolds DEF Holdings, HoldsArrays
    <3> QED BY <2>1, <3>1, PartOfValidation
  <2>2. CASE m.stage = "Load"
    BY <1>0, <2>2
  <2> QED BY <2>1, <2>2
<1>3. Part(FreesOfLoad, C, Known)
  BY PartOfLoad
<1>4. Part(u, D, Known)
  <2>1. {<<"module">>, <<"file">>} \subseteq Known
    BY DestroyingHolds
  <2>2. /\ u \in Seq(Known \cup {Null}) /\ DOMAIN u = 1 .. 2
        /\ u[1] = <<"module">> /\ u[2] = <<"file">>
    BY <2>1
  <2> HIDE DEF u
  <2>3. \A i \in DOMAIN u : (i = 1 \/ i = 2) /\ u[i][1] \in D
    BY <2>2
  <2>4. u[1] # u[2]
    <3>1. u[1][1] # u[2][1]
      BY <2>2
    <3> QED BY <3>1
  <2>5. ~Repeats(u)
    <3> SUFFICES ASSUME NEW i \in DOMAIN u, NEW j \in DOMAIN u, i < j, u[i] = u[j]
                 PROVE  FALSE
      BY DEF Repeats
    <3>1. i \in 1 .. 2 /\ j \in 1 .. 2
      BY <2>2
    <3>2. i = 1 /\ j = 2
      BY <3>1, SMT
    <3> QED BY <2>4, <3>2
  <2> QED BY <2>2, <2>3, <2>5 DEF Part
<1>5. A \cap B = {} /\ (A \cup B) \cap C = {} /\ ((A \cup B) \cup C) \cap D = {}
  OBVIOUS
<1>6. Frees = ((s \o t) \o FreesOfLoad) \o u
  BY DEF Frees
<1> HIDE DEF A, B, C, D, s, t, u
<1>7. Part(s \o t, A \cup B, Known)
  BY <1>1, <1>2, <1>5, PartJoined
<1>8. Part((s \o t) \o FreesOfLoad, (A \cup B) \cup C, Known)
  BY <1>3, <1>5, <1>7, PartJoined
<1>9. Part(Frees, ((A \cup B) \cup C) \cup D, Known)
  BY <1>4, <1>5, <1>6, <1>8, PartJoined
<1>10. Frees \in Seq(Known \cup {Null}) /\ ~Repeats(Frees)
  BY <1>9 DEF Part
<1>11. ToSet(Frees) \subseteq Known \cup {Null}
  <2> DEFINE r == Frees
  <2> HIDE DEF r
  <2> SUFFICES ASSUME r \in Seq(Known \cup {Null}) PROVE ToSet(r) \subseteq Known \cup {Null}
    BY <1>10 DEF r
  <2> QED BY DEF ToSet
<1> QED BY <1>10, <1>11 DEF Released

(* What it frees depends on the module alone.                              *)
LEMMA SameFrees ==
  ASSUME UNCHANGED m
  PROVE  Frees' = Frees /\ Released' = Released
<1>1. Defined' = Defined /\ \A k : Own(k)' = Own(k)
  BY DEF Defined, Own, Base, Bodies
<1>2. TypeFrees' = TypeFrees
  BY DEF TypeFrees
<1>3. ArraysOfSections' = ArraysOfSections /\ ArraysOfSlots' = ArraysOfSlots
  BY DEF ArraysOfSections, ArraysOfSlots
<1>4. FreesOfInstance' = FreesOfInstance
  BY DEF FreesOfInstance
<1>5. FreesOfValidation' = FreesOfValidation
  BY <1>1 DEF FreesOfValidation
<1>6. FreesOfLoad' = FreesOfLoad
  BY <1>1, <1>2, <1>3 DEF FreesOfLoad
<1> QED BY <1>4, <1>5, <1>6 DEF Frees, Released

(* wasm_module_destory.                                                    *)
LEMMA DestroyKept ==
  ASSUME Possession, Destroy
  PROVE  Possession'
<1>1. pc = "destroy" /\ fault # "free"
  <2>1. pc = "destroy"
    BY DEF Destroy
  <2> QED BY <2>1 DEF Possession
<1>2. ASSUME NEW what, Undefined(what),
             what = "free" => /\ ~Repeats(Frees) /\ Released \ heap = {<<"memory_data">>}
                              /\ <<"stack">> \in heap
      PROVE  Possession'
  <2>1. /\ pc' = "undefined" /\ fault' = what
        /\ m' = m /\ heap' = heap /\ file' = file
    BY <1>2 DEF Undefined, Untouched
  <2>2. Known' = Known
    BY <1>1, <2>1 DEF Known, Lost
  <2>3. Frees' = Frees /\ Released' = Released
    BY <2>1, SameFrees
  <2>4. FreedOnce'
    BY <1>2, <2>1, <2>3, Zenon DEF FreedOnce, Repeats
  <2> QED BY <1>1, <2>1, <2>2, <2>4 DEF Possession, Early, WithSlots
<1>3. CASE Undefined("function count")
  BY <1>2, <1>3
<1>4. CASE ~Undefined("function count")
  <2>1. Bounded
    BY <1>4 DEF Destroy, Bounded
  <2>2. Released \subseteq Known /\ ~Repeats(Frees)
    BY <1>1, <2>1, FreesHeld DEF Destroying
  <2>3. CASE Released \subseteq heap
    <3>1. pc' = "exited" /\ file' = file /\ fault' = fault
      <4> HIDE DEF Released, Frees, Defined, Undefined
      <4> QED BY <1>4, <2>2, <2>3 DEF Destroy
    <3> QED BY <1>1, <3>1 DEF Possession, FreedOnce, Early, WithSlots
  <2>4. CASE ~(Released \subseteq heap)
    <3>1. Undefined("free")
      <4> HIDE DEF Released, Frees, Defined, Undefined
      <4> QED BY <1>4, <2>4 DEF Destroy
    <3>2. Released \ heap = {<<"memory_data">>} /\ <<"stack">> \in heap
      <4> HIDE DEF Released
      <4> QED BY <2>2, <2>4 DEF Known, Lost
    <3> QED BY <1>2, <2>2, <3>1, <3>2
  <2> QED BY <2>3, <2>4
<1> QED BY <1>3, <1>4

(* The invariant holds at the start ...                                    *)
LEMMA InitPossession == Init => Possession
BY DEF Init, Possession, Early, WithSlots, FreedOnce

(* ... when nothing happens ...                                            *)
LEMMA StutterKept ==
  ASSUME Possession, UNCHANGED vars
  PROVE  Possession'
<1>1. Frees' = Frees /\ Released' = Released
  BY SameFrees DEF vars
<1>2. FreedOnce'
  BY <1>1, Zenon DEF Possession, FreedOnce, Repeats, vars
<1>3. Known' = Known /\ m' = m
  BY DEF Known, Lost, vars
<1> QED BY <1>2, <1>3 DEF Possession, vars

(* ... and after every step.                                               *)
LEMMA NextKept ==
  ASSUME Possession, [Next]_vars
  PROVE  Possession'
<1>1. CASE InitEnv \/ Options \/ ReadFile \/ CreateModule
  BY <1>1, EarlyKept
<1>2. CASE InitLoad
  BY <1>2, InitLoadKept
<1>3. CASE LoadSection
  BY <1>3, LoadSectionKept
<1>4. CASE StartValidator
  BY <1>4, StartValidatorKept
<1>5. CASE ValidateSerially \/ JoinThreads \/ \E t \in Threads : ThreadStep(t)
  BY <1>5, ValidationKept
<1>6. CASE GlobalsInstantiate
  BY <1>6, GlobalsKept
<1>7. CASE MemoriesInstantiate
  BY <1>7, MemoriesKept
<1>8. CASE TablesInstantiate
  BY <1>8, TablesKept
<1>9. CASE ExportInstantiate
  BY <1>9, ExportsKept
<1>10. CASE FunctionsInstantiate
  BY <1>10, FunctionsKept
<1>11. CASE WasiInit
  BY <1>11, WasiInitKept
<1>12. CASE ExecuteMain \/ Return \/ Fail
  BY <1>12, ExecutionKept
<1>13. CASE Destroy
  BY <1>13, DestroyKept
<1>14. CASE UNCHANGED vars
  BY <1>14, StutterKept
<1> QED
  BY <1>1, <1>2, <1>3, <1>4, <1>5, <1>6, <1>7, <1>8, <1>9, <1>10, <1>11, <1>12, <1>13, <1>14
  DEF Next, Main, Instantiate

(* No file and no failing allocation makes wasm_module_destory free a      *)
(* block that is not allocated, or free one twice, except for the memory,  *)
(* which a program that was run may have freed by memory.grow.             *)
THEOREM BlocksFreedOnce == Spec => []FreedOnce
<1>1. Init => Possession
  BY InitPossession
<1>2. Possession /\ [Next]_vars => Possession'
  BY NextKept
<1>3. Possession => FreedOnce
  BY DEF Possession
<1> QED BY <1>1, <1>2, <1>3, PTL DEF Spec

----------------------------------------------------------------------------
(* What the validation found                                               *)

(* The phases of main around the validation.                               *)
Unvalidated == Early \cup {"header", "sections", "validate"}
Instantiating == {"globals", "memories", "tables", "exports", "functions"}
Executing == {"wasi", "execute", "running"}

(* A body is accepted, or the rejection of some body was noticed or not.   *)
Settled(k) == m.functions[k].verdict = "valid" \/ exception \/ silent # {}

(* After the validation: the bodies, of which the last is in slot last.    *)
Judged(last) ==
  /\ Serial => silent = {}
  /\ \A k \in Base + 1 .. last : Settled(k)

(* The threads before they run.                                            *)
Unstarted == [t \in Threads |-> [next |-> t, state |-> "none", ret |-> FALSE]]

(* Every body is settled or still to come for some thread.                 *)
Shared ==
  /\ DOMAIN threads = Threads
  /\ \A t \in Threads :
       /\ DOMAIN threads[t] = {"next", "state", "ret"}
       /\ threads[t].next \in Nat /\ threads[t].state \in {"running", "done"}
       /\ threads[t].state = "done" => threads[t].next >= Bodies \/ exception \/ silent # {}
  /\ \A k \in Nat : k < Bodies =>
       Settled(Base + k + 1) \/ \E t \in Threads, j \in Nat : k = threads[t].next + j * ThreadNum

(* The loop without threads has accepted all bodies up to the next.        *)
OneByOne ==
  /\ DOMAIN threads = Threads /\ \A t \in Threads : DOMAIN threads[t] = {"next", "state", "ret"}
  /\ Serial /\ silent = {} /\ threads[0].next \in Nat
  /\ \A k \in Nat : k < threads[0].next => m.functions[Base + k + 1].verdict = "valid"

(* The inductive invariant of the validation and of what follows it.       *)
Judgement ==
  /\ m.imports["func"] \in Nat /\ m.counts["func"] \in Nat
  /\ pc \in Unvalidated => silent = {} /\ threads = Unstarted
  /\ pc \in {"sections", "validate", "join", "serial"} => DOMAIN m.functions = 1 .. Base + Bodies
  /\ pc = "join" => Shared
  /\ pc = "serial" => OneByOne
  /\ pc \in Instantiating => Judged(Base + Bodies)
  /\ pc \in Executing => Judged(Bodies)
  /\ pc \in {"destroy", "exited"} /\ exit = 0 => ~exception /\ Judged(Bodies)

(* The counts and the number of function slots stay.                       *)
Same(new) ==
  /\ new.imports = m.imports /\ new.counts = m.counts
  /\ DOMAIN new.functions = DOMAIN m.functions

(* A section was loaded, or not.                                           *)
Passed == /\ Same(m') /\ UNCHANGED <<threads, exit, silent>>
          /\ pc' \in {"sections", "validate", "fail", "undefined"}

(* The end of a section leaves the counts and the number of slots alone    *)
(* ...                                                                     *)
LEMMA PassedEnds ==
  ASSUME pc = "sections", NEW new, Same(new), NEW blocks,
         Loaded(new, blocks) \/ Rejected(new, blocks) \/ Exhausted(new, blocks)
  PROVE  Passed
BY DEF Loaded, Rejected, Exhausted, Goto, Untouched, Passed, Same

(* ... also when the module does not change.                               *)
LEMMA PassedUnchanged ==
  ASSUME pc = "sections",
         \/ \E what : Undefined(what)
         \/ \E blocks : Loaded(m, blocks) \/ Rejected(m, blocks) \/ Exhausted(m, blocks)
  PROVE  Passed
BY DEF Loaded, Rejected, Exhausted, Goto, Undefined, Untouched, Passed, Same

(* No loader of a section changes a count, an import count, the number of  *)
(* function slots or the threads.                                          *)
LEMMA LoadSectionPassed ==
  ASSUME Possession, LoadSection
  PROVE  pc = "sections" /\ Passed
<1>1. pc = "sections"
  BY DEF LoadSection, LoadTypeSection, LoadImportSection, LoadFunctionSection, LoadTableSection,
    LoadMemorySection, LoadGlobalSection, LoadExportSection, LoadStartSection, LoadElementSection,
    LoadDataSection, LoadCodeSection, SkipSection, LoaderDone, Section
<1>2. DOMAIN m = DOMAIN NewModule
  BY <1>1, SlotsHeld DEF Final, Over, Early
<1> DEFINE items == file.sections[pos].items
<1>4. CASE LoadTypeSection
  <2>1. \/ \E blocks : Loaded(m, blocks) \/ Rejected(m, blocks) \/ Exhausted(m, blocks)
        \/ \E t, r, b, blocks :
             Loaded([m EXCEPT !.types = t, !.refs = r, !.typesBlock = b], blocks)
    BY <1>4 DEF LoadTypeSection
  <2>2. ASSUME NEW t, NEW r, NEW b
        PROVE  Same([m EXCEPT !.types = t, !.refs = r, !.typesBlock = b])
    BY <1>2, ModuleFields DEF Same
  <2> QED BY <1>1, <2>1, <2>2, PassedEnds, PassedUnchanged
<1>5. CASE LoadImportSection
  <2>1. \/ \E what : Undefined(what)
        \/ Rejected(m, {})
        \/ \E n : Loaded(WithImports(items, n), {}) \/ Rejected(WithImports(items, n), {})
    BY <1>5 DEF LoadImportSection
  <2>2. ASSUME NEW n PROVE Same(WithImports(items, n))
    BY <1>2, ModuleFields DEF WithImports, Same
  <2> QED BY <1>1, <2>1, <2>2, PassedEnds, PassedUnchanged
<1>6. CASE LoadFunctionSection
  <2> DEFINE base == m.imports["func"]
             known == Max({0} \cup {n \in DOMAIN items : \A i \in 1..n : TypeKnown(items[i])})
             new == [m EXCEPT !.functions = [k \in DOMAIN @ |->
                      IF k - base \in 1..known
                      THEN [@[k] EXCEPT !.type = TypeAt(items[k - base]),
                                        !.params = Len(TypeOf(TypeAt(items[k - base])).param)]
                      ELSE @[k]]]
  <2>1. \/ Rejected(m, {}) \/ Undefined("function slots") \/ Rejected(new, {}) \/ Loaded(new, {})
    BY <1>6 DEF LoadFunctionSection
  <2>2. Same(new)
    <3> HIDE DEF known, items
    <3> QED BY <1>2, ModuleFields DEF Same
  <2> HIDE DEF new
  <2> QED BY <1>1, <2>1, <2>2, PassedEnds, PassedUnchanged
<1>7. CASE LoadTableSection
  BY <1>1, <1>7, PassedUnchanged DEF LoadTableSection
<1>8. CASE LoadMemorySection
  <2> DEFINE new == [m EXCEPT !.pages = Last(items)]
  <2>1. \/ Rejected(m, {}) \/ Undefined("memory slots") \/ Loaded(m, {}) \/ Loaded(new, {})
    BY <1>8 DEF LoadMemorySection
  <2>2. Same(new)
    BY <1>2, ModuleFields DEF Same
  <2> HIDE DEF new
  <2> QED BY <1>1, <2>1, <2>2, PassedEnds, PassedUnchanged
<1>9. CASE LoadGlobalSection
  <2> DEFINE base == m.imports["global"]
             good == Max({0} \cup {n \in DOMAIN items : \A i \in 1..n : items[i] <= base})
             new == [m EXCEPT !.globals = [k \in DOMAIN @ |->
                      IF k - base \in 1..good THEN [from |-> 0, target |-> items[k - base]]
                      ELSE @[k]]]
  <2>1. \/ Rejected(m, {}) \/ Undefined("global slots") \/ Rejected(new, {}) \/ Loaded(new, {})
    BY <1>9 DEF LoadGlobalSection
  <2>2. Same(new)
    <3> HIDE DEF good
    <3> QED BY <1>2, ModuleFields DEF Same
  <2> HIDE DEF new
  <2> QED BY <1>1, <2>1, <2>2, PassedEnds, PassedUnchanged
<1>10. CASE LoadExportSection
  <2>1. \/ \E blocks : Loaded(m, blocks) \/ Rejected(m, blocks) \/ Exhausted(m, blocks)
        \/ \E b, blocks : Loaded([m EXCEPT !.exports = items, !.exportsBlock = b], blocks)
    BY <1>10 DEF LoadExportSection
  <2>2. ASSUME NEW b PROVE Same([m EXCEPT !.exports = items, !.exportsBlock = b])
    BY <1>2, ModuleFields DEF Same
  <2> QED BY <1>1, <2>1, <2>2, PassedEnds, PassedUnchanged
<1>11. CASE LoadStartSection
  <2> DEFINE new == [m EXCEPT !.start = items[1]]
  <2>1. Rejected(m, {}) \/ Loaded(new, {})
    BY <1>11 DEF LoadStartSection
  <2>2. Same(new)
    BY <1>2, ModuleFields DEF Same
  <2> HIDE DEF new
  <2> QED BY <1>1, <2>1, <2>2, PassedEnds, PassedUnchanged
<1>12. CASE LoadElementSection
  <2>1. \/ \E blocks : Loaded(m, blocks) \/ Rejected(m, blocks) \/ Exhausted(m, blocks)
        \/ \E e, b, blocks : Loaded([m EXCEPT !.elements = e, !.elementsBlock = b], blocks)
    BY <1>12 DEF LoadElementSection
  <2>2. ASSUME NEW e, NEW b PROVE Same([m EXCEPT !.elements = e, !.elementsBlock = b])
    BY <1>2, ModuleFields DEF Same
  <2> QED BY <1>1, <2>1, <2>2, PassedEnds, PassedUnchanged
<1>13. CASE LoadDataSection
  <2> DEFINE new == [m EXCEPT !.data = items, !.dataBlock = <<"data", pos>>]
             none == [new EXCEPT !.dataBlock = Null]
  <2>1. \/ \E blocks : Loaded(m, blocks) \/ Rejected(m, blocks)
        \/ \E blocks : Loaded(new, blocks) \/ Rejected(new, blocks)
        \/ \E blocks : Rejected(none, blocks)
    BY <1>13 DEF LoadDataSection
  <2>2. Same(new) /\ Same(none)
    BY <1>2, ModuleFields DEF Same
  <2> HIDE DEF new, none
  <2> QED BY <1>1, <2>1, <2>2, PassedEnds, PassedUnchanged
<1>14. CASE LoadCodeSection
  <2> DEFINE base == m.imports["func"]
             Types(i) == IF items[i].locals > 0 THEN <<"locals", pos, i>> ELSE Null
             Offsets(i) == IF items[i].locals + m.functions[base + i].params > 0
                           THEN <<"offsets", pos, i>> ELSE Null
             Mod(n) == [m EXCEPT !.functions = [k \in DOMAIN @ |->
                         IF k - base \in 1..n
                         THEN [@[k] EXCEPT !.types = Types(k - base),
                                           !.offsets = Offsets(k - base),
                                           !.room = m.functions[k].params,
                                           !.verdict = items[k - base].verdict,
                                           !.branches = items[k - base].branches]
                         ELSE @[k]]]
  <2>1. \/ Rejected(m, {})
        \/ \E n, blocks : Loaded(Mod(n), blocks) \/ Rejected(Mod(n), blocks)
    BY <1>14 DEF LoadCodeSection
  <2>2. ASSUME NEW n PROVE Same(Mod(n))
    <3> HIDE DEF Types, Offsets
    <3> QED BY <1>2, ModuleFields DEF Same
  <2> HIDE DEF Mod
  <2> QED BY <1>1, <2>1, <2>2, PassedEnds, PassedUnchanged
<1>15. CASE SkipSection
  BY <1>1, <1>15, PassedUnchanged DEF SkipSection
<1>16. CASE LoaderDone
  BY <1>1, <1>16 DEF LoaderDone, Goto, Untouched, Passed, Same
<1> QED BY <1>1, <1>4, <1>5, <1>6, <1>7, <1>8, <1>9, <1>10, <1>11, <1>12, <1>13, <1>14,
           <1>15, <1>16 DEF LoadSection

(* At the start no body is judged.                                         *)
LEMMA InitJudgement == Init => Judgement
<1> SUFFICES ASSUME Init PROVE Judgement
  OBVIOUS
<1>1. m = NewModule /\ pc = "init_env" /\ silent = {} /\ threads = Unstarted
  BY DEF Init, Unstarted
<1>2. m.imports["func"] = 0 /\ m.counts["func"] = 0
  BY <1>1 DEF NewModule, ImportKinds
<1> QED BY <1>1, <1>2 DEF Judgement, Unvalidated, Early, Instantiating, Executing

(* A step to the failure or to nothing.                                    *)
LEMMA Abandoned ==
  ASSUME Judgement, pc' \in {"fail", "undefined"},
         m'.imports["func"] = m.imports["func"], m'.counts["func"] = m.counts["func"]
  PROVE  Judgement'
BY DEF Judgement, Unvalidated, Early, Instantiating, Executing

(* main up to wasm_module_create.                                          *)
LEMMA EarlyJudged ==
  ASSUME Possession, Judgement, InitEnv \/ Options \/ ReadFile \/ CreateModule
  PROVE  Judgement'
<1>1. /\ m' = m \/ m' = NewModule
      /\ pc \in Early /\ pc' \in Early \cup {"header", "exited"}
      /\ pc' = "exited" => exit' # 0
  BY DEF InitEnv, Options, ReadFile, CreateModule, Early
<1>2. UNCHANGED <<threads, silent>>
  BY DEF InitEnv, Options, ReadFile, CreateModule
<1>3. m = NewModule /\ m' = NewModule
  BY <1>1 DEF Possession
<1> QED BY <1>1, <1>2, <1>3 DEF Judgement, Unvalidated, Early, Instantiating, Executing

(* init_load: there is a slot for every import and every body.             *)
LEMMA InitLoadJudged ==
  ASSUME Possession, Judgement, InitLoad
  PROVE  Judgement'
<1> DEFINE counted == [m EXCEPT !.imports = [k \in ImportKinds |-> ImportCount(k)],
                                !.counts  = [k \in ImportKinds |-> SectionCount(k)]]
           zeroed  == [counted EXCEPT !.functions = [i \in 1 .. Slots("func") |-> NoFunction],
                                      !.globals = [i \in 1 .. Slots("global") |-> NoGlobal],
                                      !.tables = Slots("table"),
                              !.tableData = [i \in 1 .. Slots("table") |-> Null]]
           Blocks(n) == {<<Arrays[i]>> : i \in 1..n}
           With(n) == [zeroed EXCEPT !.arrays = Blocks(n)]
<1>1. pc = "header" /\ file \in Files
  BY DEF InitLoad, Possession
<1>2. DOMAIN m = DOMAIN NewModule
  BY <1>1, SlotsHeld DEF Final, Over, Early
<1>3. ASSUME NEW n
      PROVE  /\ With(n).functions = [i \in 1 .. Slots("func") |-> NoFunction]
             /\ With(n).imports = [k \in ImportKinds |-> ImportCount(k)]
             /\ With(n).counts = [k \in ImportKinds |-> SectionCount(k)]
  BY <1>2, ModuleFields
<1>4. \/ Rejected(m, {}) \/ Goto("sections", With(3), Blocks(3))
      \/ \E n \in 0..2 : Exhausted(With(n), Blocks(n))
  BY DEF InitLoad
<1> HIDE DEF With, Blocks
<1>5. CASE Rejected(m, {})
  BY <1>5, Abandoned DEF Rejected
<1>6. CASE ~Rejected(m, {})
  <2>1. \E n : m' = With(n)
    BY <1>4, <1>6 DEF Goto, Exhausted
  <2>2. /\ m'.functions = [i \in 1 .. Slots("func") |-> NoFunction]
        /\ m'.imports = [k \in ImportKinds |-> ImportCount(k)]
        /\ m'.counts = [k \in ImportKinds |-> SectionCount(k)]
    BY <1>3, <2>1
  <2>3. pc' \in {"sections", "fail"} /\ UNCHANGED <<threads, silent>>
    BY <1>4, <1>6 DEF Goto, Exhausted, Untouched
  <2>4. m'.imports["func"] = ImportCount("func") /\ m'.counts["func"] = SectionCount("func")
    BY <2>2 DEF ImportKinds
  <2>5. m'.imports["func"] \in Nat /\ m'.counts["func"] \in Nat
    BY <1>1, <2>4, ImportCountNat, SectionCountNat
  <2>6. DOMAIN m'.functions = 1 .. m'.imports["func"] + m'.counts["func"]
    BY <2>2, <2>4 DEF Slots
  <2> QED BY <1>1, <2>3, <2>5, <2>6
          DEF Judgement, Unvalidated, Early, Instantiating, Executing, Base, Bodies
<1> QED BY <1>5, <1>6

(* wasm_loader.                                                            *)
LEMMA LoadJudged ==
  ASSUME Possession, Judgement, LoadSection
  PROVE  Judgement'
<1>1. pc = "sections" /\ Passed
  BY LoadSectionPassed
<1>2. m'.imports["func"] = m.imports["func"] /\ m'.counts["func"] = m.counts["func"]
      /\ DOMAIN m'.functions = DOMAIN m.functions
  BY <1>1 DEF Passed, Same
<1>3. CASE pc' \in {"fail", "undefined"}
  BY <1>2, <1>3, Abandoned
<1>4. CASE pc' \in {"sections", "validate"}
  BY <1>1, <1>2, <1>4
  DEF Judgement, Passed, Unvalidated, Early, Instantiating, Executing, Base, Bodies
<1> QED BY <1>1, <1>3, <1>4 DEF Passed

(* Every number is a thread's place or some rounds of the threads further. *)
LEMMA Rounds ==
  ASSUME NEW n \in Nat
  PROVE  \E t \in Threads, j \in Nat : n = t + j * ThreadNum
<1>0. ThreadNum \in Nat /\ ThreadNum > 0 /\ Threads = 0 .. ThreadNum - 1
  BY LoaderAssumption DEF Threads
<1> DEFINE P == {k \in Nat : \E t \in Threads, j \in Nat : k = t + j * ThreadNum}
<1>1. 0 \in P
  <2>1. 0 \in Threads /\ 0 = 0 + 0 * ThreadNum
    BY <1>0
  <2> QED BY <2>1
<1>2. ASSUME NEW k \in Nat, k \in P PROVE k + 1 \in P
  <2>1. PICK t \in Threads, j \in Nat : k = t + j * ThreadNum
    BY <1>2
  <2>2. CASE t + 1 \in Threads
    <3>1. k + 1 = (t + 1) + j * ThreadNum
      BY <1>0, <2>1
    <3> QED BY <2>2, <3>1
  <2>3. CASE t + 1 \notin Threads
    <3>1. t + 1 = ThreadNum
      BY <1>0, <2>3
    <3>2. k + 1 = 0 + (j + 1) * ThreadNum
      BY <1>0, <2>1, <3>1
    <3>3. 0 \in Threads /\ j + 1 \in Nat
      BY <1>0
    <3> QED BY <3>2, <3>3
  <2> QED BY <2>2, <2>3
<1> HIDE DEF P
<1>3. Nat \subseteq P
  BY <1>1, <1>2, Induction
<1> QED BY <1>3 DEF P

(* wasm_validator starts: the threads have all bodies between them.        *)
LEMMA StartJudged ==
  ASSUME Possession, Judgement, StartValidator
  PROVE  Judgement'
<1> DEFINE mod == [m EXCEPT !.stage = "Validate"]
<1>1. pc = "validate" /\ silent = {} /\ threads = Unstarted /\ DOMAIN m.functions = 1 .. Base + Bodies
  BY DEF StartValidator, Judgement, Unvalidated
<1>2. DOMAIN m = DOMAIN NewModule
  BY <1>1, SlotsHeld DEF Final, Over, Early
<1>3. mod.imports = m.imports /\ mod.counts = m.counts /\ mod.functions = m.functions
  BY <1>2, ModuleFields
<1>4. ThreadNum \in Nat /\ 0 \in Threads /\ Threads \subseteq Nat
  BY LoaderAssumption DEF Threads
<1>5. CASE Rejected(mod, {})
  BY <1>3, <1>5, Abandoned DEF Rejected
<1>6. CASE \E what : Undefined(what)
  BY <1>6, Abandoned DEF Undefined
<1>7. CASE m' = mod /\ UNCHANGED silent /\ pc' = "serial" /\ UNCHANGED threads
  <2>1. OneByOne'
    <3>1. threads' = Unstarted /\ silent' = {}
      BY <1>1, <1>7
    <3>2. threads'[0].next = 0 /\ \A t \in Threads : threads'[t].state = "none"
      BY <1>4, <3>1 DEF Unstarted
    <3>3. DOMAIN threads' = Threads /\ \A t \in Threads : DOMAIN threads'[t] = {"next", "state", "ret"}
      BY <3>1 DEF Unstarted
    <3>4. \A k \in Nat : ~(k < 0)
      OBVIOUS
    <3> QED BY <3>1, <3>2, <3>3, <3>4 DEF OneByOne, Serial
  <2> QED BY <1>1, <1>3, <1>7, <2>1
          DEF Judgement, Unvalidated, Early, Instantiating, Executing, Base, Bodies
<1>8. CASE /\ m' = mod /\ UNCHANGED silent /\ pc' = "join"
           /\ threads' = [t \in Threads |-> [threads[t] EXCEPT !.state = "running"]]
  <2>1. ASSUME NEW t \in Threads
        PROVE  /\ DOMAIN threads'[t] = {"next", "state", "ret"}
               /\ threads'[t].next = t /\ threads'[t].state = "running"
    <3>1. threads[t] = [next |-> t, state |-> "none", ret |-> FALSE]
      BY <1>1 DEF Unstarted
    <3>2. threads'[t] = [threads[t] EXCEPT !.state = "running"]
      BY <1>8
    <3> QED BY <3>1, <3>2
  <2>2. DOMAIN threads' = Threads
    BY <1>8
  <2>3. \A k \in Nat : \E t \in Threads, j \in Nat : k = threads'[t].next + j * ThreadNum
    <3> SUFFICES ASSUME NEW k \in Nat
                 PROVE  \E t \in Threads, j \in Nat : k = threads'[t].next + j * ThreadNum
      OBVIOUS
    <3>1. PICK t \in Threads, j \in Nat : k = t + j * ThreadNum
      BY Rounds
    <3>2. threads'[t].next = t
      BY <2>1
    <3> QED BY <3>1, <3>2
  <2>4. Shared'
    <3>1. \A t \in Threads : /\ DOMAIN threads'[t] = {"next", "state", "ret"}
                             /\ threads'[t].next \in Nat /\ threads'[t].state = "running"
      BY <1>4, <2>1
    <3> QED BY <2>2, <2>3, <3>1 DEF Shared
  <2> QED BY <1>1, <1>3, <1>8, <2>4
          DEF Judgement, Unvalidated, Early, Instantiating, Executing, Base, Bodies
<1> QED BY <1>5, <1>6, <1>7, <1>8 DEF StartValidator

(* What validation of a body changes in the functions.                     *)
LEMMA AcceptSettles ==
  ASSUME Possession, pc \notin Final, NEW k, Accept(k)
  PROVE  /\ m'.imports = m.imports /\ m'.counts = m.counts
         /\ DOMAIN m'.functions = DOMAIN m.functions
         /\ \A j \in DOMAIN m.functions : m'.functions[j].verdict = m.functions[j].verdict
         /\ m.functions[k].verdict = "valid"
         /\ UNCHANGED <<exception, silent>>
<1> DEFINE table == IF Branches(k) = {} THEN Null ELSE <<"branches", k>>
<1>1. Holdings(m, heap) /\ DOMAIN m = DOMAIN NewModule
  BY SlotsHeld
<1>2. m' = [m EXCEPT !.functions[k].table = table]
  BY DEF Accept
<1> HIDE DEF table
<1>3. /\ m'.imports = m.imports /\ m'.counts = m.counts
      /\ m'.functions = [m.functions EXCEPT ![k] = [@ EXCEPT !.table = table]]
  BY <1>1, <1>2, ModuleFields
<1>4. ASSUME NEW j \in DOMAIN m.functions
      PROVE  m'.functions[j].verdict = m.functions[j].verdict
  <2>1. DOMAIN m.functions[j] = DOMAIN NoFunction
    BY <1>1 DEF Holdings, HoldsFunctions
  <2>2. m'.functions[j] = m.functions[j] \/ m'.functions[j] = [m.functions[j] EXCEPT !.table = table]
    BY <1>3
  <2> QED BY <2>1, <2>2, FunctionFields
<1> QED BY <1>3, <1>4 DEF Accept

(* A thread settles a body and goes on with one ThreadNum further, or ends *)
(* after a body that is rejected: no body is lost between threads.         *)
LEMMA BodyJudged ==
  ASSUME Possession, Judgement, NEW t \in Threads, ValidateBody(t)
  PROVE  Judgement'
<1> DEFINE next == threads[t].next
           k == Base + next + 1
<1>1. pc = "join" /\ threads[t].state = "running" /\ next < Bodies /\ pc \notin Final
  BY DEF ValidateBody, Final, Over, Early
<1>2. Shared /\ DOMAIN m.functions = 1 .. Base + Bodies /\ Base \in Nat /\ Bodies \in Nat
  BY <1>1 DEF Judgement, Base, Bodies
<1>3. next \in Nat /\ ThreadNum \in Nat \ {0} /\ DOMAIN threads[t] = {"next", "state", "ret"}
      /\ DOMAIN threads = Threads
  BY <1>2, LoaderAssumption DEF Shared
<1>4. CASE Unusable(k)
  BY <1>4, Abandoned DEF Unusable, Undefined
<1>5. CASE Accept(k) /\ threads' = [threads EXCEPT ![t] = Continued(t)] /\ pc' = pc
  <2>1. /\ m'.imports = m.imports /\ m'.counts = m.counts
        /\ DOMAIN m'.functions = DOMAIN m.functions
        /\ \A j \in DOMAIN m.functions : m'.functions[j].verdict = m.functions[j].verdict
        /\ m.functions[k].verdict = "valid" /\ exception' = exception /\ silent' = silent
    BY <1>1, <1>5, AcceptSettles
  <2>2. Base' = Base /\ Bodies' = Bodies
    BY <2>1 DEF Base, Bodies
  <2>3. /\ DOMAIN threads' = Threads
        /\ threads'[t].next = next + ThreadNum /\ threads'[t].state = threads[t].state
        /\ DOMAIN threads'[t] = {"next", "state", "ret"}
        /\ \A s \in Threads \ {t} : threads'[s] = threads[s]
    BY <1>3, <1>5 DEF Continued
  <2>4. ASSUME NEW i \in Nat, i < Bodies
        PROVE  Base + i + 1 \in DOMAIN m.functions
    <3> HIDE DEF Base, Bodies
    <3> QED BY <1>2, <2>4
  <2>5. ASSUME NEW i \in Nat, i < Bodies
        PROVE  \/ Settled(Base + i + 1)'
               \/ \E s \in Threads, j \in Nat : i = threads'[s].next + j * ThreadNum
    <3>1. CASE Settled(Base + i + 1)
      BY <2>1, <2>2, <2>4, <2>5, <3>1 DEF Settled
    <3>2. CASE \E s \in Threads, j \in Nat : i = threads[s].next + j * ThreadNum
      <4>1. PICK s \in Threads, j \in Nat : i = threads[s].next + j * ThreadNum
        BY <3>2
      <4>2. CASE s # t
        BY <2>3, <4>1, <4>2
      <4>3. CASE s = t /\ j = 0
        <5>1. i = next
          BY <1>3, <4>1, <4>3
        <5>2. m'.functions[k].verdict = "valid" /\ k = Base + i + 1
          BY <2>1, <2>4, <2>5, <5>1
        <5> QED BY <2>2, <5>2 DEF Settled
      <4>4. CASE s = t /\ j # 0
        <5>1. j - 1 \in Nat
          BY <4>4
        <5>2. i = next + j * ThreadNum
          BY <4>1, <4>4
        <5>3. i = (next + ThreadNum) + (j - 1) * ThreadNum
          <6> HIDE DEF next
          <6> QED BY <1>3, <5>1, <5>2
        <5> QED BY <2>3, <5>1, <5>3
      <4> QED BY <4>2, <4>3, <4>4
    <3> QED BY <1>2, <2>5, <3>1, <3>2 DEF Shared
  <2>6. next + ThreadNum \in Nat
    BY <1>3
  <2>7. Shared'
    <3>1. ASSUME NEW s \in Threads
          PROVE  /\ DOMAIN threads'[s] = {"next", "state", "ret"}
                 /\ threads'[s].next \in Nat /\ threads'[s].state \in {"running", "done"}
                 /\ threads'[s].state = "done" =>
                      threads'[s].next >= Bodies' \/ exception' \/ silent' # {}
      <4>1. CASE s = t
        BY <1>1, <2>3, <2>6, <4>1
      <4>2. CASE s # t
        BY <1>2, <2>1, <2>2, <2>3, <4>2 DEF Shared
      <4> QED BY <4>1, <4>2
    <3> QED BY <2>2, <2>3, <2>5, <3>1 DEF Shared
  <2> QED BY <1>1, <1>2, <1>5, <2>1, <2>2, <2>7
          DEF Judgement, Unvalidated, Early, Instantiating, Executing, Base, Bodies
<1>6. CASE Reject(k) /\ threads' = [threads EXCEPT ![t] = Stopped(t)] /\ pc' = pc
  <2>1. m' = m /\ (exception' \/ silent' # {})
    BY <1>6 DEF Reject
  <2>2. /\ DOMAIN threads' = Threads
        /\ threads'[t].next = next /\ threads'[t].state = "done"
        /\ DOMAIN threads'[t] = {"next", "state", "ret"}
        /\ \A s \in Threads \ {t} : threads'[s] = threads[s]
    BY <1>3, <1>6 DEF Stopped
  <2>3. Shared'
    <3>1. ASSUME NEW s \in Threads
          PROVE  /\ DOMAIN threads'[s] = {"next", "state", "ret"}
                 /\ threads'[s].next \in Nat /\ threads'[s].state \in {"running", "done"}
      BY <1>2, <1>3, <2>2 DEF Shared
    <3> QED BY <2>1, <2>2, <3>1 DEF Shared, Settled
  <2> QED BY <1>1, <1>2, <1>6, <2>1, <2>3
          DEF Judgement, Unvalidated, Early, Instantiating, Executing, Base, Bodies
<1> HIDE DEF k
<1> QED BY <1>4, <1>5, <1>6 DEF ValidateBody, k

(* A thread has no body left.                                              *)
LEMMA ExitJudged ==
  ASSUME Possession, Judgement, NEW t \in Threads, ThreadExit(t)
  PROVE  Judgement'
<1>1. /\ pc = "join" /\ threads[t].state = "running" /\ threads[t].next >= Bodies /\ pc' = pc
      /\ m' = m /\ exception' = exception /\ silent' = silent
  BY DEF ThreadExit
<1>2. Shared /\ DOMAIN m.functions = 1 .. Base + Bodies
  BY <1>1 DEF Judgement
<1>3. PICK ret : threads' = [threads EXCEPT ![t].state = "done", ![t].ret = ret]
  BY DEF ThreadExit
<1>4. /\ DOMAIN threads' = Threads
      /\ threads'[t].next = threads[t].next /\ threads'[t].state = "done"
      /\ DOMAIN threads'[t] = {"next", "state", "ret"}
      /\ \A s \in Threads \ {t} : threads'[s] = threads[s]
  <2>1. DOMAIN threads = Threads /\ DOMAIN threads[t] = {"next", "state", "ret"}
    BY <1>2 DEF Shared
  <2>2. threads' = [threads EXCEPT ![t] = [@ EXCEPT !.state = "done", !.ret = ret]]
    BY <1>3
  <2>3. threads'[t] = [threads[t] EXCEPT !.state = "done", !.ret = ret]
    BY <2>1, <2>2
  <2>4. DOMAIN threads' = Threads /\ \A s \in Threads \ {t} : threads'[s] = threads[s]
    BY <2>1, <2>2
  <2> QED BY <2>1, <2>3, <2>4
<1>5. \A s \in Threads : threads'[s].next = threads[s].next
  BY <1>4
<1>6. Base' = Base /\ Bodies' = Bodies /\ \A k : Settled(k)' = Settled(k)
  BY <1>1 DEF Base, Bodies, Settled
<1>7. Shared'
  <2>1. ASSUME NEW s \in Threads
        PROVE  /\ DOMAIN threads'[s] = {"next", "state", "ret"}
               /\ threads'[s].next \in Nat /\ threads'[s].state \in {"running", "done"}
               /\ threads'[s].state = "done" =>
                    threads'[s].next >= Bodies' \/ exception' \/ silent' # {}
    <3>1. CASE s = t
      BY <1>1, <1>2, <1>4, <1>6, <3>1 DEF Shared
    <3>2. CASE s # t
      BY <1>1, <1>2, <1>4, <1>6, <3>2 DEF Shared
    <3> QED BY <3>1, <3>2
  <2>2. ASSUME NEW k \in Nat, k < Bodies'
        PROVE  Settled(Base + k + 1)' \/ \E s \in Threads, j \in Nat : k = threads'[s].next + j * ThreadNum
    <3>1. Settled(Base + k + 1) \/ \E s \in Threads, j \in Nat : k = threads[s].next + j * ThreadNum
      BY <1>2, <1>6, <2>2 DEF Shared
    <3>2. Settled(Base + k + 1)' = Settled(Base + k + 1)
      BY <1>1, <1>6 DEF Settled
    <3> QED BY <1>5, <3>1, <3>2
  <2> QED BY <1>4, <2>1, <2>2 DEF Shared
<1> QED BY <1>1, <1>2, <1>7
        DEF Judgement, Unvalidated, Early, Instantiating, Executing, Base, Bodies

(* All threads are done: every body is settled.                            *)
LEMMA JoinJudged ==
  ASSUME Judgement, JoinThreads
  PROVE  Judgement'
<1>1. pc = "join" /\ \A t \in Threads : threads[t].state = "done"
  BY DEF JoinThreads
<1>2. Shared /\ Base \in Nat /\ Bodies \in Nat
  BY <1>1 DEF Judgement, Base, Bodies
<1>3. 0 \in Threads /\ ThreadNum \in Nat
  BY LoaderAssumption DEF Threads
<1>4. m' = m /\ pc' \in {"globals", "fail"} /\ UNCHANGED <<threads, silent, exception>>
  BY DEF JoinThreads, Goto, Untouched
<1>5. ~Serial
  BY <1>1, <1>3 DEF Serial
<1>6. ASSUME NEW k \in Base + 1 .. Base + Bodies PROVE Settled(k)
  <2> DEFINE i == k - Base - 1
  <2>1. i \in Nat /\ i < Bodies /\ Base + i + 1 = k
    <3> HIDE DEF Base, Bodies
    <3> QED BY <1>2
  <2> HIDE DEF i
  <2>2. CASE ~Settled(k)
    <3>1. PICK t \in Threads, j \in Nat : i = threads[t].next + j * ThreadNum
      BY <1>2, <2>1, <2>2 DEF Shared
    <3>2. threads[t].next \in Nat
          /\ (threads[t].next >= Bodies \/ exception \/ silent # {})
      BY <1>1, <1>2 DEF Shared
    <3>3. ~(exception \/ silent # {})
      BY <2>2 DEF Settled
    <3>4. j * ThreadNum \in Nat
      BY <1>3
    <3> DEFINE rest == j * ThreadNum
    <3> HIDE DEF rest, Bodies
    <3>5. i = threads[t].next + rest /\ rest \in Nat /\ threads[t].next >= Bodies
      BY <3>1, <3>2, <3>3, <3>4 DEF rest
    <3> QED BY <1>2, <2>1, <3>2, <3>5
  <2> QED BY <2>2
<1>7. CASE pc' = "fail"
  BY <1>4, <1>7, Abandoned
<1>8. CASE pc' = "globals"
  <2>1. Judged(Base + Bodies)'
    BY <1>4, <1>5, <1>6 DEF Judged, Serial, Settled, Base, Bodies
  <2> QED BY <1>4, <1>8, <2>1 DEF Judgement, Unvalidated, Early, Instantiating, Executing, Base, Bodies
<1> QED BY <1>4, <1>7, <1>8

(* The loop of a build without threads: a rejected body ends it.           *)
LEMMA SerialJudged ==
  ASSUME Possession, Judgement, ValidateSerially
  PROVE  Judgement'
<1> DEFINE next == threads[0].next
           k == Base + next + 1
<1>1. pc = "serial" /\ pc \notin Final
  BY DEF ValidateSerially, Final, Over, Early
<1>2. OneByOne /\ DOMAIN m.functions = 1 .. Base + Bodies /\ Base \in Nat /\ Bodies \in Nat /\ next \in Nat
  BY <1>1 DEF Judgement, Base, Bodies, OneByOne
<1>3. 0 \in Threads
  BY LoaderAssumption DEF Threads
<1>4. CASE next >= Bodies
  <2>1. m' = m /\ pc' = "globals" /\ UNCHANGED <<threads, silent, exception>>
    BY <1>4 DEF ValidateSerially, Goto, Untouched
  <2>2. ASSUME NEW j \in Base + 1 .. Base + Bodies PROVE Settled(j)
    <3> DEFINE i == j - Base - 1
    <3>1. i \in Nat /\ i < next /\ Base + i + 1 = j
      <4> HIDE DEF Base, Bodies, next
      <4> QED BY <1>2, <1>4
    <3> HIDE DEF i
    <3> QED BY <1>2, <3>1 DEF OneByOne, Settled
  <2>3. Judged(Base + Bodies)'
    BY <1>2, <2>1, <2>2 DEF Judged, Serial, Settled, Base, Bodies, OneByOne
  <2> QED BY <2>1, <2>3 DEF Judgement, Unvalidated, Early, Instantiating, Executing, Base, Bodies
<1>5. CASE Unusable(k)
  BY <1>5, Abandoned DEF Unusable, Undefined
<1>6. CASE ~(next >= Bodies) /\ Accept(k) /\ threads' = [threads EXCEPT ![0].next = @ + 1] /\ UNCHANGED pc
  <2>1. /\ m'.imports = m.imports /\ m'.counts = m.counts
        /\ DOMAIN m'.functions = DOMAIN m.functions
        /\ \A j \in DOMAIN m.functions : m'.functions[j].verdict = m.functions[j].verdict
        /\ m.functions[k].verdict = "valid" /\ exception' = exception /\ silent' = silent
    BY <1>1, <1>6, AcceptSettles
  <2>2. Base' = Base /\ Bodies' = Bodies
    BY <2>1 DEF Base, Bodies
  <2>3. /\ DOMAIN threads' = Threads /\ threads'[0].next = next + 1
        /\ \A t \in Threads : /\ DOMAIN threads'[t] = {"next", "state", "ret"}
                              /\ threads'[t].state = threads[t].state
    <3>1. DOMAIN threads = Threads /\ \A t \in Threads : DOMAIN threads[t] = {"next", "state", "ret"}
      BY <1>2 DEF OneByOne
    <3>2. threads' = [threads EXCEPT ![0] = [threads[0] EXCEPT !.next = next + 1]]
      BY <1>6
    <3> HIDE DEF next
    <3>3. threads'[0] = [threads[0] EXCEPT !.next = next + 1]
      BY <1>3, <3>1, <3>2
    <3>4. \A t \in Threads \ {0} : threads'[t] = threads[t]
      BY <3>1, <3>2
    <3> QED BY <1>3, <3>1, <3>2, <3>3, <3>4
  <2>4. ASSUME NEW i \in Nat, i < next + 1
        PROVE  m'.functions[Base + i + 1].verdict = "valid"
    <3>1. Base + i + 1 \in DOMAIN m.functions /\ (i < next \/ Base + i + 1 = k)
      <4>1. i < Bodies
        <5> HIDE DEF next, Bodies
        <5> QED BY <1>2, <1>6, <2>4
      <4>2. Base + i + 1 \in 1 .. Base + Bodies
        <5> HIDE DEF Base, Bodies
        <5> QED BY <1>2, <4>1
      <4>3. i < next \/ i = next
        <5> HIDE DEF next
        <5> QED BY <1>2, <2>4
      <4> QED BY <1>2, <4>2, <4>3
    <3> QED BY <1>2, <2>1, <3>1 DEF OneByOne
  <2>5. OneByOne'
    <3>1. next + 1 \in Nat
      BY <1>2
    <3>2. Serial'
      BY <1>2, <2>3 DEF OneByOne, Serial
    <3>3. silent' = {}
      BY <1>2, <2>1 DEF OneByOne
    <3> HIDE DEF next
    <3> QED BY <2>2, <2>3, <2>4, <3>1, <3>2, <3>3 DEF OneByOne
  <2> QED BY <1>1, <1>2, <1>6, <2>1, <2>2, <2>5
          DEF Judgement, Unvalidated, Early, Instantiating, Executing, Base, Bodies
<1>7. CASE Reject(k) /\ pc' = "fail"
  BY <1>7, Abandoned DEF Reject
<1> HIDE DEF k
<1> QED BY <1>4, <1>5, <1>6, <1>7 DEF ValidateSerially, k

(* From the validator on the functions stay as they are.                   *)
Steady(new) ==
  /\ new.functions = m.functions /\ new.imports = m.imports
  /\ new.counts["func"] = m.counts["func"]

Steps(next, mod) ==
  /\ m' = mod /\ pc' \in {next, "fail"}
  /\ UNCHANGED <<threads, silent>> /\ (exception => exception')

(* A step of wasm_instantiate or execute_main leaves the bodies settled.   *)
LEMMA InstanceStep ==
  ASSUME Judgement, NEW mod, Steady(mod), NEW next, Steps(next, mod),
         \/ pc \in Instantiating /\ next \in Instantiating
         \/ pc \in Executing /\ next \in Executing
  PROVE  Judgement'
<1>1. CASE pc' = "fail"
  BY <1>1, Abandoned DEF Steps, Steady
<1>2. Base' = Base /\ Bodies' = Bodies
  BY DEF Base, Bodies, Steps, Steady
<1>3. \A k : Settled(k) => m'.functions[k].verdict = "valid" \/ exception' \/ silent' # {}
  BY DEF Settled, Steps, Steady
<1>4. CASE pc \in Instantiating /\ pc' \in Instantiating
  <2>1. Judged(Base + Bodies)
    BY <1>4 DEF Judgement
  <2>2. Judged(Base + Bodies)'
    BY <1>2, <1>3, <2>1 DEF Judged, Settled, Steps, Serial
  <2> QED BY <1>4, <2>2 DEF Judgement, Unvalidated, Early, Instantiating, Executing, Steps, Steady
<1>5. CASE pc \in Executing /\ pc' \in Executing
  <2>1. Judged(Bodies)
    BY <1>5 DEF Judgement
  <2>2. Judged(Bodies)'
    BY <1>2, <1>3, <2>1 DEF Judged, Settled, Steps, Serial
  <2> QED BY <1>5, <2>2 DEF Judgement, Unvalidated, Early, Instantiating, Executing, Steps, Steady
<1> QED BY <1>1, <1>4, <1>5 DEF Steps

(* How such a step may end.                                                *)
LEMMA StepsOf ==
  ASSUME NEW mod, NEW next, NEW blocks,
         Goto(next, mod, blocks) \/ Rejected(mod, blocks) \/ Exhausted(mod, blocks)
  PROVE  Steps(next, mod)
BY DEF Goto, Rejected, Exhausted, Untouched, Steps

(* wasm_instantiate without the functions, wasm_runtime_wasi_init and      *)
(* execute_main.                                                           *)
LEMMA InstantiateJudged ==
  ASSUME Possession, Judgement,
         \/ GlobalsInstantiate \/ MemoriesInstantiate \/ TablesInstantiate \/ ExportInstantiate
         \/ WasiInit \/ ExecuteMain
  PROVE  Judgement'
<1>1. pc \notin Final
  BY DEF Final, Over, Early, GlobalsInstantiate, MemoriesInstantiate, TablesInstantiate,
         ExportInstantiate, WasiInit, ExecuteMain
<1>2. DOMAIN m = DOMAIN NewModule /\ DOMAIN m.counts = ImportKinds
  BY <1>1, SlotsHeld DEF Holdings, HoldsTables
<1>3. "func" \in ImportKinds
  BY DEF ImportKinds
<1>4. ASSUME NEW mod, NEW counts, NEW kind, kind # "func",
             counts = m.counts \/ counts = [m.counts EXCEPT ![kind] = mod],
             NEW new, new.counts = counts, Agree(new, m, DOMAIN m \ {"functions", "imports"})
      PROVE  Steady(new)
  BY <1>2, <1>3, <1>4, ModuleFields DEF Steady, Agree
<1>5. ASSUME NEW what, Undefined(what) PROVE Judgement'
  BY <1>5, Abandoned DEF Undefined
<1>6. Steady(m)
  BY DEF Steady
<1>7. CASE GlobalsInstantiate
  <2> DEFINE n == Len(m.globals)
             staged == [m EXCEPT !.stage = "Instantiate"]
             data == IF n = 0 THEN Null ELSE <<"global_data">>
             done == [staged EXCEPT !.counts["global"] = n, !.globalData = data]
  <2>1. \/ (\E what : Undefined(what)) \/ Goto("memories", done, Allocated(done.globalData))
        \/ Rejected(staged, {})
    BY <1>7 DEF GlobalsInstantiate
  <2>2. /\ done.functions = m.functions /\ done.imports = m.imports
        /\ done.counts = [m.counts EXCEPT !["global"] = n]
        /\ Steady(staged)
    <3> HIDE DEF n, data
    <3> QED BY <1>2, ModuleFields DEF Steady
  <2>3. Steady(done)
    <3> HIDE DEF done, n
    <3> QED BY <1>2, <1>3, <2>2 DEF Steady
  <2>4. pc \in Instantiating /\ "memories" \in Instantiating
    BY <1>7 DEF GlobalsInstantiate, Instantiating
  <2> HIDE DEF done, staged
  <2> QED BY <1>5, <2>1, <2>2, <2>3, <2>4, StepsOf, InstanceStep
<1>8. CASE MemoriesInstantiate
  <2> DEFINE n == m.imports["memory"] + m.counts["memory"]
             none == n = 0 \/ m.pages = 0
             data == IF none THEN Null ELSE <<"memory_data">>
             done == [m EXCEPT !.counts["memory"] = n, !.memoryData = data]
  <2>1. \/ (\E what : Undefined(what)) \/ Rejected(m, {})
        \/ Goto("tables", done, Allocated(done.memoryData))
    BY <1>8 DEF MemoriesInstantiate
  <2>2. /\ done.functions = m.functions /\ done.imports = m.imports
        /\ done.counts = [m.counts EXCEPT !["memory"] = n]
    <3> HIDE DEF n, data
    <3> QED BY <1>2, ModuleFields
  <2>3. Steady(done)
    <3> HIDE DEF done, n
    <3> QED BY <1>2, <1>3, <2>2 DEF Steady
  <2>4. pc \in Instantiating /\ "tables" \in Instantiating
    BY <1>8 DEF MemoriesInstantiate, Instantiating
  <2> HIDE DEF done
  <2> QED BY <1>5, <1>6, <2>1, <2>3, <2>4, StepsOf, InstanceStep
<1>9. CASE TablesInstantiate
  <2> DEFINE n == m.tables
             slots(k) == [i \in 1..n |-> IF i <= k THEN <<"table_data", i>> ELSE Null]
             Data(k) == [m EXCEPT !.tableData = slots(k)]
             Blocks(k) == {<<"table_data", i>> : i \in 1..k}
             done == [Data(n) EXCEPT !.counts["table"] = n]
  <2>1. \/ \E k : Rejected(Data(k), Blocks(k))
        \/ (\E what : Undefined(what)) \/ Goto("exports", done, Blocks(n))
    BY <1>9 DEF TablesInstantiate
  <2>2. ASSUME NEW k PROVE Steady(Data(k))
    <3> HIDE DEF slots
    <3> QED BY <1>2, ModuleFields DEF Steady
  <2>3. /\ done.functions = m.functions /\ done.imports = m.imports
        /\ done.counts = [m.counts EXCEPT !["table"] = n]
    <3> HIDE DEF slots
    <3> QED BY <1>2, ModuleFields
  <2>4. Steady(done)
    <3> HIDE DEF done, n
    <3> QED BY <1>2, <1>3, <2>3 DEF Steady
  <2>5. pc \in Instantiating /\ "exports" \in Instantiating
    BY <1>9 DEF TablesInstantiate, Instantiating
  <2> HIDE DEF done, Data, Blocks
  <2> QED BY <1>5, <2>1, <2>2, <2>4, <2>5, StepsOf, InstanceStep
<1>10. CASE ExportInstantiate
  <2> DEFINE block == <<"export_functions">>
             new == [m EXCEPT !.exportFuncs = block]
  <2>1. Goto("functions", new, {block}) \/ Rejected(m, {})
    BY <1>10 DEF ExportInstantiate
  <2>2. Steady(new)
    BY <1>2, ModuleFields DEF Steady
  <2>3. pc \in Instantiating /\ "functions" \in Instantiating
    BY <1>10 DEF ExportInstantiate, Instantiating
  <2> HIDE DEF new, block
  <2> QED BY <1>6, <2>1, <2>2, <2>3, StepsOf, InstanceStep
<1>11. CASE WasiInit
  <2> DEFINE block == <<"wasi_ctx">>
             new == [m EXCEPT !.wasi = block]
  <2>1. Goto("execute", new, {block} \cup WasiBlocks) \/ Rejected(new, {block}) \/ Exhausted(m, {})
    BY <1>11 DEF WasiInit
  <2>2. Steady(new)
    BY <1>2, ModuleFields DEF Steady
  <2>3. pc \in Executing /\ "execute" \in Executing
    BY <1>11 DEF WasiInit, Executing
  <2> HIDE DEF new, block
  <2> QED BY <1>6, <2>1, <2>2, <2>3, StepsOf, InstanceStep
<1>12. CASE ExecuteMain
  <2>1. \E blocks : Rejected(m, blocks) \/ Goto("running", m, blocks)
    BY <1>12 DEF ExecuteMain
  <2>2. pc \in Executing /\ "running" \in Executing
    BY <1>12 DEF ExecuteMain, Executing
  <2> QED BY <1>6, <2>1, <2>2, StepsOf, InstanceStep
<1> QED BY <1>7, <1>8, <1>9, <1>10, <1>11, <1>12

(* functions_instantiate adds the imports to the count of the functions,   *)
(* and the bodies keep their slots.                                        *)
LEMMA FunctionsJudged ==
  ASSUME Possession, Judgement, FunctionsInstantiate
  PROVE  Judgement'
<1> DEFINE new == [m EXCEPT !.counts["func"] = @ + Base]
<1>1. pc = "functions" /\ pc \notin Final
  BY DEF FunctionsInstantiate, Final, Over, Early
<1>2. DOMAIN m = DOMAIN NewModule /\ DOMAIN m.counts = ImportKinds
  BY <1>1, SlotsHeld DEF Holdings, HoldsTables
<1>3. Goto("wasi", new, {}) \/ Undefined("function slots") \/ Rejected(m, {})
  BY DEF FunctionsInstantiate
<1>4. CASE Undefined("function slots")
  BY <1>4, Abandoned DEF Undefined
<1>5. CASE Rejected(m, {})
  BY <1>5, Abandoned DEF Rejected
<1>6. CASE Goto("wasi", new, {})
  <2>1. new.functions = m.functions /\ new.imports = m.imports
        /\ new.counts = [m.counts EXCEPT !["func"] = Bodies + Base]
    <3> HIDE DEF Base
    <3> QED BY <1>2, ModuleFields DEF Bodies
  <2>2. new.counts["func"] = Bodies + Base
    <3> HIDE DEF new, Base, Bodies
    <3> QED BY <1>2, <2>1 DEF ImportKinds
  <2>3. Base \in Nat /\ Bodies \in Nat /\ Judged(Base + Bodies)
    BY <1>1 DEF Judgement, Base, Bodies, Instantiating
  <2>4. m' = new /\ pc' = "wasi" /\ UNCHANGED <<threads, silent, exception>>
    BY <1>6 DEF Goto, Untouched
  <2> HIDE DEF new
  <2>5. Base' = Base /\ Bodies' = Base + Bodies
    <3>1. Base' = Base /\ Bodies' = Bodies + Base
      BY <2>1, <2>2, <2>4 DEF Base, Bodies
    <3> HIDE DEF Base, Bodies
    <3> QED BY <2>3, <3>1
  <2>6. Judged(Bodies)'
    <3> HIDE DEF Base, Bodies
    <3> QED BY <2>1, <2>3, <2>4, <2>5 DEF Judged, Settled, Serial
  <2>7. m'.imports["func"] \in Nat /\ m'.counts["func"] \in Nat
    <3>1. m'.imports["func"] = Base' /\ m'.counts["func"] = Bodies'
      BY DEF Base, Bodies
    <3> HIDE DEF Base, Bodies
    <3> QED BY <2>3, <2>5, <3>1
  <2> QED BY <2>4, <2>6, <2>7 DEF Judgement, Unvalidated, Early, Instantiating, Executing
<1> HIDE DEF new
<1> QED BY <1>3, <1>4, <1>5, <1>6

(* The return of the program, the failure and the destruction.             *)
LEMMA EndJudged ==
  ASSUME Possession, Judgement, Return \/ Fail \/ Destroy \/ UNCHANGED vars
  PROVE  Judgement'
<1>1. /\ m'.functions = m.functions /\ m'.imports = m.imports /\ m'.counts = m.counts
      /\ UNCHANGED <<threads, silent>> /\ Base' = Base /\ Bodies' = Bodies
  <2>1. CASE Return
    <3>1. DOMAIN m = DOMAIN NewModule
      BY <2>1, SlotsHeld DEF Return, Final, Over, Early
    <3>2. m' = m \/ m' = [m EXCEPT !.memoryData = <<"memory_data">>]
      BY <2>1 DEF Return
    <3>3. m'.functions = m.functions /\ m'.imports = m.imports /\ m'.counts = m.counts
      BY <3>1, <3>2, ModuleFields
    <3> QED BY <2>1, <3>3 DEF Return, Base, Bodies
  <2>2. CASE Fail \/ Destroy \/ UNCHANGED vars
    BY <2>2 DEF Fail, Destroy, Undefined, Untouched, vars, Base, Bodies
  <2> QED BY <2>1, <2>2
<1>2. CASE Return
  <2>1. pc = "running"
    BY <1>2 DEF Return
  <2>2. pc' = "fail" \/ (pc' = "destroy" /\ ~exception')
    <3>1. pc' = IF ~exception' THEN "destroy" ELSE "fail"
      BY <1>2, Zenon DEF Return, CallSucceeded
    <3> QED BY <3>1, Zenon
  <2>3. CASE pc' = "fail"
    BY <1>1, <2>3, Abandoned
  <2>4. CASE pc' = "destroy" /\ ~exception'
    <3>1. exception' = exception \/ exception' = TRUE
      BY <1>2, Zenon DEF Return
    <3>2. ~exception
      BY <2>4, <3>1, Zenon
    <3>3. Judged(Bodies)
      BY <2>1 DEF Judgement, Executing
    <3>4. \A k : Settled(k) => Settled(k)'
      BY <1>1, <2>4, <3>2, Zenon DEF Settled
    <3>5. Judged(Bodies)'
      BY <1>1, <3>3, <3>4 DEF Judged, Serial
    <3> QED BY <1>1, <2>4, <3>5 DEF Judgement, Unvalidated, Early, Instantiating, Executing
  <2> QED BY <2>2, <2>3, <2>4
<1>3. CASE Fail
  BY <1>1, <1>3 DEF Fail, Judgement, Unvalidated, Early, Instantiating, Executing
<1>4. CASE Destroy
  <2>1. pc = "destroy" /\ (pc' = "undefined" \/ pc' = "exited")
        /\ UNCHANGED <<exception, exit>>
    BY <1>4 DEF Destroy, Undefined, Untouched
  <2>2. CASE pc' = "undefined"
    BY <1>1, <2>2, Abandoned
  <2>3. CASE pc' = "exited" /\ exit' = 0
    <3>1. ~exception /\ Judged(Bodies)
      BY <2>1, <2>3 DEF Judgement
    <3>2. Judged(Bodies)'
      BY <1>1, <2>1, <3>1 DEF Judged, Settled, Serial
    <3> QED BY <1>1, <2>1, <2>3, <3>1, <3>2
            DEF Judgement, Unvalidated, Early, Instantiating, Executing
  <2>4. CASE pc' = "exited" /\ exit' # 0
    BY <1>1, <2>4 DEF Judgement, Unvalidated, Early, Instantiating, Executing
  <2> QED BY <2>1, <2>2, <2>3, <2>4
<1>5. CASE UNCHANGED vars
  <2>1. UNCHANGED <<pc, m, exception, threads, exit, silent>>
    BY <1>5 DEF vars
  <2> QED BY <2>1 DEF Judgement, Judged, Settled, Serial, Shared, OneByOne, Base, Bodies
<1> QED BY <1>2, <1>3, <1>4, <1>5

(* Every step keeps it.                                                    *)
LEMMA NextJudged ==
  ASSUME Possession, Judgement, [Next]_vars
  PROVE  Judgement'
<1>1. CASE InitEnv \/ Options \/ ReadFile \/ CreateModule
  BY <1>1, EarlyJudged
<1>2. CASE InitLoad
  BY <1>2, InitLoadJudged
<1>3. CASE LoadSection
  BY <1>3, LoadJudged
<1>4. CASE StartValidator
  BY <1>4, StartJudged
<1>5. CASE ValidateSerially \/ JoinThreads
  BY <1>5, SerialJudged, JoinJudged
<1>6. ASSUME NEW t \in Threads, ThreadStep(t)
      PROVE  Judgement'
  BY <1>6, BodyJudged, ExitJudged DEF ThreadStep
<1>7. CASE \/ GlobalsInstantiate \/ MemoriesInstantiate \/ TablesInstantiate \/ ExportInstantiate
           \/ WasiInit \/ ExecuteMain
  BY <1>7, InstantiateJudged
<1>8. CASE FunctionsInstantiate
  BY <1>8, FunctionsJudged
<1>9. CASE Return \/ Fail \/ Destroy \/ UNCHANGED vars
  BY <1>9, EndJudged
<1> QED BY <1>1, <1>2, <1>3, <1>4, <1>5, <1>6, <1>7, <1>8, <1>9 DEF Next, Main, Instantiate

(* What it says of the exit.                                               *)
LEMMA JudgedClean ==
  ASSUME Judgement
  PROVE  CleanExit
BY DEF Judgement, CleanExit, Judged, Settled

(* The exit code 0 tells that there is no exception and that every body    *)
(* was accepted, whatever the order in which any number of threads         *)
(* validate them, unless a body was rejected for want of memory.           *)
THEOREM CleanExitJudged == Spec => []CleanExit
<1>1. Init => Possession /\ Judgement
  BY InitPossession, InitJudgement
<1>2. (Possession /\ Judgement) /\ [Next]_vars => (Possession /\ Judgement)'
  BY NextKept, NextJudged
<1>3. Possession /\ Judgement => CleanExit
  BY JudgedClean
<1> QED BY <1>1, <1>2, <1>3, PTL DEF Spec

----------------------------------------------------------------------------
(* What a regular file lays out                                            *)

(* Where the module is built up.                                           *)
Preparing == {"sections", "validate", "join", "serial", "globals", "memories", "tables",
              "exports", "functions"}

(* All sections of a kind stand before p.                                  *)
Past(id, p) == \A s \in SectionsOf(id) : s < p

(* The slots are as many as init_load has counted.                         *)
SizesLaid(mod) ==
  /\ mod.imports["func"] = ImportCount("func") /\ mod.imports["global"] = ImportCount("global")
  /\ mod.imports["table"] = ImportCount("table") /\ mod.imports["memory"] = ImportCount("memory")
  /\ mod.counts["func"] = SectionCount("func")
  /\ DOMAIN mod.functions = 1 .. Slots("func") /\ DOMAIN mod.globals = 1 .. Slots("global")
  /\ Counted(mod.globals) /\ mod.tables = Slots("table")

(* Imports fill their slots, one each.                                     *)
ImportsLaid(mod, p) ==
  Past("import", p) =>
    /\ \A k \in 1 .. ImportCount("func") : mod.functions[k].from # 0
    /\ \A k \in 1 .. ImportCount("global") : mod.globals[k].from # -1

(* The function section fills the slots behind the imports ...             *)
FunctionsLaid(mod, p) ==
  Past("func", p) =>
    \A k \in 1 .. SectionCount("func") : mod.functions[ImportCount("func") + k].type # Null

(* ... as the global section does.                                         *)
GlobalsLaid(mod, p) ==
  /\ \A g \in DOMAIN mod.globals : /\ DOMAIN mod.globals[g] = DOMAIN NoGlobal
                                   /\ mod.globals[g].target \in 0 .. ImportCount("global")
  /\ Past("global", p) =>
       \A k \in 1 .. SectionCount("global") : mod.globals[ImportCount("global") + k].from # -1

(* A body has room for the parameters of its type, which came first.       *)
BodiesLaid(mod, p) ==
  \A k \in DOMAIN mod.functions :
    \/ mod.functions[k].room = -1
    \/ /\ mod.functions[k].room = mod.functions[k].params
       /\ \E c \in SectionsOf("code") : c < p

(* The size of the memory is one the file declares.                        *)
MemoryLaid(mod, p) ==
  /\ mod.pages \in {0} \cup Memories
  /\ Past("import", p) /\ ImportCount("memory") > 0 => mod.pages \in Memories
  /\ Past("memory", p) /\ SectionCount("memory") > 0 => mod.pages \in Memories

(* Segments fit, and their offsets are constants or imported.              *)
SegmentsLaid(mod) ==
  /\ \A i \in DOMAIN mod.data :
       /\ mod.data[i].fits /\ Memories # {} /\ 0 \notin Memories
       /\ mod.data[i].global \in 0 .. ImportCount("global")
  /\ \A e \in DOMAIN mod.elements :
       /\ mod.elements[e].item.table \in 0 .. Slots("table") - 1
       /\ mod.elements[e].item.global \in 0 .. ImportCount("global")

(* All of it.                                                              *)
Laid(mod, p) ==
  /\ SizesLaid(mod) /\ ImportsLaid(mod, p) /\ FunctionsLaid(mod, p) /\ GlobalsLaid(mod, p)
  /\ BodiesLaid(mod, p) /\ MemoryLaid(mod, p) /\ SegmentsLaid(mod)

(* The bodies have slots behind those of the imports; in the end they are  *)
(* counted together.                                                       *)
Sized ==
  /\ Base \in Nat /\ Bodies \in Nat
  /\ \/ DOMAIN m.functions = 1 .. Base + Bodies
     \/ /\ pc \notin Preparing /\ m.stage = "Instantiate"
        /\ DOMAIN m.functions = 1 .. Bodies /\ Base <= Bodies
  /\ pc \in {"memories", "tables", "exports", "functions"} => m.stage = "Instantiate"

(* The inductive invariant: a regular file lays the module out as far as   *)
(* it was read.                                                            *)
Regularity ==
  /\ Sized /\ pos \in Nat \ {0}
  /\ pc \in Early \cup {"header"} => pos = 1
  /\ pc \in Preparing \ {"sections"} => pos \notin DOMAIN file.sections
  /\ pc \in Preparing /\ Regular => Laid(m, pos)
  /\ pc \in Preparing \ {"tables", "exports", "functions"} =>
       m.counts["memory"] = SectionCount("memory")
  /\ fault # "none" => pc = "undefined"
  /\ RegularDefined

(* The places of the kinds in the order of the standard.                   *)
LEMMA Ranks ==
  /\ \A id \in SectionIds \ {"custom"} : Rank(id) \in Int
  /\ Rank("func") = 3 /\ Rank("code") = 10
<1>1. \A id \in SectionIds \ {"custom"} : \E r \in 1 .. 11 : Order[r] = id
  <2>1. /\ Order[1] = "type" /\ Order[2] = "import" /\ Order[3] = "func" /\ Order[4] = "table"
        /\ Order[5] = "memory" /\ Order[6] = "global" /\ Order[7] = "export" /\ Order[8] = "start"
        /\ Order[9] = "element" /\ Order[10] = "code" /\ Order[11] = "data"
    BY DEF Order
  <2> HIDE DEF Order
  <2> QED BY <2>1 DEF SectionIds, ImportKinds
<1>2. Len(Order) = 11
  BY DEF Order
<1>3. \A r \in 1 .. 11 : (Order[r] = "func" => r = 3) /\ (Order[r] = "code" => r = 10)
  BY DEF Order
<1> HIDE DEF Order
<1> QED BY <1>1, <1>2, <1>3 DEF Rank, SectionIds, ImportKinds

(* Sections are numbered from 1.                                           *)
LEMMA SectionNumbers ==
  ASSUME file \in Files, NEW id, NEW s \in SectionsOf(id)
  PROVE  s \in Nat \ {0} /\ s \in DOMAIN file.sections /\ file.sections[s].id = id
BY FileShape DEF SectionsOf, Counted

(* A regular file has at most one section of a kind ...                    *)
LEMMA Sole ==
  ASSUME file \in Files, Regular, NEW id \in SectionIds \ {"custom"},
         NEW s \in SectionsOf(id), NEW t \in SectionsOf(id)
  PROVE  s = t
<1>1. /\ s \in Nat /\ s \in DOMAIN file.sections /\ file.sections[s].id = id
      /\ t \in Nat /\ t \in DOMAIN file.sections /\ file.sections[t].id = id
  BY SectionNumbers
<1>2. Rank(id) \in Int
  BY Ranks
<1>3. s < t => Rank(id) < Rank(id)
  BY <1>1 DEF Regular
<1>4. t < s => Rank(id) < Rank(id)
  BY <1>1 DEF Regular
<1> QED BY <1>1, <1>2, <1>3, <1>4

(* ... and the functions before the code.                                  *)
LEMMA CodeAfter ==
  ASSUME file \in Files, Regular, NEW s \in SectionsOf("func"), NEW c \in SectionsOf("code")
  PROVE  s < c
<1>1. /\ s \in Nat /\ s \in DOMAIN file.sections /\ file.sections[s].id = "func"
      /\ c \in Nat /\ c \in DOMAIN file.sections /\ file.sections[c].id = "code"
  BY SectionNumbers
<1>2. c < s => Rank("code") < Rank("func")
  BY <1>1 DEF Regular
<1>3. c # s
  BY <1>1
<1> QED BY <1>1, <1>2, <1>3, Ranks

(* The count of a kind is that of its only section.                        *)
LEMMA SoleSection ==
  ASSUME file \in Files, Regular, NEW id \in SectionIds \ {"custom"}, pos \in SectionsOf(id)
  PROVE  SectionsOf(id) = {pos} /\ SectionCount(id) = Len(file.sections[pos].items)
<1>1. SectionsOf(id) = {pos}
  BY Sole
<1>2. pos \in Nat /\ {pos} \in SUBSET (0 .. pos)
  BY SectionNumbers
<1>3. Max({pos}) = pos
  BY <1>2, Greatest
<1> QED BY <1>1, <1>3 DEF SectionCount

(* ... so that the imports counted are those of one section.               *)
LEMMA SoleImports ==
  ASSUME file \in Files, Regular, pos \in SectionsOf("import"), NEW kind
  PROVE  /\ IsFiniteSet(ImportsOf(pos, kind))
         /\ ImportCount(kind) = Cardinality(ImportsOf(pos, kind))
<1> DEFINE I == ImportsOf(pos, kind)
           T == {{s} \X ImportsOf(s, kind) : s \in SectionsOf("import")}
<1>1. SectionsOf("import") = {pos}
  BY SoleSection DEF SectionIds
<1>2. Len(file.sections[pos].items) \in Nat /\ I \in SUBSET (1 .. Len(file.sections[pos].items))
  BY FileShape DEF SectionsOf, ImportsOf, Counted
<1>3. IsFiniteSet(I) /\ Cardinality(I) \in Nat
  BY <1>2, CardinalityNat
<1>4. T = {{pos} \X I}
  BY <1>1
<1>8. ImportCount(kind) = Cardinality(UNION T)
  BY DEF ImportCount
<1> HIDE DEF I, T
<1>5. UNION {{pos} \X I} = {pos} \X I
  OBVIOUS
<1>6. IsFiniteSet({pos}) /\ Cardinality({pos}) = 1
  BY FS_Singleton
<1>7. Cardinality({pos} \X I) = 1 * Cardinality(I)
  BY <1>3, <1>6, FS_Product
<1>9. Cardinality({pos} \X I) = Cardinality(I)
  BY <1>3, <1>7
<1>10. ImportCount(kind) = Cardinality(I)
  BY <1>4, <1>5, <1>8, <1>9, Zenon
<1> QED BY <1>3, <1>10 DEF I

(* What is past stays so when another section is read.                     *)
LEMMA PastKept ==
  ASSUME file \in Files, pos \in Nat, NEW id, Section(id), NEW other, other # id,
         Past(other, pos + 1)
  PROVE  Past(other, pos)
<1> SUFFICES ASSUME NEW s \in SectionsOf(other) PROVE s < pos
  BY DEF Past
<1>1. s \in Nat /\ file.sections[s].id = other
  BY SectionNumbers
<1>2. s < pos + 1
  BY DEF Past
<1>3. s # pos
  BY <1>1 DEF Section
<1> QED BY <1>1, <1>2, <1>3

(* What a section leaves alone stays laid out.                             *)
LEMMA LaidOther ==
  ASSUME file \in Files, pos \in Nat, NEW id, Section(id), Laid(m, pos),
         DOMAIN m = DOMAIN NewModule, NEW new, NEW changed, Agree(new, m, changed)
  PROVE  /\ {"imports", "counts", "tables", "functions", "globals"} \cap changed = {}
              => SizesLaid(new)
         /\ {"functions", "globals"} \cap changed = {} /\ id # "import" => ImportsLaid(new, pos + 1)
         /\ {"functions"} \cap changed = {} /\ id # "func" => FunctionsLaid(new, pos + 1)
         /\ {"globals"} \cap changed = {} /\ id # "global" => GlobalsLaid(new, pos + 1)
         /\ {"functions"} \cap changed = {} => BodiesLaid(new, pos + 1)
         /\ {"pages"} \cap changed = {} /\ id \notin {"import", "memory"} => MemoryLaid(new, pos + 1)
         /\ {"data", "elements"} \cap changed = {} => SegmentsLaid(new)
<1>0. \A f \in DOMAIN NewModule \ changed : new[f] = m[f]
  BY DEF Agree
<1>1. ASSUME {"imports", "counts", "tables", "functions", "globals"} \cap changed = {}
      PROVE  SizesLaid(new)
  <2>1. /\ new.imports = m.imports /\ new.counts = m.counts /\ new.tables = m.tables
        /\ new.functions = m.functions /\ new.globals = m.globals
    BY <1>0, <1>1, ModuleFields
  <2> QED BY <2>1 DEF Laid, SizesLaid
<1>2. ASSUME {"functions", "globals"} \cap changed = {}, id # "import" PROVE ImportsLaid(new, pos + 1)
  <2>1. new.functions = m.functions /\ new.globals = m.globals
    BY <1>0, <1>2, ModuleFields
  <2>2. Past("import", pos + 1) => Past("import", pos)
    BY <1>2, PastKept
  <2> QED BY <2>1, <2>2 DEF Laid, ImportsLaid
<1>3. ASSUME {"functions"} \cap changed = {}, id # "func" PROVE FunctionsLaid(new, pos + 1)
  <2>1. new.functions = m.functions
    BY <1>0, <1>3, ModuleFields
  <2>2. Past("func", pos + 1) => Past("func", pos)
    BY <1>3, PastKept
  <2> QED BY <2>1, <2>2 DEF Laid, FunctionsLaid
<1>4. ASSUME {"globals"} \cap changed = {}, id # "global" PROVE GlobalsLaid(new, pos + 1)
  <2>1. new.globals = m.globals
    BY <1>0, <1>4, ModuleFields
  <2>2. Past("global", pos + 1) => Past("global", pos)
    BY <1>4, PastKept
  <2> QED BY <2>1, <2>2 DEF Laid, GlobalsLaid
<1>5. ASSUME {"functions"} \cap changed = {} PROVE BodiesLaid(new, pos + 1)
  <2>1. new.functions = m.functions
    BY <1>0, <1>5, ModuleFields
  <2>2. (\E c \in SectionsOf("code") : c < pos) => \E c \in SectionsOf("code") : c < pos + 1
    BY SectionNumbers
  <2> QED BY <2>1, <2>2 DEF Laid, BodiesLaid
<1>6. ASSUME {"pages"} \cap changed = {}, id \notin {"import", "memory"} PROVE MemoryLaid(new, pos + 1)
  <2>1. new.pages = m.pages
    BY <1>0, <1>6, ModuleFields
  <2>2. /\ Past("import", pos + 1) => Past("import", pos)
        /\ Past("memory", pos + 1) => Past("memory", pos)
    BY <1>6, PastKept
  <2> QED BY <2>1, <2>2 DEF Laid, MemoryLaid
<1>7. ASSUME {"data", "elements"} \cap changed = {} PROVE SegmentsLaid(new)
  <2>1. new.data = m.data /\ new.elements = m.elements
    BY <1>0, <1>7, ModuleFields
  <2> QED BY <2>1 DEF Laid, SegmentsLaid
<1> QED BY <1>1, <1>2, <1>3, <1>4, <1>5, <1>6, <1>7

(* The members of a set of positions are numbered from 1 to its size.      *)
LEMMA Ordinals ==
  ASSUME NEW n \in Nat, NEW S \in SUBSET (1 .. n)
  PROVE  /\ \A k \in 1 .. Cardinality(S) : \E i \in S : Cardinality(S \cap (1 .. i - 1)) + 1 = k
         /\ \A i \in S : Cardinality(S \cap (1 .. i - 1)) + 1 \in 1 .. Cardinality(S)
<1> DEFINE C(x) == Cardinality(S \cap (1 .. x))
           Numbered(x) == \A k \in 1 .. C(x) : \E i \in S : C(i - 1) + 1 = k
           P == {x \in Nat : Numbered(x)}
<1>1. ASSUME NEW x \in Nat
      PROVE  /\ C(x) \in Nat /\ IsFiniteSet(S \cap (1 .. x))
             /\ S \cap (1 .. x + 1) = IF x + 1 \in S THEN (S \cap (1 .. x)) \cup {x + 1}
                                                     ELSE S \cap (1 .. x)
  <2>1. S \cap (1 .. x) \in SUBSET (1 .. n)
    OBVIOUS
  <2>2. C(x) \in Nat /\ IsFiniteSet(S \cap (1 .. x))
    BY <2>1, CardinalityNat
  <2>3. 1 .. x + 1 = (1 .. x) \cup {x + 1}
    BY <1>1
  <2> HIDE DEF C
  <2> QED BY <2>2, <2>3
<1>2. ASSUME NEW x \in Nat
      PROVE  C(x + 1) = IF x + 1 \in S THEN C(x) + 1 ELSE C(x)
  <2>1. x + 1 \notin S \cap (1 .. x)
    BY <1>2
  <2>2. Cardinality((S \cap (1 .. x)) \cup {x + 1}) = C(x) + 1
    BY <1>1, <2>1, FS_AddElement
  <2> QED BY <1>1, <2>2
<1>3. 0 \in P
  <2>1. S \cap (1 .. 0) = {}
    OBVIOUS
  <2>2. C(0) = 0
    BY <2>1, FS_EmptySet
  <2> HIDE DEF C
  <2> QED BY <2>2
<1>4. ASSUME NEW x \in Nat, x \in P PROVE x + 1 \in P
  <2>0. x + 1 - 1 = x
    BY <1>4
  <2>1. Numbered(x)
    BY <1>4
  <2>2. CASE x + 1 \in S
    <3>1. C(x + 1) = C(x) + 1
      BY <1>2, <2>2
    <3>2. C(x + 1 - 1) + 1 = C(x) + 1
      BY <2>0
    <3>3. C(x) \in Nat
      BY <1>1
    <3> HIDE DEF C
    <3>4. ASSUME NEW k \in 1 .. C(x + 1) PROVE \E i \in S : C(i - 1) + 1 = k
      <4>1. CASE k \in 1 .. C(x)
        BY <2>1, <4>1
      <4>2. k \in 1 .. C(x) \/ k = C(x) + 1
        BY <3>1, <3>3
      <4> QED BY <2>2, <3>2, <4>1, <4>2
    <3> QED BY <3>4
  <2>3. CASE x + 1 \notin S
    <3>1. C(x + 1) = C(x)
      BY <1>2, <2>3
    <3> HIDE DEF C
    <3> QED BY <2>1, <3>1
  <2> QED BY <2>2, <2>3
<1>5. Nat \subseteq P
  <2> HIDE DEF P
  <2> QED BY <1>3, <1>4, Induction
<1>6. S \cap (1 .. n) = S
  OBVIOUS
<1>7. Numbered(n) /\ C(n) = Cardinality(S)
  BY <1>5, <1>6
<1>8. ASSUME NEW i \in S PROVE C(i - 1) + 1 \in 1 .. Cardinality(S)
  <2>1. i \in Nat /\ i - 1 \in Nat /\ i - 1 + 1 = i
    OBVIOUS
  <2>2. C(i) = C(i - 1) + 1 /\ C(i - 1) \in Nat
    BY <1>1, <1>2, <2>1
  <2>3. S \cap (1 .. i) \in SUBSET S /\ IsFiniteSet(S)
    BY CardinalityNat
  <2>4. C(i) <= Cardinality(S) /\ Cardinality(S) \in Nat
    BY <2>3, FS_Subset, CardinalityNat
  <2> HIDE DEF C
  <2> QED BY <2>2, <2>4
<1> QED BY <1>7, <1>8

(* In a regular file every import has a slot of its own.                   *)
LEMMA SlotsNumbered ==
  ASSUME file \in Files, Regular, pos \in SectionsOf("import"), NEW i \in DOMAIN file.sections[pos].items
  PROVE  LET kind == file.sections[pos].items[i].kind
         IN  /\ kind # "table"
             /\ kind \in {"func", "global", "memory"} =>
                  ImportSlot(i) = Cardinality(ImportsOf(pos, kind) \cap (1 .. i - 1)) + 1
<1> DEFINE items == file.sections[pos].items
           n == Len(items)
<1>1. n \in Nat /\ DOMAIN items = 1 .. n /\ i \in 1 .. n
  BY FileShape DEF SectionsOf, Counted
<1>2. ImportsOf(pos, "table") = {}
  <2>1. IsFiniteSet(ImportsOf(pos, "table")) /\ Cardinality(ImportsOf(pos, "table")) = 0
    BY SoleImports DEF Regular
  <2> QED BY <2>1, FS_EmptySet
<1>3. \A j \in DOMAIN items : items[j].kind # "table"
  BY <1>2 DEF ImportsOf
<1>4. ASSUME NEW kind \in {"func", "global", "memory"}, NEW kinds, kind \in kinds,
             kinds \subseteq {kind, "table"}
      PROVE  {j \in 1 .. i - 1 : items[j].kind \in kinds} = ImportsOf(pos, kind) \cap (1 .. i - 1)
  <2>1. ASSUME NEW j PROVE j \in 1 .. i - 1 /\ items[j].kind \in kinds
                             <=> j \in ImportsOf(pos, kind) \cap (1 .. i - 1)
    <3>1. j \in 1 .. i - 1 => j \in DOMAIN items
      BY <1>1
    <3> QED BY <1>3, <1>4, <3>1 DEF ImportsOf
  <2> QED BY <2>1
<1>5. ASSUME NEW kinds
      PROVE  Cardinality({j \in 1 .. i - 1 : items[j].kind \in kinds}) \in Nat
  <2>1. i - 1 \in Nat /\ {j \in 1 .. i - 1 : items[j].kind \in kinds} \in SUBSET (1 .. i - 1)
    BY <1>1
  <2> QED BY <2>1, CardinalityNat
<1>6. CASE items[i].kind = "func"
  <2> DEFINE A == {j \in 1 .. i - 1 : items[j].kind \in {"func"}}
             B == ImportsOf(pos, "func") \cap (1 .. i - 1)
  <2>1. ImportSlot(i) = 1 + Cardinality(A)
    BY <1>6 DEF ImportSlot
  <2>2. A = B
    BY <1>4
  <2>3. Cardinality(A) \in Nat
    BY <1>5
  <2> HIDE DEF A, B
  <2>4. ImportSlot(i) = Cardinality(B) + 1
    BY <2>1, <2>2, <2>3
  <2> QED BY <1>3, <1>6, <2>4 DEF B
<1>7. CASE items[i].kind = "global"
  <2> DEFINE A == {j \in 1 .. i - 1 : items[j].kind \in {"global", "table"}}
             B == ImportsOf(pos, "global") \cap (1 .. i - 1)
  <2>1. ImportSlot(i) = 1 + Cardinality(A)
    BY <1>7 DEF ImportSlot
  <2>2. A = B
    BY <1>4
  <2>3. Cardinality(A) \in Nat
    BY <1>5
  <2> HIDE DEF A, B
  <2>4. ImportSlot(i) = Cardinality(B) + 1
    BY <2>1, <2>2, <2>3
  <2> QED BY <1>3, <1>7, <2>4 DEF B
<1>8. CASE items[i].kind = "memory"
  <2> DEFINE A == {j \in 1 .. i - 1 : items[j].kind \in {"memory"}}
             B == ImportsOf(pos, "memory") \cap (1 .. i - 1)
  <2>1. ImportSlot(i) = 1 + Cardinality(A)
    BY <1>8 DEF ImportSlot
  <2>2. A = B
    BY <1>4
  <2>3. Cardinality(A) \in Nat
    BY <1>5
  <2> HIDE DEF A, B
  <2>4. ImportSlot(i) = Cardinality(B) + 1
    BY <2>1, <2>2, <2>3
  <2> QED BY <1>3, <1>8, <2>4 DEF B
<1> QED BY <1>3, <1>6, <1>7, <1>8

(* The length of a sequence is told by its positions.                      *)
LEMMA SameLength ==
  ASSUME NEW s, Counted(s), NEW n \in Nat, DOMAIN s = 1 .. n
  PROVE  Len(s) = n
<1>1. Len(s) \in Nat /\ 1 .. Len(s) = 1 .. n
  BY DEF Counted
<1>2. ASSUME Len(s) < n PROVE FALSE
  <2>1. n \in 1 .. n /\ n \notin 1 .. Len(s)
    BY <1>1, <1>2
  <2> QED BY <1>1, <2>1
<1>3. ASSUME n < Len(s) PROVE FALSE
  <2>1. Len(s) \in 1 .. Len(s) /\ Len(s) \notin 1 .. n
    BY <1>1, <1>3
  <2> QED BY <1>1, <2>1
<1> QED BY <1>1, <1>2, <1>3

(* What a regular file tells a section's loader.                           *)
LEMMA InRegular ==
  ASSUME Possession, Regularity, Regular, NEW id, Section(id)
  PROVE  /\ Laid(m, pos) /\ pos \in Nat /\ file \in Files /\ pos \in SectionsOf(id)
         /\ DOMAIN m = DOMAIN NewModule /\ Counted(file.sections[pos].items)
         /\ \A kind : ImportCount(kind) \in Nat /\ SectionCount(kind) \in Nat
         /\ Len(m.functions) = Slots("func") /\ Len(m.globals) = Slots("global")
         /\ \A k \in DOMAIN m.functions : DOMAIN m.functions[k] = DOMAIN NoFunction
<1>1. /\ pc = "sections" /\ file \in Files /\ Holdings(m, heap) /\ DOMAIN m = DOMAIN NewModule
      /\ Counted(file.sections[pos].items)
  BY InSection
<1>2. Laid(m, pos) /\ pos \in Nat
  BY <1>1 DEF Regularity, Preparing
<1>3. pos \in SectionsOf(id)
  BY DEF Section, SectionsOf
<1>4. \A kind : ImportCount(kind) \in Nat /\ SectionCount(kind) \in Nat
  BY <1>1, ImportCountNat, SectionCountNat
<1>5. /\ Counted(m.functions)
      /\ \A k \in DOMAIN m.functions : DOMAIN m.functions[k] = DOMAIN NoFunction
  BY <1>1 DEF Holdings, HoldsFunctions
<1>6. Slots("func") \in Nat /\ Slots("global") \in Nat
  BY <1>4 DEF Slots
<1>7. /\ DOMAIN m.functions = 1 .. Slots("func") /\ DOMAIN m.globals = 1 .. Slots("global")
      /\ Counted(m.globals)
  BY <1>2 DEF Laid, SizesLaid
<1> QED BY <1>1, <1>2, <1>3, <1>4, <1>5, <1>6, <1>7, SameLength

(* No import of a regular file leaves the array of its slots.              *)
LEMMA ImportsFit ==
  ASSUME Possession, Regularity, Regular, Section("import"),
         NEW i \in DOMAIN file.sections[pos].items, ImportReadable(file.sections[pos].items[i])
  PROVE  ~(ImportSlot(i) > ImportSlots(file.sections[pos].items[i].kind))
<1> DEFINE items == file.sections[pos].items
           kind == items[i].kind
           S == ImportsOf(pos, kind)
<1>1. /\ file \in Files /\ pos \in SectionsOf("import") /\ Counted(items)
      /\ Len(m.functions) = Slots("func") /\ Len(m.globals) = Slots("global")
      /\ \A k : ImportCount(k) \in Nat /\ SectionCount(k) \in Nat
  BY InRegular
<1>2. kind \in {"func", "global", "memory"} /\ ImportSlot(i) = Cardinality(S \cap (1 .. i - 1)) + 1
  <2>1. kind \in ImportKinds
    BY DEF ImportReadable
  <2> QED BY <1>1, <2>1, SlotsNumbered DEF ImportKinds
<1>3. S \in SUBSET (1 .. Len(items)) /\ i \in S /\ Len(items) \in Nat
  BY <1>1 DEF ImportsOf, Counted
<1>4. ImportSlot(i) \in 1 .. Cardinality(S)
  BY <1>2, <1>3, Ordinals
<1>5. ImportCount(kind) = Cardinality(S)
  BY <1>1, SoleImports
<1> HIDE DEF S, kind
<1>6. ImportSlot(i) \in 1 .. ImportCount(kind)
  BY <1>4, <1>5
<1>7. ImportCount(kind) <= ImportSlots(kind)
  <2>1. CASE kind = "func"
    BY <1>1, <2>1 DEF ImportSlots, Slots
  <2>2. CASE kind = "global"
    BY <1>1, <2>2 DEF ImportSlots, Slots
  <2>3. CASE kind = "memory"
    <3>1. Slots("memory") <= 1
      BY DEF Regular
    <3> QED BY <1>1, <2>3, <3>1 DEF ImportSlots, Slots
  <2> QED BY <1>2, <2>1, <2>2, <2>3
<1>8. ImportSlots(kind) \in Int
  BY <1>1, <1>2 DEF ImportSlots, Slots
<1> QED BY <1>1, <1>6, <1>7, <1>8 DEF kind

(* The imports that fill a slot, and the number of an import.              *)
FilledBy(items, n, kind, k) == {i \in 1..n : items[i].kind = kind /\ ImportSlot(i) = k}
OrdinalOf(items, i) == Cardinality({j \in 1..i : items[j].kind = items[i].kind})

(* What the imports of a section leave in the module.                      *)
Imported(new, items, n) ==
  /\ Agree(new, m, {"functions", "globals", "pages"})
  /\ DOMAIN new.functions = DOMAIN m.functions
  /\ DOMAIN new.globals = DOMAIN m.globals
  /\ \A k \in DOMAIN m.functions :
       new.functions[k] =
         LET filled == FilledBy(items, n, "func", k)
         IN  IF filled = {} THEN m.functions[k]
             ELSE [m.functions[k] EXCEPT !.from = OrdinalOf(items, Max(filled)),
                                         !.type = TypeAt(items[Max(filled)].type),
                                         !.name = items[Max(filled)].name]
  /\ \A k \in DOMAIN m.globals :
       new.globals[k] =
         LET filled == FilledBy(items, n, "global", k)
         IN  IF filled = {} THEN m.globals[k]
             ELSE [m.globals[k] EXCEPT !.from = OrdinalOf(items, Max(filled))]
  /\ new.pages = LET filled == FilledBy(items, n, "memory", 1)
                 IN  IF filled = {} THEN m.pages ELSE items[Max(filled)].type

(* What the imports of a section write, slot by slot.                      *)
LEMMA ImportsWritten ==
  ASSUME DOMAIN m = DOMAIN NewModule, NEW items, NEW n
  PROVE  Imported(WithImports(items, n), items, n)
<1> DEFINE new == WithImports(items, n)
           Filled(kind, k) == FilledBy(items, n, kind, k)
           Ordinal(i) == OrdinalOf(items, i)
           fs == [k \in DOMAIN m.functions |->
                    IF Filled("func", k) = {} THEN m.functions[k]
                    ELSE [m.functions[k] EXCEPT !.from = Ordinal(Max(Filled("func", k))),
                                                !.type = TypeAt(items[Max(Filled("func", k))].type),
                                                !.name = items[Max(Filled("func", k))].name]]
           gs == [k \in DOMAIN m.globals |->
                    IF Filled("global", k) = {} THEN m.globals[k]
                    ELSE [m.globals[k] EXCEPT !.from = Ordinal(Max(Filled("global", k)))]]
           size == IF Filled("memory", 1) = {} THEN m.pages
                   ELSE items[Max(Filled("memory", 1))].type
<1>1. new = [m EXCEPT !.functions = fs, !.globals = gs, !.pages = size]
  BY Zenon DEF WithImports, FilledBy, OrdinalOf
<1> HIDE DEF fs, gs, size, new
<1>2. /\ Agree(new, m, {"functions", "globals", "pages"})
      /\ new.functions = fs /\ new.globals = gs /\ new.pages = size
  BY <1>1, ModuleFields DEF Agree
<1>3. DOMAIN fs = DOMAIN m.functions /\ DOMAIN gs = DOMAIN m.globals
  BY DEF fs, gs
<1>4. \A k \in DOMAIN m.functions : fs[k] = 
        IF Filled("func", k) = {} THEN m.functions[k]
        ELSE [m.functions[k] EXCEPT !.from = Ordinal(Max(Filled("func", k))),
                                    !.type = TypeAt(items[Max(Filled("func", k))].type),
                                    !.name = items[Max(Filled("func", k))].name]
  BY DEF fs
<1>5. \A k \in DOMAIN m.globals : gs[k] = 
        IF Filled("global", k) = {} THEN m.globals[k]
        ELSE [m.globals[k] EXCEPT !.from = Ordinal(Max(Filled("global", k)))]
  BY DEF gs
<1> QED BY <1>2, <1>3, <1>4, <1>5 DEF size, new, Imported

(* A sequence with the same positions is as long.                          *)
LEMMA SameCounted ==
  ASSUME NEW s, NEW t, Counted(s), DOMAIN t = DOMAIN s
  PROVE  Counted(t)
BY DEF Counted

(* A type that is known is one.                                            *)
LEMMA TypeThere ==
  ASSUME Possession, pc = "sections", NEW t, TypeKnown(t)
  PROVE  TypeAt(t) # Null
<1>1. HoldsTypes(m, heap)
  BY SlotsHeld DEF Final, Over, Early, Holdings
<1>2. t + 1 \in DOMAIN m.types
  BY <1>1 DEF TypeKnown, HoldsTypes, Counted
<1>3. TypeAt(t)[1] = "type"
  BY <1>1, <1>2 DEF TypeAt, HoldsTypes
<1>4. Null[1] # "type"
  BY DEF Null
<1> QED BY <1>3, <1>4

(* The import section of a regular file is read.                           *)
LEMMA ImportsLaidOut ==
  ASSUME Possession, Regularity, Regular, Section("import"),
         NEW n, n = Len(file.sections[pos].items),
         \A i \in 1 .. n : ImportReadable(file.sections[pos].items[i])
  PROVE  Laid(WithImports(file.sections[pos].items, n), pos + 1)
<1> DEFINE items == file.sections[pos].items
           new == WithImports(items, n)
           Filled(kind, k) == FilledBy(items, n, kind, k)
           Ordinal(i) == OrdinalOf(items, i)
           changed == {"functions", "globals", "pages"}
<1>1. /\ Laid(m, pos) /\ pos \in Nat /\ file \in Files /\ pos \in SectionsOf("import")
      /\ DOMAIN m = DOMAIN NewModule /\ Counted(items)
      /\ \A kind : ImportCount(kind) \in Nat /\ SectionCount(kind) \in Nat
      /\ \A k \in DOMAIN m.functions : DOMAIN m.functions[k] = DOMAIN NoFunction
  BY InRegular
<1>0. pc = "sections"
  BY DEF Section
<1>2. n \in Nat /\ DOMAIN items = 1 .. n
  BY <1>1 DEF Counted
<1>3. /\ Agree(new, m, changed)
      /\ DOMAIN new.functions = DOMAIN m.functions
      /\ DOMAIN new.globals = DOMAIN m.globals
      /\ \A k \in DOMAIN m.functions :
           new.functions[k] =
             IF Filled("func", k) = {} THEN m.functions[k]
             ELSE [m.functions[k] EXCEPT !.from = Ordinal(Max(Filled("func", k))),
                                         !.type = TypeAt(items[Max(Filled("func", k))].type),
                                         !.name = items[Max(Filled("func", k))].name]
      /\ \A k \in DOMAIN m.globals :
           new.globals[k] =
             IF Filled("global", k) = {} THEN m.globals[k]
             ELSE [m.globals[k] EXCEPT !.from = Ordinal(Max(Filled("global", k)))]
      /\ new.pages = IF Filled("memory", 1) = {} THEN m.pages
                     ELSE items[Max(Filled("memory", 1))].type
  <2> HIDE DEF items
  <2>1. Imported(new, items, n)
    BY <1>1, ImportsWritten
  <2> HIDE DEF new
  <2> QED BY <2>1 DEF Imported
<1>4. ASSUME NEW kind, NEW k, Filled(kind, k) # {}
      PROVE  /\ Max(Filled(kind, k)) \in 1 .. n /\ items[Max(Filled(kind, k))].kind = kind
             /\ Ordinal(Max(Filled(kind, k))) \in Nat \ {0}
  <2> DEFINE F == Filled(kind, k)
             i == Max(F)
             A == {j \in 1..i : items[j].kind = items[i].kind}
  <2>1. F \in SUBSET (0 .. n)
    BY <1>2 DEF FilledBy
  <2>2. i \in F
    <3> HIDE DEF F
    <3> QED BY <1>2, <1>4, <2>1, Greatest DEF F
  <2>3. i \in 1 .. n /\ items[i].kind = kind
    BY <2>2 DEF FilledBy
  <2> HIDE DEF i, Filled
  <2>4. A \in SUBSET (1 .. i) /\ i \in A /\ i \in Nat
    BY <1>2, <2>3
  <2> HIDE DEF A
  <2>5. IsFiniteSet(A) /\ Cardinality(A) \in Nat
    BY <2>4, CardinalityNat
  <2>6. Cardinality(A) # 0
    BY <2>4, <2>5, FS_EmptySet
  <2> QED BY <2>3, <2>5, <2>6 DEF i, A, OrdinalOf
<1>5. ASSUME NEW kind \in {"func", "global", "memory"}, NEW k \in 1 .. ImportCount(kind)
      PROVE  Filled(kind, k) # {}
  <2> DEFINE S == ImportsOf(pos, kind)
  <2>1. ImportCount(kind) = Cardinality(S)
    BY <1>1, SoleImports
  <2>2. S \in SUBSET (1 .. n)
    BY <1>2 DEF ImportsOf
  <2>3. PICK i \in S : Cardinality(S \cap (1 .. i - 1)) + 1 = k
    BY <1>2, <1>5, <2>1, <2>2, Ordinals
  <2>4. items[i].kind = kind /\ i \in 1 .. n /\ i \in DOMAIN items
    BY <2>2, <2>3 DEF ImportsOf
  <2>5. ImportSlot(i) = k
    BY <1>1, <1>5, <2>3, <2>4, SlotsNumbered
  <2> QED BY <2>4, <2>5 DEF FilledBy
<1> HIDE DEF Filled, Ordinal
<1>6. \A k : Filled("func", k) # {} =>
        /\ TypeAt(items[Max(Filled("func", k))].type) # Null
        /\ Ordinal(Max(Filled("func", k))) # 0
  <2> TAKE k
  <2>1. HAVE Filled("func", k) # {}
  <2> DEFINE i == Max(Filled("func", k))
  <2>2. i \in 1 .. n /\ items[i].kind = "func" /\ Ordinal(i) # 0
    BY <1>4, <2>1
  <2> HIDE DEF i
  <2>3. TypeKnown(items[i].type)
    BY <2>2 DEF ImportReadable
  <2>4. TypeAt(items[i].type) # Null
    BY <1>0, <2>3, TypeThere
  <2> QED BY <2>2, <2>4 DEF i
<1>7. \A k : Filled("global", k) # {} => Ordinal(Max(Filled("global", k))) # -1
  BY <1>4
<1>8. Filled("memory", 1) # {} => items[Max(Filled("memory", 1))].type \in Memories
  <2>1. HAVE Filled("memory", 1) # {}
  <2> DEFINE i == Max(Filled("memory", 1))
  <2>2. i \in 1 .. n /\ items[i].kind = "memory"
    BY <1>4, <2>1
  <2> HIDE DEF i
  <2>3. i \in ImportsOf(pos, "memory")
    BY <1>2, <2>2 DEF ImportsOf
  <2>4. items[i].type \in UNION {{file.sections[s].items[j].type : j \in ImportsOf(s, "memory")} :
                                   s \in SectionsOf("import")}
    BY <1>1, <2>3
  <2> QED BY <2>4 DEF Memories, i
<1> HIDE DEF new, changed
<1>9. SegmentsLaid(new) /\ new.imports = m.imports /\ new.counts = m.counts /\ new.tables = m.tables
  <2>1. {"data", "elements"} \cap changed = {}
    BY DEF changed
  <2>2. SegmentsLaid(new)
    BY <1>1, <1>3, <2>1, LaidOther
  <2> QED BY <1>1, <1>3, <2>2, ModuleFields DEF Agree, changed
<1>10. SizesLaid(new)
  <2>1. Counted(new.globals)
    BY <1>1, <1>3, SameCounted DEF Laid, SizesLaid
  <2> QED BY <1>1, <1>3, <1>9, <2>1 DEF Laid, SizesLaid
<1>11. ASSUME NEW k \in DOMAIN m.functions
       PROVE  /\ new.functions[k].room = m.functions[k].room
              /\ new.functions[k].params = m.functions[k].params
              /\ m.functions[k].type # Null => new.functions[k].type # Null
              /\ Filled("func", k) # {} => new.functions[k].from # 0
  <2> DEFINE i == Max(Filled("func", k))
             old == m.functions[k]
  <2>1. {"from", "type", "name", "params", "room"} \subseteq DOMAIN old
    BY <1>1, FunctionFields
  <2>2. CASE Filled("func", k) = {}
    BY <1>3, <2>2
  <2>3. CASE Filled("func", k) # {}
    <3>1. new.functions[k] = [old EXCEPT !.from = Ordinal(i), !.type = TypeAt(items[i].type),
                                         !.name = items[i].name]
      BY <1>3, <2>3
    <3>2. Ordinal(i) # 0 /\ TypeAt(items[i].type) # Null
      BY <1>6, <2>3
    <3> HIDE DEF i, old
    <3>3. /\ new.functions[k].room = old.room /\ new.functions[k].params = old.params
          /\ new.functions[k].type = TypeAt(items[i].type) /\ new.functions[k].from = Ordinal(i)
      BY <2>1, <3>1
    <3> QED BY <3>2, <3>3 DEF old
  <2> QED BY <2>2, <2>3
<1>12. ASSUME NEW k \in DOMAIN m.globals
       PROVE  /\ DOMAIN new.globals[k] = DOMAIN NoGlobal
              /\ new.globals[k].target = m.globals[k].target
              /\ m.globals[k].from # -1 => new.globals[k].from # -1
              /\ Filled("global", k) # {} => new.globals[k].from # -1
  <2>1. DOMAIN m.globals[k] = DOMAIN NoGlobal
    BY <1>1 DEF Laid, GlobalsLaid
  <2>2. DOMAIN NoGlobal = {"from", "target"}
    BY DEF NoGlobal
  <2>3. CASE Filled("global", k) = {}
    BY <1>3, <2>1, <2>3
  <2>4. CASE Filled("global", k) # {}
    <3> DEFINE i == Max(Filled("global", k))
               old == m.globals[k]
    <3>1. new.globals[k] = [old EXCEPT !.from = Ordinal(i)] /\ Ordinal(i) # -1
      BY <1>3, <1>7, <2>4
    <3> HIDE DEF i, old
    <3>2. /\ DOMAIN new.globals[k] = DOMAIN old /\ new.globals[k].target = old.target
          /\ new.globals[k].from = Ordinal(i)
      BY <2>1, <2>2, <3>1 DEF old
    <3> QED BY <2>1, <3>1, <3>2 DEF old
  <2> QED BY <2>3, <2>4
<1>13. ImportsLaid(new, pos + 1)
  <2>1. \A k \in 1 .. ImportCount("func") : k \in DOMAIN m.functions
    BY <1>1 DEF Laid, SizesLaid, Slots
  <2>2. \A k \in 1 .. ImportCount("global") : k \in DOMAIN m.globals
    BY <1>1 DEF Laid, SizesLaid, Slots
  <2> QED BY <1>5, <1>11, <1>12, <2>1, <2>2 DEF ImportsLaid
<1>14. /\ Past("func", pos + 1) => Past("func", pos)
       /\ Past("global", pos + 1) => Past("global", pos)
       /\ Past("memory", pos + 1) => Past("memory", pos)
  BY <1>1, PastKept
<1>15. FunctionsLaid(new, pos + 1)
  <2> SUFFICES ASSUME Past("func", pos), NEW k \in 1 .. SectionCount("func")
               PROVE  new.functions[ImportCount("func") + k].type # Null
    BY <1>14 DEF FunctionsLaid
  <2>1. ImportCount("func") + k \in DOMAIN m.functions
    BY <1>1 DEF Laid, SizesLaid, Slots
  <2>2. m.functions[ImportCount("func") + k].type # Null
    BY <1>1 DEF Laid, FunctionsLaid
  <2> QED BY <1>11, <2>1, <2>2
<1>16. GlobalsLaid(new, pos + 1)
  <2>1. ASSUME Past("global", pos), NEW k \in 1 .. SectionCount("global")
        PROVE  new.globals[ImportCount("global") + k].from # -1
    <3>1. ImportCount("global") + k \in DOMAIN m.globals
      BY <1>1, <2>1 DEF Laid, SizesLaid, Slots
    <3>2. m.globals[ImportCount("global") + k].from # -1
      BY <1>1, <2>1 DEF Laid, GlobalsLaid
    <3> QED BY <1>12, <3>1, <3>2
  <2>2. \A g \in DOMAIN new.globals : /\ DOMAIN new.globals[g] = DOMAIN NoGlobal
                                      /\ new.globals[g].target \in 0 .. ImportCount("global")
    BY <1>1, <1>3, <1>12 DEF Laid, GlobalsLaid
  <2> QED BY <1>14, <2>1, <2>2 DEF GlobalsLaid
<1>17. BodiesLaid(new, pos + 1)
  <2>1. (\E c \in SectionsOf("code") : c < pos) => \E c \in SectionsOf("code") : c < pos + 1
    BY <1>1, SectionNumbers
  <2> QED BY <1>1, <1>3, <1>11, <2>1 DEF Laid, BodiesLaid
<1>18. MemoryLaid(new, pos + 1)
  <2>1. ImportCount("memory") > 0 => Filled("memory", 1) # {}
    BY <1>1, <1>5
  <2>2. m.pages \in Memories => new.pages \in Memories
    BY <1>3, <1>8
  <2>3. new.pages \in {0} \cup Memories
    BY <1>1, <1>3, <1>8 DEF Laid, MemoryLaid
  <2>4. ImportCount("memory") > 0 => new.pages \in Memories
    BY <1>3, <1>8, <2>1
  <2> QED BY <1>1, <1>14, <2>2, <2>3, <2>4 DEF Laid, MemoryLaid
<1>19. Laid(new, pos + 1)
  BY <1>9, <1>10, <1>13, <1>15, <1>16, <1>17, <1>18 DEF Laid
<1> QED BY <1>19 DEF new

(* The file stays: what is said of it alone stays.                         *)
LEMMA FileKept ==
  ASSUME file' = file
  PROVE  /\ Regular' <=> Regular
         /\ \A id : SectionsOf(id)' = SectionsOf(id) /\ SectionCount(id)' = SectionCount(id)
         /\ \A kind : ImportCount(kind)' = ImportCount(kind) /\ Slots(kind)' = Slots(kind)
         /\ Memories' = Memories
<1>1. \A id : SectionsOf(id)' = SectionsOf(id)
  BY DEF SectionsOf
<1>2. \A id : SectionCount(id)' = SectionCount(id)
  BY <1>1 DEF SectionCount
<1>3. \A s, kind : ImportsOf(s, kind)' = ImportsOf(s, kind)
  BY DEF ImportsOf
<1>4. \A kind : ImportCount(kind)' = ImportCount(kind)
  BY <1>1, <1>3 DEF ImportCount
<1>5. \A kind : Slots(kind)' = Slots(kind)
  BY <1>2, <1>4 DEF Slots
<1>6. Memories' = Memories
  BY <1>1, <1>3 DEF Memories
<1>7. Regular' <=> Regular
  BY <1>1, <1>4, <1>5, <1>6 DEF Regular
<1> QED BY <1>1, <1>2, <1>4, <1>5, <1>6, <1>7

(* What is laid out in the next state.                                     *)
LEMMA LaidPrimed ==
  ASSUME file' = file, Laid(m', pos')
  PROVE  Laid(m, pos)'
<1>1. /\ \A id : SectionsOf(id)' = SectionsOf(id) /\ SectionCount(id)' = SectionCount(id)
      /\ \A kind : ImportCount(kind)' = ImportCount(kind) /\ Slots(kind)' = Slots(kind)
      /\ Memories' = Memories
  BY FileKept
<1>2. \A id : Past(id, pos)' <=> Past(id, pos')
  BY <1>1 DEF Past
<1>3. SizesLaid(m)'
  BY <1>1 DEF Laid, SizesLaid
<1>4. ImportsLaid(m, pos)'
  BY <1>1, <1>2 DEF Laid, ImportsLaid
<1>5. FunctionsLaid(m, pos)'
  BY <1>1, <1>2 DEF Laid, FunctionsLaid
<1>6. GlobalsLaid(m, pos)'
  BY <1>1, <1>2 DEF Laid, GlobalsLaid
<1>7. BodiesLaid(m, pos)'
  BY <1>1 DEF Laid, BodiesLaid
<1>8. MemoryLaid(m, pos)'
  BY <1>1, <1>2 DEF Laid, MemoryLaid
<1>9. SegmentsLaid(m)'
  BY <1>1 DEF Laid, SegmentsLaid
<1> QED BY <1>3, <1>4, <1>5, <1>6, <1>7, <1>8, <1>9 DEF Laid

----------------------------------------------------------------------------
(* The sections of a regular file                                          *)

(* What every end of a loader keeps.                                       *)
LEMMA SizedKept ==
  ASSUME Possession, Judgement, Regularity, LoadSection
  PROVE  /\ Sized' /\ pc = "sections" /\ Same(m') /\ fault = "none"
         /\ file' = file
<1>1. pc = "sections" /\ Passed
  BY LoadSectionPassed
<1>2. DOMAIN m.functions = 1 .. Base + Bodies /\ Base \in Nat /\ Bodies \in Nat
  BY <1>1 DEF Judgement, Regularity, Sized
<1>3. Base' = Base /\ Bodies' = Bodies /\ DOMAIN m'.functions = DOMAIN m.functions
  BY <1>1 DEF Passed, Same, Base, Bodies
<1>4. file' = file
  BY DEF LoadSection, LoadTypeSection, LoadImportSection, LoadFunctionSection, LoadTableSection,
    LoadMemorySection, LoadGlobalSection, LoadExportSection, LoadStartSection, LoadElementSection,
    LoadDataSection, LoadCodeSection, SkipSection, LoaderDone, Goto, Rejected, Exhausted, Loaded,
    Undefined, Untouched
<1>5. fault = "none"
  BY <1>1 DEF Regularity
<1> QED BY <1>1, <1>2, <1>3, <1>4, <1>5 DEF Sized, Passed, Preparing

(* A section is loaded.                                                    *)
LEMMA LoadedRegular ==
  ASSUME Possession, Judgement, Regularity, LoadSection, NEW new, NEW blocks,
         Loaded(new, blocks), Regular => Laid(new, pos + 1)
  PROVE  Regularity'
<1>1. /\ Sized' /\ pc = "sections" /\ Same(m') /\ fault = "none" /\ file' = file /\ pos \in Nat \ {0}
  BY SizedKept DEF Regularity
<1>2. \/ pc' = "fail" /\ pos' = pos
      \/ pc' = "sections" /\ pos' = pos + 1 /\ m' = new
  BY <1>1 DEF Loaded, Rejected, Untouched
<1>3. fault' = "none"
  BY <1>1 DEF Loaded, Rejected
<1>4. pos' \in Nat \ {0}
  BY <1>1, <1>2
<1>5. pc' = "sections" /\ Regular' => Laid(m, pos)'
  BY <1>1, <1>2, FileKept, LaidPrimed
<1>6. m'.counts["memory"] = SectionCount("memory")'
  BY <1>1, FileKept DEF Regularity, Preparing, Same
<1>7. RegularDefined'
  BY <1>3 DEF RegularDefined
<1> QED BY <1>1, <1>2, <1>3, <1>4, <1>5, <1>6, <1>7 DEF Regularity, Preparing, Early

(* A section is rejected, or finds no memory.                              *)
LEMMA FailedRegular ==
  ASSUME Possession, Judgement, Regularity, LoadSection, NEW new, NEW blocks,
         Rejected(new, blocks) \/ Exhausted(new, blocks)
  PROVE  Regularity'
<1>1. Sized' /\ fault = "none" /\ pos \in Nat \ {0}
  BY SizedKept DEF Regularity
<1>2. pc' = "fail" /\ fault' = "none" /\ pos' = pos
  BY <1>1 DEF Rejected, Exhausted, Goto
<1>3. RegularDefined'
  BY <1>2 DEF RegularDefined
<1> QED BY <1>1, <1>2, <1>3 DEF Regularity, Preparing, Early

(* A section writes where it must not: the file is not regular.            *)
LEMMA UndefinedRegular ==
  ASSUME Possession, Judgement, Regularity, LoadSection, NEW what, Undefined(what), ~Regular
  PROVE  Regularity'
<1>1. Sized' /\ file' = file /\ pos \in Nat \ {0}
  BY SizedKept DEF Regularity
<1>2. pc' = "undefined" /\ pos' = pos
  BY DEF Undefined
<1>3. ~Regular'
  BY <1>1, FileKept
<1>4. RegularDefined'
  BY <1>3 DEF RegularDefined
<1> QED BY <1>1, <1>2, <1>4 DEF Regularity, Preparing, Early

(* Some items up to the last that is like all before it.                   *)
LEMMA LongestPrefix ==
  ASSUME NEW n \in Nat, NEW S \in SUBSET (1 .. n)
  PROVE  Max({0} \cup S) \in {0} \cup S /\ Max({0} \cup S) \in 0 .. n
<1>1. {0} \cup S \in SUBSET (0 .. n) /\ {0} \cup S # {}
  OBVIOUS
<1> QED BY <1>1, Greatest

(* The imports of a regular file fill their slots.                         *)
LEMMA ImportsRegular ==
  ASSUME Possession, Judgement, Regularity, LoadImportSection
  PROVE  Regularity'
<1> DEFINE items == file.sections[pos].items
           S == {n \in DOMAIN items : \A i \in 1..n : ImportReadable(items[i])}
           n == Max({0} \cup S)
<1>1. Section("import") /\ LoadSection
  BY DEF LoadImportSection, LoadSection
<1>2. Counted(items)
  BY <1>1, InSection
<1>3. \/ Rejected(m, {})
      \/ /\ \E i \in 1..n : ImportSlot(i) > ImportSlots(items[i].kind)
         /\ Undefined("import slots")
      \/ Rejected(WithImports(items, n), {})
      \/ ~(n < Len(items)) /\ Loaded(WithImports(items, n), {})
  BY DEF LoadImportSection
<1>4. n \in 0 .. Len(items) /\ \A i \in 1 .. n : i \in DOMAIN items /\ ImportReadable(items[i])
  <2>1. Len(items) \in Nat /\ S \in SUBSET (1 .. Len(items)) /\ DOMAIN items = 1 .. Len(items)
    BY <1>2 DEF Counted
  <2>2. n \in {0} \cup S /\ n \in 0 .. Len(items)
    <3> HIDE DEF S
    <3> QED BY <2>1, LongestPrefix
  <2>3. n \in S => \A i \in 1 .. n : ImportReadable(items[i])
    OBVIOUS
  <2> HIDE DEF n, S
  <2> QED BY <2>1, <2>2, <2>3
<1> HIDE DEF n
<1>5. CASE Rejected(m, {}) \/ Rejected(WithImports(items, n), {})
  BY <1>1, <1>5, FailedRegular
<1>6. CASE (\E i \in 1..n : ImportSlot(i) > ImportSlots(items[i].kind)) /\ Undefined("import slots")
  <2>1. PICK i \in 1 .. n : ImportSlot(i) > ImportSlots(items[i].kind)
    BY <1>6
  <2>2. i \in DOMAIN items /\ ImportReadable(items[i])
    BY <1>4
  <2>3. ~Regular
    BY <1>1, <2>1, <2>2, ImportsFit
  <2> QED BY <1>1, <1>6, <2>3, UndefinedRegular
<1>7. CASE ~(n < Len(items)) /\ Loaded(WithImports(items, n), {})
  <2>1. n = Len(items)
    BY <1>2, <1>4, <1>7 DEF Counted
  <2>2. Regular => Laid(WithImports(items, n), pos + 1)
    BY <1>1, <1>4, <2>1, ImportsLaidOut
  <2> QED BY <1>1, <1>7, <2>2, LoadedRegular
<1> QED BY <1>3, <1>5, <1>6, <1>7

(* A regular file's functions get the types of their bodies.               *)
LEMMA FunctionsRegular ==
  ASSUME Possession, Judgement, Regularity, LoadFunctionSection
  PROVE  Regularity'
<1> DEFINE items == file.sections[pos].items
           base == m.imports["func"]
           S == {n \in DOMAIN items : \A i \in 1..n : TypeKnown(items[i])}
           known == Max({0} \cup S)
           touched == IF known < Len(items) THEN known + 1 ELSE known
           new == [m EXCEPT !.functions = [k \in DOMAIN @ |->
                    IF k - base \in 1..known
                    THEN [@[k] EXCEPT !.type = TypeAt(items[k - base]),
                                      !.params = Len(TypeOf(TypeAt(items[k - base])).param)]
                    ELSE @[k]]]
<1>1. Section("func") /\ LoadSection
  BY DEF LoadFunctionSection, LoadSection
<1>2. /\ Counted(items) /\ DOMAIN m = DOMAIN NewModule
  BY <1>1, InSection
<1>3. \/ Rejected(m, {})
      \/ base + touched > Len(m.functions) /\ Undefined("function slots")
      \/ Rejected(new, {})
      \/ ~(known < Len(items)) /\ Loaded(new, {})
  BY DEF LoadFunctionSection
<1>4. known \in 0 .. Len(items) /\ \A i \in 1 .. known : i \in DOMAIN items /\ TypeKnown(items[i])
  <2>1. Len(items) \in Nat /\ S \in SUBSET (1 .. Len(items)) /\ DOMAIN items = 1 .. Len(items)
    BY <1>2 DEF Counted
  <2>2. known \in {0} \cup S /\ known \in 0 .. Len(items)
    <3> HIDE DEF S
    <3> QED BY <2>1, LongestPrefix
  <2>3. known \in S => \A i \in 1 .. known : TypeKnown(items[i])
    OBVIOUS
  <2> HIDE DEF known, S
  <2> QED BY <2>1, <2>2, <2>3
<1> HIDE DEF known
<1>5. /\ Agree(new, m, {"functions"}) /\ DOMAIN new.functions = DOMAIN m.functions
      /\ \A k \in DOMAIN m.functions :
           new.functions[k] =
             IF k - base \in 1..known
             THEN [m.functions[k] EXCEPT !.type = TypeAt(items[k - base]),
                                         !.params = Len(TypeOf(TypeAt(items[k - base])).param)]
             ELSE m.functions[k]
  <2> HIDE DEF items
  <2> QED BY <1>2, ModuleFields DEF Agree
<1> HIDE DEF new
<1>6. ASSUME Regular
      PROVE  /\ Laid(m, pos) /\ pos \in Nat /\ file \in Files /\ SectionsOf("func") = {pos}
             /\ ImportCount("func") \in Nat /\ SectionCount("func") = Len(items)
             /\ Len(m.functions) = ImportCount("func") + Len(items)
             /\ base = ImportCount("func") /\ Len(items) \in Nat
             /\ \A k \in DOMAIN m.functions : DOMAIN m.functions[k] = DOMAIN NoFunction
  <2>1. /\ Laid(m, pos) /\ pos \in Nat /\ file \in Files /\ pos \in SectionsOf("func")
        /\ ImportCount("func") \in Nat /\ Len(m.functions) = Slots("func")
        /\ \A k \in DOMAIN m.functions : DOMAIN m.functions[k] = DOMAIN NoFunction
    BY <1>1, <1>6, InRegular
  <2>2. SectionsOf("func") = {pos} /\ SectionCount("func") = Len(items)
    BY <1>6, <2>1, SoleSection DEF SectionIds, ImportKinds
  <2>3. Len(items) \in Nat
    BY <1>2 DEF Counted
  <2> QED BY <2>1, <2>2, <2>3 DEF Slots, Laid, SizesLaid
<1>7. CASE Rejected(m, {}) \/ Rejected(new, {})
  BY <1>1, <1>7, FailedRegular
<1>8. CASE base + touched > Len(m.functions) /\ Undefined("function slots")
  <2>1. ~Regular
    <3> SUFFICES ASSUME Regular PROVE FALSE
      OBVIOUS
    <3>1. touched \in 0 .. Len(items)
      <4>1. Len(items) \in Nat
        BY <1>2 DEF Counted
      <4> HIDE DEF items
      <4> QED BY <1>4, <4>1
    <3>2. /\ base \in Nat /\ Len(items) \in Nat
          /\ Len(m.functions) = base + Len(items)
      BY <1>6
    <3>3. base + touched > Len(m.functions)
      BY <1>8
    <3> HIDE DEF touched, base, items
    <3> QED BY <3>1, <3>2, <3>3
  <2> QED BY <1>1, <1>8, <2>1, UndefinedRegular
<1>9. CASE ~(known < Len(items)) /\ Loaded(new, {})
  <2>1. ASSUME Regular PROVE Laid(new, pos + 1)
    <3>1. known = Len(items)
      BY <1>2, <1>4, <1>9 DEF Counted
    <3>2. {"globals", "pages", "data", "elements", "imports", "counts", "tables"} \cap {"functions"} = {}
      OBVIOUS
    <3>3. SegmentsLaid(new) /\ MemoryLaid(new, pos + 1) /\ GlobalsLaid(new, pos + 1)
      <4>1. /\ {"pages"} \cap {"functions"} = {} /\ {"data", "elements"} \cap {"functions"} = {}
            /\ {"globals"} \cap {"functions"} = {} /\ "func" \notin {"import", "memory"} /\ "func" # "global"
        OBVIOUS
      <4> QED BY <1>1, <1>2, <1>5, <1>6, <2>1, <4>1, LaidOther
    <3>4. /\ new.imports = m.imports /\ new.counts = m.counts /\ new.tables = m.tables
          /\ new.globals = m.globals
      BY <1>2, <1>5, ModuleFields DEF Agree
    <3>5. SizesLaid(new)
      BY <1>5, <1>6, <2>1, <3>4 DEF Laid, SizesLaid
    <3>6. ASSUME NEW k \in DOMAIN m.functions
          PROVE  /\ new.functions[k].from = m.functions[k].from
                 /\ new.functions[k].room = m.functions[k].room
                 /\ k - base \in 1 .. known => new.functions[k].type = TypeAt(items[k - base])
      <4> HIDE DEF items
      <4> QED BY <1>5, <1>6, <2>1, FunctionFields
    <3>7. ImportsLaid(new, pos + 1)
      <4>1. Past("import", pos + 1) => Past("import", pos)
        BY <1>1, <1>6, <2>1, PastKept
      <4>2. \A k \in 1 .. ImportCount("func") : k \in DOMAIN m.functions
        BY <1>6, <2>1 DEF Laid, SizesLaid, Slots
      <4> QED BY <1>6, <2>1, <3>4, <3>6, <4>1, <4>2 DEF Laid, ImportsLaid
    <3>8. FunctionsLaid(new, pos + 1)
      <4> SUFFICES ASSUME NEW k \in 1 .. SectionCount("func")
                   PROVE  new.functions[ImportCount("func") + k].type # Null
        BY DEF FunctionsLaid
      <4>1. k \in 1 .. known
        BY <1>6, <2>1, <3>1
      <4>2. /\ ImportCount("func") + k \in DOMAIN m.functions
            /\ (ImportCount("func") + k) - base = k
        BY <1>6, <2>1 DEF Laid, SizesLaid, Slots
      <4>3. new.functions[ImportCount("func") + k].type = TypeAt(items[k])
        <5> DEFINE j == ImportCount("func") + k
        <5>1. j \in DOMAIN m.functions /\ j - base = k
          BY <4>2
        <5> HIDE DEF j, items
        <5>2. new.functions[j].type = TypeAt(items[j - base])
          BY <3>6, <4>1, <5>1
        <5> QED BY <5>1, <5>2 DEF j
      <4>4. TypeKnown(items[k])
        BY <1>4, <4>1
      <4>5. pc = "sections"
        BY <1>1 DEF Section
      <4>6. TypeAt(items[k]) # Null
        BY <4>4, <4>5, TypeThere
      <4> QED BY <4>3, <4>6
    <3>9. BodiesLaid(new, pos + 1)
      <4>1. \A c \in SectionsOf("code") : ~(c < pos)
        <5> SUFFICES ASSUME NEW c \in SectionsOf("code") PROVE ~(c < pos)
          OBVIOUS
        <5>1. pos < c /\ c \in Nat
          BY <1>6, <2>1, CodeAfter, SectionNumbers
        <5> QED BY <1>6, <2>1, <5>1
      <4>2. \A k \in DOMAIN m.functions : m.functions[k].room = -1
        BY <1>6, <2>1, <4>1 DEF Laid, BodiesLaid
      <4> QED BY <1>5, <3>6, <4>2 DEF BodiesLaid
    <3> QED BY <3>3, <3>5, <3>7, <3>8, <3>9 DEF Laid
  <2> QED BY <1>1, <1>9, <2>1, LoadedRegular
<1> QED BY <1>3, <1>7, <1>8, <1>9

(* The bodies of a regular file have room for their parameters.            *)
LEMMA CodeRegular ==
  ASSUME Possession, Judgement, Regularity, LoadCodeSection
  PROVE  Regularity'
<1> DEFINE items == file.sections[pos].items
           base == m.imports["func"]
           Types(i) == IF items[i].locals > 0 THEN <<"locals", pos, i>> ELSE Null
           Offsets(i) == IF items[i].locals + m.functions[base + i].params > 0
                         THEN <<"offsets", pos, i>> ELSE Null
           Mod(n) == [m EXCEPT !.functions = [k \in DOMAIN @ |->
                       IF k - base \in 1..n
                       THEN [@[k] EXCEPT !.types = Types(k - base),
                                         !.offsets = Offsets(k - base),
                                         !.room = m.functions[k].params,
                                         !.verdict = items[k - base].verdict,
                                         !.branches = items[k - base].branches]
                       ELSE @[k]]]
           new == Mod(Len(items))
<1>1. Section("code") /\ LoadSection
  BY DEF LoadCodeSection, LoadSection
<1>2. DOMAIN m = DOMAIN NewModule
  BY <1>1, InSection
<1>3. \/ \E mod, blocks : Rejected(mod, blocks)
      \/ \E blocks : Loaded(new, blocks)
  BY DEF LoadCodeSection
<1>4. /\ Agree(new, m, {"functions"}) /\ DOMAIN new.functions = DOMAIN m.functions
      /\ \A k \in DOMAIN m.functions :
           \/ new.functions[k] = m.functions[k]
           \/ \E types, offsets, verdict, branches :
                new.functions[k] =
                  [m.functions[k] EXCEPT !.types = types, !.offsets = offsets,
                                         !.room = m.functions[k].params, !.verdict = verdict,
                                         !.branches = branches]
  <2> HIDE DEF Types, Offsets, items
  <2> QED BY <1>2, ModuleFields DEF Agree
<1> HIDE DEF new
<1>5. CASE \E mod, blocks : Rejected(mod, blocks)
  BY <1>1, <1>5, FailedRegular
<1>6. CASE \E blocks : Loaded(new, blocks)
  <2>1. ASSUME Regular PROVE Laid(new, pos + 1)
    <3>1. /\ Laid(m, pos) /\ pos \in Nat /\ file \in Files /\ pos \in SectionsOf("code")
          /\ \A kind : ImportCount(kind) \in Nat /\ SectionCount(kind) \in Nat
          /\ \A k \in DOMAIN m.functions : DOMAIN m.functions[k] = DOMAIN NoFunction
      BY <1>1, <2>1, InRegular
    <3>2. SegmentsLaid(new) /\ MemoryLaid(new, pos + 1) /\ GlobalsLaid(new, pos + 1)
      <4>1. /\ {"pages"} \cap {"functions"} = {} /\ {"data", "elements"} \cap {"functions"} = {}
            /\ {"globals"} \cap {"functions"} = {} /\ "code" \notin {"import", "memory"} /\ "code" # "global"
        OBVIOUS
      <4> QED BY <1>1, <1>2, <1>4, <3>1, <4>1, LaidOther
    <3>3. /\ new.imports = m.imports /\ new.counts = m.counts /\ new.tables = m.tables
          /\ new.globals = m.globals
      BY <1>2, <1>4, ModuleFields DEF Agree
    <3>4. SizesLaid(new)
      BY <1>4, <3>1, <3>3 DEF Laid, SizesLaid
    <3>5. ASSUME NEW k \in DOMAIN m.functions
          PROVE  /\ new.functions[k].from = m.functions[k].from
                 /\ new.functions[k].type = m.functions[k].type
                 /\ new.functions[k].params = m.functions[k].params
                 /\ new.functions[k].room \in {m.functions[k].room, m.functions[k].params}
      <4> HIDE DEF items
      <4> QED BY <1>4, <3>1, FunctionFields
    <3>6. /\ Past("import", pos + 1) => Past("import", pos)
          /\ Past("func", pos + 1) => Past("func", pos)
      BY <1>1, <3>1, PastKept
    <3>7. \A k \in 1 .. ImportCount("func") : k \in DOMAIN m.functions
      BY <3>1 DEF Laid, SizesLaid, Slots
    <3>8. \A k \in 1 .. SectionCount("func") : ImportCount("func") + k \in DOMAIN m.functions
      BY <3>1 DEF Laid, SizesLaid, Slots
    <3>9. ImportsLaid(new, pos + 1)
      BY <3>1, <3>3, <3>5, <3>6, <3>7 DEF Laid, ImportsLaid
    <3>10. FunctionsLaid(new, pos + 1)
      BY <3>1, <3>5, <3>6, <3>8 DEF Laid, FunctionsLaid
    <3>11. BodiesLaid(new, pos + 1)
      <4>1. \E c \in SectionsOf("code") : c < pos + 1
        BY <3>1
      <4> QED BY <1>4, <3>1, <3>5, <4>1 DEF Laid, BodiesLaid
    <3> QED BY <3>2, <3>4, <3>9, <3>10, <3>11 DEF Laid
  <2> QED BY <1>1, <1>6, <2>1, LoadedRegular
<1> QED BY <1>3, <1>5, <1>6

(* The memory of a regular file has a slot and a size.                     *)
LEMMA MemoryRegular ==
  ASSUME Possession, Judgement, Regularity, LoadMemorySection
  PROVE  Regularity'
<1> DEFINE items == file.sections[pos].items
           new == IF items = <<>> THEN m ELSE [m EXCEPT !.pages = Last(items)]
<1>1. Section("memory") /\ LoadSection
  BY DEF LoadMemorySection, LoadSection
<1>2. DOMAIN m = DOMAIN NewModule /\ Counted(items) /\ file \in Files
  BY <1>1, InSection
<1>3. \/ Rejected(m, {})
      \/ /\ items # <<>> /\ m.imports["memory"] + Len(items) > 1
         /\ Undefined("memory slots")
      \/ Loaded(new, {})
  BY DEF LoadMemorySection
<1>4. Agree(new, m, {"pages"})
  BY <1>2 DEF Agree
<1>5. new.pages = IF items = <<>> THEN m.pages ELSE Last(items)
  BY <1>2, ModuleFields
<1> HIDE DEF new
<1>6. ASSUME Regular
      PROVE  /\ Laid(m, pos) /\ pos \in Nat /\ pos \in SectionsOf("memory")
             /\ SectionCount("memory") = Len(items) /\ ImportCount("memory") \in Nat
             /\ m.imports["memory"] = ImportCount("memory") /\ Len(items) \in Nat
             /\ ImportCount("memory") + Len(items) <= 1
  <2>1. /\ Laid(m, pos) /\ pos \in Nat /\ pos \in SectionsOf("memory")
        /\ ImportCount("memory") \in Nat
    BY <1>1, <1>6, InRegular
  <2>2. SectionCount("memory") = Len(items)
    BY <1>2, <1>6, <2>1, SoleSection DEF SectionIds, ImportKinds
  <2> QED BY <1>2, <1>6, <2>1, <2>2 DEF Laid, SizesLaid, Slots, Regular, Counted
<1>7. CASE Rejected(m, {})
  BY <1>1, <1>7, FailedRegular
<1>8. CASE /\ items # <<>> /\ m.imports["memory"] + Len(items) > 1
           /\ Undefined("memory slots")
  <2>1. ~Regular
    <3> SUFFICES ASSUME Regular PROVE FALSE
      OBVIOUS
    <3>1. /\ m.imports["memory"] = ImportCount("memory") /\ ImportCount("memory") \in Nat
          /\ Len(items) \in Nat /\ ImportCount("memory") + Len(items) <= 1
      BY <1>6
    <3>2. m.imports["memory"] + Len(items) > 1
      BY <1>8
    <3> HIDE DEF items
    <3> QED BY <3>1, <3>2
  <2> QED BY <1>1, <1>8, <2>1, UndefinedRegular
<1>9. CASE Loaded(new, {})
  <2>1. ASSUME Regular PROVE Laid(new, pos + 1)
    <3> DEFINE changed == {"pages"}
    <3>1. /\ {"imports", "counts", "tables", "functions", "globals"} \cap changed = {}
          /\ {"functions", "globals"} \cap changed = {} /\ {"functions"} \cap changed = {}
          /\ {"globals"} \cap changed = {} /\ {"data", "elements"} \cap changed = {}
          /\ "memory" \notin {"import", "func", "global"} /\ Agree(new, m, changed)
      BY <1>4
    <3> HIDE DEF changed
    <3>2. /\ SizesLaid(new) /\ ImportsLaid(new, pos + 1) /\ FunctionsLaid(new, pos + 1)
          /\ GlobalsLaid(new, pos + 1) /\ BodiesLaid(new, pos + 1) /\ SegmentsLaid(new)
      BY <1>1, <1>2, <1>6, <2>1, <3>1, LaidOther
    <3>3. CASE items = <<>>
      <4>1. Len(items) = 0
        BY <3>3
      <4>2. SectionCount("memory") = 0 /\ new.pages = m.pages
        BY <1>5, <1>6, <2>1, <3>3, <4>1
      <4>3. Past("import", pos + 1) => Past("import", pos)
        BY <1>1, <1>2, <1>6, <2>1, PastKept
      <4>4. MemoryLaid(m, pos)
        BY <1>6, <2>1 DEF Laid
      <4>5. MemoryLaid(new, pos + 1)
        BY <4>2, <4>3, <4>4 DEF MemoryLaid
      <4> QED BY <3>2, <4>5 DEF Laid
    <3>4. CASE items # <<>>
      <4>1. items \in Seq(ToSet(items))
        <5>1. pos \in DOMAIN file.sections
          BY <1>1 DEF Section
        <5> QED BY <1>2, <5>1, LoaderAssumption DEF IsSequence
      <4>2. Last(items) \in ToSet(items)
        BY <3>4, <4>1 DEF Last
      <4>3. ToSet(items) \subseteq Memories
        <5> DEFINE sizes == {ToSet(file.sections[s].items) : s \in SectionsOf("memory")}
        <5>1. ToSet(items) \in sizes
          BY <1>6, <2>1
        <5> DEFINE others == UNION {{file.sections[s].items[i].type : i \in ImportsOf(s, "memory")} :
                                      s \in SectionsOf("import")}
        <5>2. Memories = others \cup UNION sizes
          BY DEF Memories
        <5> HIDE DEF sizes, others
        <5> QED BY <5>1, <5>2
      <4>4. new.pages \in Memories
        BY <1>5, <3>4, <4>2, <4>3
      <4>5. MemoryLaid(new, pos + 1)
        BY <4>4 DEF MemoryLaid
      <4> QED BY <3>2, <4>5 DEF Laid
    <3> QED BY <3>3, <3>4
  <2> QED BY <1>1, <1>9, <2>1, LoadedRegular
<1> QED BY <1>3, <1>7, <1>8, <1>9

(* The globals of a regular file have their slots behind the imports.      *)
LEMMA GlobalsRegular ==
  ASSUME Possession, Judgement, Regularity, LoadGlobalSection
  PROVE  Regularity'
<1> DEFINE items == file.sections[pos].items
           base == m.imports["global"]
           S == {n \in DOMAIN items : \A i \in 1..n : items[i] <= base}
           good == Max({0} \cup S)
           new == [m EXCEPT !.globals = [k \in DOMAIN @ |->
                    IF k - base \in 1..good THEN [from |-> 0, target |-> items[k - base]]
                    ELSE @[k]]]
<1>1. Section("global") /\ LoadSection
  BY DEF LoadGlobalSection, LoadSection
<1>2. Counted(items) /\ DOMAIN m = DOMAIN NewModule /\ file \in Files
  BY <1>1, InSection
<1>3. \/ Rejected(m, {})
      \/ base + Len(items) > Len(m.globals) /\ Undefined("global slots")
      \/ Rejected(new, {})
      \/ ~(good < Len(items)) /\ Loaded(new, {})
  BY DEF LoadGlobalSection
<1>4. good \in 0 .. Len(items) /\ \A i \in 1 .. good : i \in DOMAIN items /\ items[i] <= base
  <2>1. Len(items) \in Nat /\ S \in SUBSET (1 .. Len(items)) /\ DOMAIN items = 1 .. Len(items)
    BY <1>2 DEF Counted
  <2>2. good \in {0} \cup S /\ good \in 0 .. Len(items)
    <3> HIDE DEF S
    <3> QED BY <2>1, LongestPrefix
  <2>3. good \in S => \A i \in 1 .. good : items[i] <= base
    OBVIOUS
  <2> HIDE DEF good, S
  <2> QED BY <2>1, <2>2, <2>3
<1> HIDE DEF good
<1>5. /\ Agree(new, m, {"globals"}) /\ DOMAIN new.globals = DOMAIN m.globals
      /\ \A k \in DOMAIN m.globals :
           new.globals[k] =
             IF k - base \in 1..good THEN [from |-> 0, target |-> items[k - base]]
             ELSE m.globals[k]
  <2> HIDE DEF items
  <2> QED BY <1>2, ModuleFields DEF Agree
<1> HIDE DEF new
<1>6. \A i \in DOMAIN items : items[i] \in Nat
  <2>1. pos \in DOMAIN file.sections /\ file.sections[pos].id = "global"
    BY <1>1 DEF Section
  <2>2. ToSet(items) \subseteq Nat
    BY <1>2, <2>1, LoaderAssumption
  <2> QED BY <2>2 DEF ToSet
<1>7. ASSUME Regular
      PROVE  /\ Laid(m, pos) /\ pos \in Nat /\ file \in Files
             /\ ImportCount("global") \in Nat /\ SectionCount("global") = Len(items)
             /\ Len(m.globals) = base + Len(items)
             /\ base = ImportCount("global") /\ Len(items) \in Nat
  <2>1. /\ Laid(m, pos) /\ pos \in Nat /\ file \in Files /\ pos \in SectionsOf("global")
        /\ ImportCount("global") \in Nat /\ Len(m.globals) = Slots("global")
    BY <1>1, <1>7, InRegular
  <2>2. SectionCount("global") = Len(items)
    BY <1>7, <2>1, SoleSection DEF SectionIds, ImportKinds
  <2>3. Len(items) \in Nat
    BY <1>2 DEF Counted
  <2> QED BY <2>1, <2>2, <2>3 DEF Slots, Laid, SizesLaid
<1>8. CASE Rejected(m, {}) \/ Rejected(new, {})
  BY <1>1, <1>8, FailedRegular
<1>9. CASE base + Len(items) > Len(m.globals) /\ Undefined("global slots")
  <2>1. ~Regular
    <3> SUFFICES ASSUME Regular PROVE FALSE
      OBVIOUS
    <3>1. base \in Nat /\ Len(items) \in Nat /\ Len(m.globals) = base + Len(items)
      BY <1>7
    <3>2. base + Len(items) > Len(m.globals)
      BY <1>9
    <3> HIDE DEF base, items
    <3> QED BY <3>1, <3>2
  <2> QED BY <1>1, <1>9, <2>1, UndefinedRegular
<1>10. CASE ~(good < Len(items)) /\ Loaded(new, {})
  <2>1. ASSUME Regular PROVE Laid(new, pos + 1)
    <3> DEFINE changed == {"globals"}
    <3>1. good = Len(items)
      BY <1>2, <1>4, <1>10 DEF Counted
    <3>2. /\ {"functions"} \cap changed = {} /\ {"pages"} \cap changed = {}
          /\ {"data", "elements"} \cap changed = {}
          /\ "global" \notin {"import", "memory"} /\ "global" # "func" /\ Agree(new, m, changed)
      BY <1>5
    <3>3. /\ new.imports = m.imports /\ new.counts = m.counts /\ new.tables = m.tables
          /\ new.functions = m.functions
      BY <1>2, <1>5, ModuleFields DEF Agree
    <3> HIDE DEF changed
    <3>4. /\ FunctionsLaid(new, pos + 1) /\ BodiesLaid(new, pos + 1) /\ MemoryLaid(new, pos + 1)
          /\ SegmentsLaid(new)
      BY <1>1, <1>2, <1>7, <2>1, <3>2, LaidOther
    <3>5. SizesLaid(new)
      <4>1. Counted(new.globals)
        BY <1>5, <1>7, <2>1, SameCounted DEF Laid, SizesLaid
      <4> QED BY <1>5, <1>7, <2>1, <3>3, <4>1 DEF Laid, SizesLaid
    <3>6. ASSUME NEW k \in DOMAIN m.globals
          PROVE  /\ DOMAIN new.globals[k] = DOMAIN NoGlobal
                 /\ new.globals[k].target \in 0 .. ImportCount("global")
                 /\ new.globals[k].from \in {m.globals[k].from, 0}
                 /\ k - base \in 1 .. good => new.globals[k].from = 0
      <4>1. /\ DOMAIN m.globals[k] = DOMAIN NoGlobal
            /\ m.globals[k].target \in 0 .. ImportCount("global")
        BY <1>7, <2>1 DEF Laid, GlobalsLaid
      <4>2. CASE k - base \in 1 .. good
        <5> DEFINE i == k - base
        <5>1. new.globals[k] = [from |-> 0, target |-> items[i]]
          BY <1>5, <4>2
        <5>2. items[i] \in Nat /\ items[i] <= base /\ base = ImportCount("global")
          BY <1>4, <1>6, <1>7, <2>1, <4>2
        <5>3. ImportCount("global") \in Nat
          BY <1>7, <2>1
        <5> HIDE DEF i, items
        <5>4. items[i] \in 0 .. ImportCount("global")
          BY <5>2, <5>3
        <5> QED BY <5>1, <5>4 DEF NoGlobal
      <4>3. CASE k - base \notin 1 .. good
        BY <1>5, <4>1, <4>3
      <4> QED BY <4>2, <4>3
    <3>7. ImportsLaid(new, pos + 1)
      <4>1. Past("import", pos + 1) => Past("import", pos)
        BY <1>1, <1>7, <2>1, PastKept
      <4>2. \A k \in 1 .. ImportCount("global") : k \in DOMAIN m.globals
        BY <1>7, <2>1 DEF Laid, SizesLaid, Slots
      <4>3. 0 # -1
        OBVIOUS
      <4> QED BY <1>7, <2>1, <3>3, <3>6, <4>1, <4>2, <4>3 DEF Laid, ImportsLaid
    <3>8. GlobalsLaid(new, pos + 1)
      <4>1. ASSUME NEW k \in 1 .. SectionCount("global")
            PROVE  new.globals[ImportCount("global") + k].from # -1
        <5> DEFINE j == ImportCount("global") + k
        <5>1. /\ j \in DOMAIN m.globals /\ j - base = k
          BY <1>7, <2>1 DEF Laid, SizesLaid, Slots
        <5>2. k \in 1 .. good
          BY <1>7, <2>1, <3>1
        <5> HIDE DEF j
        <5>3. new.globals[j].from = 0
          BY <3>6, <5>1, <5>2
        <5> QED BY <5>3 DEF j
      <4> QED BY <1>5, <3>6, <4>1 DEF GlobalsLaid
    <3> QED BY <3>4, <3>5, <3>7, <3>8 DEF Laid
  <2> QED BY <1>1, <1>10, <2>1, LoadedRegular
<1> QED BY <1>3, <1>8, <1>9, <1>10

(* A section that leaves alone what a regular file lays out.               *)
LEMMA ApartRegular ==
  ASSUME Possession, Judgement, Regularity, LoadSection, NEW id, Section(id),
         id \notin {"import", "func", "memory", "global"},
         NEW changed, {"imports", "counts", "tables", "functions", "globals", "pages"} \cap changed = {},
         NEW new, Agree(new, m, changed), Regular => SegmentsLaid(new), NEW blocks, Loaded(new, blocks)
  PROVE  Regularity'
<1>1. ASSUME Regular PROVE Laid(new, pos + 1)
  <2>1. Laid(m, pos) /\ pos \in Nat /\ file \in Files /\ DOMAIN m = DOMAIN NewModule
    BY <1>1, InRegular
  <2>2. /\ {"imports", "counts", "tables", "functions", "globals"} \cap changed = {}
        /\ {"functions", "globals"} \cap changed = {} /\ {"functions"} \cap changed = {}
        /\ {"globals"} \cap changed = {} /\ {"pages"} \cap changed = {}
        /\ id \notin {"import", "memory"} /\ id # "import" /\ id # "func" /\ id # "global"
    OBVIOUS
  <2>3. /\ SizesLaid(new) /\ ImportsLaid(new, pos + 1) /\ FunctionsLaid(new, pos + 1)
        /\ GlobalsLaid(new, pos + 1) /\ BodiesLaid(new, pos + 1) /\ MemoryLaid(new, pos + 1)
    BY <2>1, <2>2, LaidOther
  <2> QED BY <1>1, <2>3 DEF Laid
<1> QED BY <1>1, LoadedRegular

(* The segments of a module with the same elements and data.               *)
LEMMA SameSegments ==
  ASSUME Possession, Regularity, Regular, NEW id, Section(id), NEW new,
         new.data = m.data, new.elements = m.elements
  PROVE  SegmentsLaid(new)
<1>1. Laid(m, pos)
  BY InRegular
<1> QED BY <1>1 DEF Laid, SegmentsLaid

(* Sections that write nothing of it.                                      *)
LEMMA PlainRegular ==
  ASSUME Possession, Judgement, Regularity,
         LoadTypeSection \/ LoadExportSection \/ LoadStartSection \/ SkipSection
  PROVE  Regularity'
<1> DEFINE items == file.sections[pos].items
<1>1. LoadSection /\ \E id \in {"type", "export", "start", "custom"} : Section(id)
  BY DEF LoadSection, LoadTypeSection, LoadExportSection, LoadStartSection, SkipSection
<1>2. PICK id \in {"type", "export", "start", "custom"} : Section(id)
  BY <1>1
<1>3. DOMAIN m = DOMAIN NewModule
  BY <1>2, InSection
<1>4. ASSUME NEW new, NEW changed, Agree(new, m, changed),
             changed \subseteq {"types", "refs", "typesBlock", "exports", "exportsBlock", "start"},
             NEW blocks, Loaded(new, blocks)
      PROVE  Regularity'
  <2>1. new.data = m.data /\ new.elements = m.elements
    BY <1>3, <1>4, ModuleFields DEF Agree
  <2>2. Regular => SegmentsLaid(new)
    BY <1>2, <2>1, SameSegments
  <2>3. /\ {"imports", "counts", "tables", "functions", "globals", "pages"} \cap changed = {}
        /\ id \notin {"import", "func", "memory", "global"}
    BY <1>4
  <2> QED BY <1>1, <1>2, <1>4, <2>2, <2>3, ApartRegular
<1>5. ASSUME NEW blocks, Rejected(m, blocks) \/ Exhausted(m, blocks)
      PROVE  Regularity'
  BY <1>1, <1>5, FailedRegular
<1>6. ASSUME NEW blocks, Loaded(m, blocks)
      PROVE  Regularity'
  <2>1. Agree(m, m, {})
    BY DEF Agree
  <2> QED BY <1>4, <1>6, <2>1
<1>7. CASE LoadTypeSection
  <2>1. \/ \E blocks : Loaded(m, blocks) \/ Rejected(m, blocks) \/ Exhausted(m, blocks)
        \/ \E t, r, b, blocks :
             Loaded([m EXCEPT !.types = t, !.refs = r, !.typesBlock = b], blocks)
    BY <1>7 DEF LoadTypeSection
  <2>2. ASSUME NEW t, NEW r, NEW b
        PROVE  Agree([m EXCEPT !.types = t, !.refs = r, !.typesBlock = b], m,
                     {"types", "refs", "typesBlock"})
    BY DEF Agree
  <2> QED BY <1>4, <1>5, <1>6, <2>1, <2>2
<1>8. CASE LoadExportSection
  <2>1. \/ \E blocks : Loaded(m, blocks) \/ Rejected(m, blocks) \/ Exhausted(m, blocks)
        \/ \E b, blocks : Loaded([m EXCEPT !.exports = items, !.exportsBlock = b], blocks)
    BY <1>8 DEF LoadExportSection
  <2>2. ASSUME NEW b
        PROVE  Agree([m EXCEPT !.exports = items, !.exportsBlock = b], m, {"exports", "exportsBlock"})
    BY DEF Agree
  <2> QED BY <1>4, <1>5, <1>6, <2>1, <2>2
<1>9. CASE LoadStartSection
  <2> DEFINE new == [m EXCEPT !.start = items[1]]
  <2>1. Rejected(m, {}) \/ Loaded(new, {})
    BY <1>9 DEF LoadStartSection
  <2>2. Agree(new, m, {"start"})
    BY DEF Agree
  <2> HIDE DEF new
  <2> QED BY <1>4, <1>5, <2>1, <2>2
<1>10. CASE SkipSection
  BY <1>6, <1>10 DEF SkipSection
<1> QED BY <1>7, <1>8, <1>9, <1>10

(* The tables of a regular file are none of them imported.                 *)
LEMMA TablesRegular ==
  ASSUME Possession, Judgement, Regularity, LoadTableSection
  PROVE  Regularity'
<1> DEFINE items == file.sections[pos].items
<1>1. Section("table") /\ LoadSection
  BY DEF LoadTableSection, LoadSection
<1>2. \/ Rejected(m, {}) \/ Loaded(m, {})
      \/ m.imports["table"] + Len(items) > m.tables /\ Undefined("table slots")
  BY DEF LoadTableSection
<1>3. CASE Rejected(m, {})
  BY <1>1, <1>3, FailedRegular
<1>4. CASE Loaded(m, {})
  <2>1. Agree(m, m, {})
    BY DEF Agree
  <2>2. Regular => SegmentsLaid(m)
    BY <1>1, SameSegments
  <2>3. /\ {"imports", "counts", "tables", "functions", "globals", "pages"} \cap {} = {}
        /\ "table" \notin {"import", "func", "memory", "global"}
    OBVIOUS
  <2> QED BY <1>1, <1>4, <2>1, <2>2, <2>3, ApartRegular
<1>5. CASE m.imports["table"] + Len(items) > m.tables /\ Undefined("table slots")
  <2>1. ~Regular
    <3> SUFFICES ASSUME Regular PROVE FALSE
      OBVIOUS
    <3>1. /\ Laid(m, pos) /\ file \in Files /\ pos \in SectionsOf("table") /\ Counted(items)
          /\ ImportCount("table") \in Nat /\ SectionCount("table") \in Nat
      BY <1>1, InRegular
    <3>2. SectionCount("table") = Len(items)
      BY <3>1, SoleSection DEF SectionIds, ImportKinds
    <3>3. m.imports["table"] = ImportCount("table") /\ m.tables = ImportCount("table") + SectionCount("table")
      BY <3>1 DEF Laid, SizesLaid, Slots
    <3>4. m.imports["table"] + Len(items) > m.tables
      BY <1>5
    <3> HIDE DEF items
    <3> QED BY <3>1, <3>2, <3>3, <3>4
  <2> QED BY <1>1, <1>5, <2>1, UndefinedRegular
<1> QED BY <1>2, <1>3, <1>4, <1>5

(* The elements of a regular file name its tables.                         *)
LEMMA ElementsRegular ==
  ASSUME Possession, Judgement, Regularity, LoadElementSection
  PROVE  Regularity'
<1> DEFINE items == file.sections[pos].items
           element(i) == [item |-> items[i],
                          block |-> IF items[i].funcs > 0 THEN <<"indexes", pos, i>> ELSE Null]
           elements == [i \in 1 .. Len(items) |-> element(i)]
           block == <<"elements", pos>>
           new == [m EXCEPT !.elements = elements, !.elementsBlock = block]
<1>1. Section("element") /\ LoadSection
  BY DEF LoadElementSection, LoadSection
<1>2. \/ \E blocks : Rejected(m, blocks) \/ Exhausted(m, blocks)
      \/ Loaded(m, {}) \/ \E blocks : Loaded(new, blocks)
  BY DEF LoadElementSection
<1>3. DOMAIN m = DOMAIN NewModule
  BY <1>1, InSection
<1>4. /\ Agree(new, m, {"elements", "elementsBlock"})
      /\ new.elements = elements /\ new.data = m.data
  <2> HIDE DEF elements, block
  <2> QED BY <1>3, ModuleFields DEF Agree
<1>5. ASSUME NEW i \in DOMAIN elements PROVE elements[i].item = items[i] /\ i \in 1 .. Len(items)
  <2> HIDE DEF items
  <2> QED OBVIOUS
<1> HIDE DEF new, elements
<1>6. CASE \E blocks : Rejected(m, blocks) \/ Exhausted(m, blocks)
  BY <1>1, <1>6, FailedRegular
<1>7. CASE Loaded(m, {})
  <2>1. Agree(m, m, {})
    BY DEF Agree
  <2>2. Regular => SegmentsLaid(m)
    BY <1>1, SameSegments
  <2>3. /\ {"imports", "counts", "tables", "functions", "globals", "pages"} \cap {} = {}
        /\ "element" \notin {"import", "func", "memory", "global"}
    OBVIOUS
  <2> QED BY <1>1, <1>7, <2>1, <2>2, <2>3, ApartRegular
<1>8. ASSUME NEW blocks, Loaded(new, blocks) PROVE Regularity'
  <2>1. ASSUME Regular PROVE SegmentsLaid(new)
    <3>1. Laid(m, pos) /\ pos \in SectionsOf("element") /\ Counted(items)
      BY <1>1, <2>1, InRegular
    <3>2. \A i \in DOMAIN items : /\ items[i].table \in 0 .. Slots("table") - 1
                                  /\ items[i].global \in 0 .. ImportCount("global")
      BY <2>1, <3>1 DEF Regular
    <3>3. \A e \in DOMAIN new.elements :
            /\ new.elements[e].item.table \in 0 .. Slots("table") - 1
            /\ new.elements[e].item.global \in 0 .. ImportCount("global")
      BY <1>4, <1>5, <3>1, <3>2 DEF Counted
    <3> QED BY <1>4, <3>1, <3>3 DEF Laid, SegmentsLaid
  <2>2. /\ {"imports", "counts", "tables", "functions", "globals", "pages"} \cap
             {"elements", "elementsBlock"} = {}
        /\ "element" \notin {"import", "func", "memory", "global"}
    OBVIOUS
  <2> QED BY <1>1, <1>4, <1>8, <2>1, <2>2, ApartRegular
<1> QED BY <1>2, <1>6, <1>7, <1>8

(* The data of a regular file fits its memory.                             *)
LEMMA DataRegular ==
  ASSUME Possession, Judgement, Regularity, LoadDataSection
  PROVE  Regularity'
<1> DEFINE items == file.sections[pos].items
           block == <<"data", pos>>
           new == [m EXCEPT !.data = items, !.dataBlock = block]
           none == [new EXCEPT !.dataBlock = Null]
<1>1. Section("data") /\ LoadSection
  BY DEF LoadDataSection, LoadSection
<1>2. \/ \E mod, blocks : Rejected(mod, blocks)
      \/ Loaded(m, {}) \/ \E blocks : Loaded(new, blocks)
  BY DEF LoadDataSection
<1>3. DOMAIN m = DOMAIN NewModule
  BY <1>1, InSection
<1>4. Agree(new, m, {"data", "dataBlock"}) /\ new.data = items /\ new.elements = m.elements
  <2> HIDE DEF items, block
  <2> QED BY <1>3, ModuleFields DEF Agree
<1> HIDE DEF new
<1>5. CASE \E mod, blocks : Rejected(mod, blocks)
  BY <1>1, <1>5, FailedRegular
<1>6. CASE Loaded(m, {})
  <2>1. Agree(m, m, {})
    BY DEF Agree
  <2>2. Regular => SegmentsLaid(m)
    BY <1>1, SameSegments
  <2>3. /\ {"imports", "counts", "tables", "functions", "globals", "pages"} \cap {} = {}
        /\ "data" \notin {"import", "func", "memory", "global"}
    OBVIOUS
  <2> QED BY <1>1, <1>6, <2>1, <2>2, <2>3, ApartRegular
<1>7. ASSUME NEW blocks, Loaded(new, blocks) PROVE Regularity'
  <2>1. ASSUME Regular PROVE SegmentsLaid(new)
    <3>1. Laid(m, pos) /\ pos \in SectionsOf("data")
      BY <1>1, <2>1, InRegular
    <3>2. \A i \in DOMAIN items : /\ items[i].fits /\ Memories # {} /\ 0 \notin Memories
                                  /\ items[i].global \in 0 .. ImportCount("global")
      BY <2>1, <3>1 DEF Regular
    <3> QED BY <1>4, <3>1, <3>2 DEF Laid, SegmentsLaid
  <2>2. /\ {"imports", "counts", "tables", "functions", "globals", "pages"} \cap {"data", "dataBlock"} = {}
        /\ "data" \notin {"import", "func", "memory", "global"}
    OBVIOUS
  <2> QED BY <1>1, <1>4, <1>7, <2>1, <2>2, ApartRegular
<1> QED BY <1>2, <1>5, <1>6, <1>7

----------------------------------------------------------------------------
(* A regular file up to the slots                                          *)

(* At the end of the file everything was read.                             *)
LEMMA LoaderDoneRegular ==
  ASSUME Possession, Judgement, Regularity, LoaderDone
  PROVE  Regularity'
<1>1. /\ pc = "sections" /\ pos \notin DOMAIN file.sections /\ pc' = "validate"
      /\ m' = m /\ file' = file /\ pos' = pos /\ fault' = fault
  BY DEF LoaderDone, Goto, Untouched
<1>2. LoadSection
  BY DEF LoadSection
<1>3. /\ Sized' /\ fault = "none" /\ pos \in Nat \ {0}
  BY <1>2, SizedKept DEF Regularity
<1>4. Regular' => Laid(m, pos)'
  <2>1. Regular => Laid(m, pos)
    BY <1>1 DEF Regularity, Preparing
  <2> QED BY <1>1, <2>1, FileKept, LaidPrimed
<1>5. m'.counts["memory"] = SectionCount("memory")'
  BY <1>1, FileKept DEF Regularity, Preparing
<1>6. RegularDefined'
  BY <1>1, <1>3 DEF RegularDefined
<1> QED BY <1>1, <1>3, <1>4, <1>5, <1>6 DEF Regularity, Preparing, Early

(* wasm_loader.                                                            *)
LEMMA LoadRegular ==
  ASSUME Possession, Judgement, Regularity, LoadSection
  PROVE  Regularity'
BY PlainRegular, ImportsRegular, FunctionsRegular, TablesRegular, MemoryRegular, GlobalsRegular,
   ElementsRegular, DataRegular, CodeRegular, LoaderDoneRegular DEF LoadSection

(* At the start nothing is laid out.                                       *)
LEMMA InitRegularity == Init => Regularity
<1> SUFFICES ASSUME Init PROVE Regularity
  OBVIOUS
<1>1. m = NewModule /\ pc = "init_env" /\ pos = 1 /\ fault = "none"
  BY DEF Init
<1>2. Base = 0 /\ Bodies = 0 /\ DOMAIN m.functions = {}
  BY <1>1 DEF NewModule, ImportKinds, Base, Bodies
<1>3. 1 .. 0 + 0 = {}
  OBVIOUS
<1>4. Sized
  BY <1>1, <1>2, <1>3 DEF Sized
<1> QED BY <1>1, <1>4 DEF Regularity, Preparing, RegularDefined

(* main up to wasm_module_create.                                          *)
LEMMA EarlyRegular ==
  ASSUME Possession, Regularity, InitEnv \/ Options \/ ReadFile \/ CreateModule
  PROVE  Regularity'
<1>1. /\ m' = m \/ m' = NewModule
      /\ pc \in Early /\ pc' \in Early \cup {"header", "exited"}
      /\ file' = file /\ pos' = pos /\ fault' = fault
  BY DEF InitEnv, Options, ReadFile, CreateModule, Early
<1>2. m' = NewModule /\ m = NewModule
  BY <1>1 DEF Possession
<1>3. pos = 1 /\ fault = "none"
  BY <1>1 DEF Regularity, Early
<1>4. Base' = 0 /\ Bodies' = 0 /\ DOMAIN m'.functions = {} /\ 1 .. 0 + 0 = {}
  BY <1>2 DEF NewModule, ImportKinds, Base, Bodies
<1>5. Sized'
  BY <1>1, <1>4 DEF Sized, Early
<1> QED BY <1>1, <1>3, <1>5 DEF Regularity, Preparing, RegularDefined, Early

(* init_load: the slots are there, and empty.                              *)
LEMMA InitLoadRegular ==
  ASSUME Possession, Judgement, Regularity, InitLoad
  PROVE  Regularity'
<1> DEFINE counted == [m EXCEPT !.imports = [k \in ImportKinds |-> ImportCount(k)],
                                !.counts  = [k \in ImportKinds |-> SectionCount(k)]]
           zeroed  == [counted EXCEPT !.functions = [i \in 1 .. Slots("func") |-> NoFunction],
                                      !.globals = [i \in 1 .. Slots("global") |-> NoGlobal],
                                      !.tables = Slots("table"),
                              !.tableData = [i \in 1 .. Slots("table") |-> Null]]
           Blocks(n) == {<<Arrays[i]>> : i \in 1..n}
           With(n) == [zeroed EXCEPT !.arrays = Blocks(n)]
<1>1. pc = "header" /\ file \in Files /\ m = NewModule /\ pos = 1 /\ fault = "none"
  BY DEF InitLoad, Possession, Regularity, Early
<1>2. ASSUME NEW n
      PROVE  /\ With(n).functions = [i \in 1 .. Slots("func") |-> NoFunction]
             /\ With(n).globals = [i \in 1 .. Slots("global") |-> NoGlobal]
             /\ With(n).tables = Slots("table")
             /\ With(n).imports = [k \in ImportKinds |-> ImportCount(k)]
             /\ With(n).counts = [k \in ImportKinds |-> SectionCount(k)]
             /\ With(n).pages = 0 /\ With(n).data = <<>> /\ With(n).elements = <<>>
  BY <1>1 DEF NewModule
<1>3. \/ Rejected(m, {}) \/ Goto("sections", With(3), Blocks(3))
      \/ \E n \in 0..2 : Exhausted(With(n), Blocks(n))
  BY DEF InitLoad
<1> HIDE DEF With, Blocks
<1>4. /\ file' = file /\ pos' = pos /\ fault' = fault
      /\ \/ m' = m /\ pc' = "fail"
         \/ pc' \in {"sections", "fail"} /\ \E n : m' = With(n)
  BY <1>3 DEF Rejected, Goto, Exhausted, Untouched
<1>5. RegularDefined'
  BY <1>1, <1>4 DEF RegularDefined
<1>6. CASE m' = m /\ pc' = "fail"
  <2>1. Base' = 0 /\ Bodies' = 0 /\ DOMAIN m'.functions = {} /\ 1 .. 0 + 0 = {}
    BY <1>1, <1>6 DEF NewModule, ImportKinds, Base, Bodies
  <2>2. Sized'
    BY <1>6, <2>1 DEF Sized
  <2> QED BY <1>1, <1>4, <1>5, <1>6, <2>2 DEF Regularity, Preparing, Early
<1>7. CASE pc' \in {"sections", "fail"} /\ \E n : m' = With(n)
  <2>1. /\ m'.functions = [i \in 1 .. Slots("func") |-> NoFunction]
        /\ m'.globals = [i \in 1 .. Slots("global") |-> NoGlobal]
        /\ m'.tables = Slots("table")
        /\ m'.imports = [k \in ImportKinds |-> ImportCount(k)]
        /\ m'.counts = [k \in ImportKinds |-> SectionCount(k)]
        /\ m'.pages = 0 /\ m'.data = <<>> /\ m'.elements = <<>>
    BY <1>2, <1>7
  <2>2. \A id : ImportCount(id) \in Nat /\ SectionCount(id) \in Nat
    BY <1>1, ImportCountNat, SectionCountNat
  <2>3. Base' = ImportCount("func") /\ Bodies' = SectionCount("func")
    BY <2>1 DEF Base, Bodies, ImportKinds
  <2>4. Sized'
    <3>1. DOMAIN m'.functions = 1 .. Base' + Bodies'
      BY <2>1, <2>3 DEF Slots
    <3> QED BY <1>7, <2>2, <2>3, <3>1 DEF Sized
  <2>5. \A id : Past(id, 1) => SectionsOf(id) = {}
    <3> SUFFICES ASSUME NEW id, Past(id, 1), NEW s \in SectionsOf(id) PROVE FALSE
      OBVIOUS
    <3>1. s \in Nat \ {0}
      BY <1>1, SectionNumbers
    <3> QED BY <3>1 DEF Past
  <2>6. \A id : Past(id, 1) => SectionCount(id) = 0
    BY <2>5 DEF SectionCount
  <2>7. Past("import", 1) => \A kind : ImportCount(kind) = 0
    <3> SUFFICES ASSUME Past("import", 1), NEW kind PROVE ImportCount(kind) = 0
      OBVIOUS
    <3>1. UNION {{s} \X ImportsOf(s, kind) : s \in SectionsOf("import")} = {}
      BY <2>5
    <3>2. Cardinality({}) = 0
      BY FS_EmptySet
    <3> QED BY <3>1, <3>2 DEF ImportCount
  <2>8. Laid(m', 1)
    <3>1. SizesLaid(m')
      <4>1. Slots("global") \in Nat
        BY <2>2 DEF Slots
      <4>2. Counted(m'.globals)
        BY <2>1, <4>1 DEF Counted
      <4> QED BY <2>1, <4>2 DEF SizesLaid, ImportKinds
    <3>2. ImportsLaid(m', 1)
      <4>1. ASSUME Past("import", 1) PROVE 1 .. ImportCount("func") = {} /\ 1 .. ImportCount("global") = {}
        <5>1. ImportCount("func") = 0 /\ ImportCount("global") = 0
          BY <2>7, <4>1
        <5> QED BY <5>1
      <4> QED BY <4>1 DEF ImportsLaid
    <3>3. FunctionsLaid(m', 1)
      <4>1. ASSUME Past("func", 1) PROVE 1 .. SectionCount("func") = {}
        <5>1. SectionCount("func") = 0
          BY <2>6, <4>1
        <5> QED BY <5>1
      <4> QED BY <4>1 DEF FunctionsLaid
    <3>4. GlobalsLaid(m', 1)
      <4>1. ASSUME Past("global", 1) PROVE 1 .. SectionCount("global") = {}
        <5>1. SectionCount("global") = 0
          BY <2>6, <4>1
        <5> QED BY <5>1
      <4>2. ASSUME NEW g \in DOMAIN m'.globals
            PROVE  DOMAIN m'.globals[g] = DOMAIN NoGlobal /\ m'.globals[g].target \in 0 .. ImportCount("global")
        <5>1. m'.globals[g] = NoGlobal
          BY <2>1
        <5>2. NoGlobal.target = 0
          BY DEF NoGlobal
        <5> QED BY <2>2, <5>1, <5>2
      <4> QED BY <4>1, <4>2 DEF GlobalsLaid
    <3>5. BodiesLaid(m', 1)
      <4>1. NoFunction.room = -1
        BY DEF NoFunction
      <4>2. ASSUME NEW k \in DOMAIN m'.functions PROVE m'.functions[k] = NoFunction
        BY <2>1
      <4> QED BY <4>1, <4>2 DEF BodiesLaid
    <3>6. MemoryLaid(m', 1)
      <4>1. Past("import", 1) => ~(ImportCount("memory") > 0)
        BY <2>7
      <4>2. Past("memory", 1) => ~(SectionCount("memory") > 0)
        BY <2>6
      <4> QED BY <2>1, <4>1, <4>2 DEF MemoryLaid
    <3>7. SegmentsLaid(m')
      BY <2>1 DEF SegmentsLaid
    <3> QED BY <3>1, <3>2, <3>3, <3>4, <3>5, <3>6, <3>7 DEF Laid
  <2>9. Laid(m, pos)'
    BY <1>1, <1>4, <2>8, LaidPrimed
  <2>10. m'.counts["memory"] = SectionCount("memory")'
    <3>1. SectionCount("memory")' = SectionCount("memory")
      BY <1>4, FileKept
    <3> QED BY <2>1, <3>1 DEF ImportKinds
  <2> QED BY <1>1, <1>4, <1>5, <1>7, <2>4, <2>9, <2>10 DEF Regularity, Preparing, Early
<1> QED BY <1>4, <1>6, <1>7

----------------------------------------------------------------------------
(* A regular module is validated                                           *)

(* Behind the last section all sections are past.                          *)
LEMMA AllPast ==
  ASSUME file \in Files, pos \in Nat \ {0}, pos \notin DOMAIN file.sections, NEW id
  PROVE  Past(id, pos)
<1> SUFFICES ASSUME NEW s \in SectionsOf(id) PROVE s < pos
  BY DEF Past
<1>1. s \in 1 .. Len(file.sections) /\ Len(file.sections) \in Nat
  BY FileShape DEF SectionsOf, Counted
<1>2. pos \notin 1 .. Len(file.sections)
  BY FileShape DEF Counted
<1> QED BY <1>1, <1>2

(* The places behind the loader.                                           *)
Prepared == Preparing \ {"sections"}

(* What a regular file has laid out behind the loader.                     *)
LEMMA AllLaid ==
  ASSUME Possession, Regularity, Regular, pc \in Prepared
  PROVE  /\ SizesLaid(m) /\ SegmentsLaid(m) /\ m.pages \in {0} \cup Memories
         /\ \A kind : ImportCount(kind) \in Nat /\ SectionCount(kind) \in Nat
         /\ \A k \in 1 .. ImportCount("func") : m.functions[k].from # 0
         /\ \A k \in 1 .. ImportCount("global") : m.globals[k].from # -1
         /\ \A k \in 1 .. SectionCount("func") : m.functions[ImportCount("func") + k].type # Null
         /\ \A k \in 1 .. SectionCount("global") : m.globals[ImportCount("global") + k].from # -1
         /\ \A g \in DOMAIN m.globals : m.globals[g].target \in 0 .. ImportCount("global")
         /\ \A k \in DOMAIN m.functions : m.functions[k].room \in {-1, m.functions[k].params}
         /\ ImportCount("memory") > 0 \/ SectionCount("memory") > 0 => m.pages \in Memories
<1>1. /\ file \in Files /\ Laid(m, pos) /\ pos \in Nat \ {0} /\ pos \notin DOMAIN file.sections
  BY DEF Possession, Regularity, Preparing, Prepared
<1>2. \A id : Past(id, pos)
  BY <1>1, AllPast
<1>3. \A kind : ImportCount(kind) \in Nat /\ SectionCount(kind) \in Nat
  BY <1>1, ImportCountNat, SectionCountNat
<1>4. SizesLaid(m) /\ SegmentsLaid(m)
  BY <1>1 DEF Laid
<1>5. /\ \A k \in 1 .. ImportCount("func") : m.functions[k].from # 0
      /\ \A k \in 1 .. ImportCount("global") : m.globals[k].from # -1
  BY <1>1, <1>2 DEF Laid, ImportsLaid
<1>6. \A k \in 1 .. SectionCount("func") : m.functions[ImportCount("func") + k].type # Null
  BY <1>1, <1>2 DEF Laid, FunctionsLaid
<1>7. /\ \A k \in 1 .. SectionCount("global") : m.globals[ImportCount("global") + k].from # -1
      /\ \A g \in DOMAIN m.globals : m.globals[g].target \in 0 .. ImportCount("global")
  BY <1>1, <1>2 DEF Laid, GlobalsLaid
<1>8. \A k \in DOMAIN m.functions : m.functions[k].room \in {-1, m.functions[k].params}
  BY <1>1 DEF Laid, BodiesLaid
<1>9. /\ m.pages \in {0} \cup Memories
      /\ ImportCount("memory") > 0 \/ SectionCount("memory") > 0 => m.pages \in Memories
  BY <1>1, <1>2 DEF Laid, MemoryLaid
<1> QED BY <1>3, <1>4, <1>5, <1>6, <1>7, <1>8, <1>9

(* A value of an import needs one; and an offset of a regular file names a *)
(* global there is.                                                        *)
LEMMA ValuedLaid ==
  ASSUME Possession, Regularity, Regular, pc \in Prepared
  PROVE  /\ \A g \in DOMAIN m.globals : ImportValued(g) => m.imports["global"] > 0
         /\ \A i \in DOMAIN m.data :
              ~NoSuchGlobal(m.data[i]) /\ (AnyOffset(m.data[i]) => m.imports["global"] > 0)
         /\ \A e \in DOMAIN m.elements : ~NoSuchGlobal(m.elements[e].item)
<1>1. /\ SizesLaid(m) /\ SegmentsLaid(m)
      /\ ImportCount("global") \in Nat /\ SectionCount("global") \in Nat
      /\ \A g \in DOMAIN m.globals : m.globals[g].target \in 0 .. ImportCount("global")
  BY AllLaid
<1>2. /\ m.imports["global"] = ImportCount("global") /\ DOMAIN m.globals = 1 .. Len(m.globals)
      /\ Len(m.globals) = ImportCount("global") + SectionCount("global")
  <2>1. Slots("global") \in Nat
    BY <1>1 DEF Slots
  <2> QED BY <1>1, <2>1, SameLength DEF SizesLaid, Slots, Counted
<1>3. ASSUME NEW g \in DOMAIN m.globals, ImportValued(g)
      PROVE  m.imports["global"] > 0
  <2>1. g \in Nat \ {0} /\ m.globals[g].target \in 0 .. ImportCount("global")
    BY <1>1, <1>2
  <2> QED BY <1>1, <1>2, <1>3, <2>1 DEF ImportValued
<1>4. ASSUME NEW segment, segment.global \in 0 .. ImportCount("global")
      PROVE  ~NoSuchGlobal(segment) /\ (AnyOffset(segment) => m.imports["global"] > 0)
  <2>1. ~NoSuchGlobal(segment)
    BY <1>1, <1>2, <1>4 DEF NoSuchGlobal
  <2>2. AnyOffset(segment) => segment.global \in DOMAIN m.globals /\ ImportValued(segment.global)
    BY <1>2 DEF AnyOffset
  <2> QED BY <1>3, <2>1, <2>2
<1> QED BY <1>1, <1>3, <1>4 DEF SegmentsLaid

(* A module with the same parts is laid out as well.                       *)
LEMMA LaidSame ==
  ASSUME NEW mod, NEW new, NEW p, Laid(mod, p),
         new.imports = mod.imports, new.counts["func"] = mod.counts["func"],
         new.functions = mod.functions, new.globals = mod.globals, new.tables = mod.tables,
         new.pages = mod.pages, new.data = mod.data, new.elements = mod.elements
  PROVE  Laid(new, p)
BY DEF Laid, SizesLaid, ImportsLaid, FunctionsLaid, GlobalsLaid, BodiesLaid, MemoryLaid, SegmentsLaid

(* main goes on behind the loader ...                                      *)
LEMMA PreparedKept ==
  ASSUME Regularity, pc \in Prepared, pc' \in Prepared, file' = file, pos' = pos, fault' = fault,
         Sized', Regular => Laid(m', pos),
         pc' \in {"tables", "exports", "functions"}
           \/ (pc \notin {"tables", "exports", "functions"} /\ m'.counts["memory"] = m.counts["memory"])
  PROVE  Regularity'
<1>1. fault = "none" /\ pos \in Nat \ {0} /\ pos \notin DOMAIN file.sections
  BY DEF Regularity, Prepared, Preparing
<1>2. Regular' => Laid(m, pos)'
  BY FileKept, LaidPrimed
<1>3. pc' \notin {"tables", "exports", "functions"} => m'.counts["memory"] = SectionCount("memory")'
  BY FileKept DEF Regularity, Prepared
<1>4. RegularDefined'
  BY <1>1 DEF RegularDefined
<1> QED BY <1>1, <1>2, <1>3, <1>4 DEF Regularity, Prepared, Preparing, Early

(* ... leaves the preparation ...                                          *)
LEMMA LeftRegular ==
  ASSUME Regularity, pc # "undefined", pc' \notin Preparing \cup Early \cup {"header"},
         pos' = pos, fault' = fault, Sized'
  PROVE  Regularity'
<1>1. fault' = "none" /\ pos' \in Nat \ {0}
  BY DEF Regularity
<1>2. RegularDefined'
  BY <1>1 DEF RegularDefined
<1> QED BY <1>1, <1>2 DEF Regularity

(* ... or does what is not defined.                                        *)
LEMMA FaultRegular ==
  ASSUME Regularity, NEW what, Undefined(what),
         \/ what = "thread" \/ ~Regular
         \/ what = "import value" /\ m.imports["global"] > 0
  PROVE  Regularity'
<1>1. pc' = "undefined" /\ m' = m /\ pos' = pos /\ file' = file /\ fault' = what
  BY DEF Undefined, Untouched
<1>2. Base' = Base /\ Bodies' = Bodies
  BY <1>1 DEF Base, Bodies
<1>3. Sized'
  BY <1>1, <1>2 DEF Regularity, Sized, Preparing
<1>4. RegularDefined'
  BY <1>1, FileKept DEF RegularDefined
<1> QED BY <1>1, <1>3, <1>4 DEF Regularity, Preparing, Early

(* A step to the failure that leaves the functions and the counts.         *)
LEMMA FailRegular ==
  ASSUME Regularity, pc \notin {"undefined"}, pc' = "fail", pos' = pos, fault' = fault,
         m'.imports = m.imports, m'.counts["func"] = m.counts["func"],
         DOMAIN m'.functions = DOMAIN m.functions,
         m'.stage = m.stage \/ m'.stage = "Instantiate" \/ pc \in Preparing
  PROVE  Regularity'
<1>1. Base' = Base /\ Bodies' = Bodies
  BY DEF Base, Bodies
<1>2. Sized'
  BY <1>1 DEF Regularity, Sized, Preparing
<1> QED BY <1>2, LeftRegular DEF Preparing, Early

(* wasm_validator starts: the imports have their globals.                  *)
LEMMA StartRegular ==
  ASSUME Possession, Judgement, Regularity, StartValidator
  PROVE  Regularity'
<1> DEFINE mod == [m EXCEPT !.stage = "Validate"]
           unset == {g \in DOMAIN m.globals : /\ m.globals[g].target > 0
                                              /\ m.globals[m.globals[g].target].from = -1}
<1>1. pc = "validate" /\ pc \in Prepared /\ pc \in Preparing
  BY DEF StartValidator, Prepared, Preparing
<1>2. DOMAIN m = DOMAIN NewModule
  BY <1>1, SlotsHeld DEF Final, Over, Early
<1>3. /\ mod.imports = m.imports /\ mod.counts = m.counts /\ mod.functions = m.functions
      /\ mod.globals = m.globals /\ mod.tables = m.tables /\ mod.pages = m.pages
      /\ mod.data = m.data /\ mod.elements = m.elements
  BY <1>2, ModuleFields
<1> HIDE DEF mod
<1>4. CASE Rejected(mod, {})
  <2>1. /\ pc' = "fail" /\ m' = mod /\ pos' = pos /\ fault' = fault
    BY <1>4 DEF Rejected
  <2> QED BY <1>1, <1>3, <2>1, FailRegular
<1>5. CASE unset # {} /\ Undefined("global slots")
  <2>1. ~Regular
    <3> SUFFICES ASSUME Regular PROVE FALSE
      OBVIOUS
    <3>1. PICK g \in DOMAIN m.globals : m.globals[g].target > 0 /\ m.globals[m.globals[g].target].from = -1
      BY <1>5
    <3>2. m.globals[g].target \in 1 .. ImportCount("global")
      <4>1. m.globals[g].target \in 0 .. ImportCount("global") /\ ImportCount("global") \in Nat
        BY <1>1, AllLaid
      <4> QED BY <3>1, <4>1
    <3> QED BY <1>1, <3>1, <3>2, AllLaid
  <2> QED BY <1>5, <2>1, FaultRegular
<1>6. CASE Undefined("thread")
  BY <1>6, FaultRegular
<1>7. CASE m' = mod /\ UNCHANGED <<file, pos, fault>> /\ pc' \in {"serial", "join"}
  <2>1. Base' = Base /\ Bodies' = Bodies /\ DOMAIN m'.functions = DOMAIN m.functions
    BY <1>3, <1>7 DEF Base, Bodies
  <2>2. Sized'
    BY <1>1, <1>7, <2>1 DEF Regularity, Sized
  <2>3. Regular => Laid(m', pos)
    <3>1. Regular => Laid(m, pos)
      BY <1>1 DEF Regularity
    <3> QED BY <1>3, <1>7, <3>1, LaidSame
  <2> QED BY <1>1, <1>3, <1>7, <2>2, <2>3, PreparedKept DEF Prepared, Preparing
<1>8. CASE (\E g \in DOMAIN m.globals : m.globals[g].target > 0) /\ Undefined("import value")
  <2>1. Regular => m.imports["global"] > 0
    BY <1>1, <1>8, ValuedLaid DEF ImportValued
  <2> QED BY <1>8, <2>1, FaultRegular
<1> QED
  <2>1. \/ Rejected(mod, {}) \/ (unset # {} /\ Undefined("global slots")) \/ Undefined("thread")
        \/ (\E g \in DOMAIN m.globals : m.globals[g].target > 0) /\ Undefined("import value")
        \/ m' = mod /\ UNCHANGED <<file, pos, fault>> /\ pc' \in {"serial", "join"}
    BY DEF StartValidator, mod
  <2> QED BY <1>4, <1>5, <1>6, <1>7, <1>8, <2>1

(* A body of a regular file has a type and room for its parameters.        *)
LEMMA UnusableRegular ==
  ASSUME Possession, Judgement, Regularity, pc \in {"join", "serial"},
         NEW next \in Nat, next < Bodies, Unusable(Base + next + 1)
  PROVE  Regularity'
<1> DEFINE k == Base + next + 1
<1>1. PICK what : Undefined(what)
  BY DEF Unusable
<1>2. ASSUME Regular PROVE FALSE
  <2>1. /\ SizesLaid(m) /\ ImportCount("func") \in Nat /\ SectionCount("func") \in Nat
        /\ \A j \in 1 .. SectionCount("func") : m.functions[ImportCount("func") + j].type # Null
        /\ \A j \in DOMAIN m.functions : m.functions[j].room \in {-1, m.functions[j].params}
    BY <1>2, AllLaid DEF Prepared, Preparing
  <2>2. Base = ImportCount("func") /\ Bodies = SectionCount("func")
        /\ DOMAIN m.functions = 1 .. ImportCount("func") + SectionCount("func")
    BY <2>1 DEF SizesLaid, Base, Bodies, Slots
  <2>3. next + 1 \in 1 .. SectionCount("func") /\ k = ImportCount("func") + (next + 1)
    <3> HIDE DEF Base, Bodies
    <3> QED BY <2>1, <2>2
  <2>4. k \in DOMAIN m.functions
    <3> HIDE DEF k
    <3> QED BY <2>1, <2>2, <2>3
  <2>5. m.functions[k].type # Null
    <3> HIDE DEF k
    <3> QED BY <2>1, <2>3
  <2>6. m.functions[k].room \in {-1, m.functions[k].params}
    <3> HIDE DEF k
    <3> QED BY <2>1, <2>4
  <2> HIDE DEF k
  <2>7. m.functions[k].room \notin 0 .. m.functions[k].params - 1
    <3> DEFINE p == m.functions[k].params
               r == m.functions[k].room
    <3>1. r \in {-1, p}
      BY <2>6
    <3> HIDE DEF p, r
    <3>2. r \notin 0 .. p - 1
      BY <3>1
    <3> QED BY <3>2 DEF p, r
  <2>8. Unusable(k)
    BY DEF k
  <2> QED BY <2>5, <2>7, <2>8 DEF Unusable
<1> QED BY <1>1, <1>2, FaultRegular

(* A body that is accepted changes its branch table alone.                 *)
LEMMA AcceptLaid ==
  ASSUME Possession, pc \notin Final, NEW k, Accept(k)
  PROVE  /\ m'.imports = m.imports /\ m'.counts = m.counts /\ m'.stage = m.stage
         /\ DOMAIN m'.functions = DOMAIN m.functions
         /\ Laid(m, pos) => Laid(m', pos)
<1> DEFINE table == IF Branches(k) = {} THEN Null ELSE <<"branches", k>>
<1>1. Holdings(m, heap) /\ DOMAIN m = DOMAIN NewModule
  BY SlotsHeld
<1>2. m' = [m EXCEPT !.functions[k].table = table]
  BY DEF Accept
<1> HIDE DEF table
<1>3. /\ m'.imports = m.imports /\ m'.counts = m.counts /\ m'.stage = m.stage
      /\ m'.globals = m.globals /\ m'.tables = m.tables /\ m'.pages = m.pages
      /\ m'.data = m.data /\ m'.elements = m.elements
      /\ m'.functions = [m.functions EXCEPT ![k] = [@ EXCEPT !.table = table]]
  BY <1>1, <1>2, ModuleFields
<1>4. ASSUME NEW j \in DOMAIN m.functions
      PROVE  /\ m'.functions[j].from = m.functions[j].from
             /\ m'.functions[j].type = m.functions[j].type
             /\ m'.functions[j].room = m.functions[j].room
             /\ m'.functions[j].params = m.functions[j].params
  <2>1. DOMAIN m.functions[j] = DOMAIN NoFunction
    BY <1>1 DEF Holdings, HoldsFunctions
  <2>2. m'.functions[j] = m.functions[j] \/ m'.functions[j] = [m.functions[j] EXCEPT !.table = table]
    BY <1>3
  <2> QED BY <2>1, <2>2, FunctionFields
<1>5. DOMAIN m'.functions = DOMAIN m.functions
  BY <1>3
<1>6. ASSUME Laid(m, pos) PROVE Laid(m', pos)
  <2>1. SizesLaid(m') /\ GlobalsLaid(m', pos) /\ MemoryLaid(m', pos) /\ SegmentsLaid(m')
    BY <1>3, <1>5, <1>6 DEF Laid, SizesLaid, GlobalsLaid, MemoryLaid, SegmentsLaid
  <2>2. DOMAIN m.functions = 1 .. Slots("func") /\ file \in Files
    BY <1>6 DEF Laid, SizesLaid, Possession
  <2>3. ImportCount("func") \in Nat /\ SectionCount("func") \in Nat
    BY <2>2, ImportCountNat, SectionCountNat
  <2>4. \A j \in 1 .. ImportCount("func") : j \in DOMAIN m.functions
    BY <2>2, <2>3 DEF Slots
  <2>5. ImportsLaid(m', pos)
    BY <1>3, <1>4, <1>6, <2>4 DEF Laid, ImportsLaid
  <2>6. \A j \in 1 .. SectionCount("func") : ImportCount("func") + j \in DOMAIN m.functions
    BY <2>2, <2>3 DEF Slots
  <2>7. FunctionsLaid(m', pos)
    BY <1>4, <1>6, <2>6 DEF Laid, FunctionsLaid
  <2>8. BodiesLaid(m', pos)
    BY <1>4, <1>5, <1>6 DEF Laid, BodiesLaid
  <2> QED BY <2>1, <2>5, <2>7, <2>8 DEF Laid
<1> QED BY <1>3, <1>5, <1>6

(* The end of a body, or of the validation.                                *)
LEMMA BodyRegular ==
  ASSUME Possession, Regularity, pc \in {"join", "serial"}, NEW k,
         Accept(k) \/ Reject(k), pc' \in {pc, "fail"}, UNCHANGED <<file, pos, fault>>
  PROVE  Regularity'
<1>1. pc \in Prepared /\ pc \in Preparing /\ pc \notin Final
  BY DEF Prepared, Preparing, Final, Over, Early
<1>2. /\ m'.imports = m.imports /\ m'.counts = m.counts /\ m'.stage = m.stage
      /\ DOMAIN m'.functions = DOMAIN m.functions
      /\ Laid(m, pos) => Laid(m', pos)
  BY <1>1, AcceptLaid DEF Reject
<1>3. CASE pc' = "fail"
  BY <1>1, <1>2, <1>3, FailRegular
<1>4. CASE pc' = pc
  <2>1. Base' = Base /\ Bodies' = Bodies
    BY <1>2 DEF Base, Bodies
  <2>2. Sized'
    BY <1>1, <1>2, <1>4, <2>1 DEF Regularity, Sized
  <2>3. Regular => Laid(m', pos)
    BY <1>1, <1>2 DEF Regularity
  <2> QED BY <1>1, <1>2, <1>4, <2>2, <2>3, PreparedKept
<1> QED BY <1>3, <1>4

(* main and the threads leave the module alone.                            *)
LEMMA IdleRegular ==
  ASSUME Regularity, pc \in {"join", "serial"}, pc' \in {pc, "globals", "fail"},
         m' = m, UNCHANGED <<file, pos, fault>>
  PROVE  Regularity'
<1>1. pc \in Prepared /\ pc \in Preparing
  BY DEF Prepared, Preparing
<1>2. CASE pc' = "fail"
  BY <1>1, <1>2, FailRegular
<1>3. CASE pc' # "fail"
  <2>1. Base' = Base /\ Bodies' = Bodies
    BY DEF Base, Bodies
  <2>2. Sized'
    BY <1>1, <1>3, <2>1 DEF Regularity, Sized
  <2>3. Regular => Laid(m', pos)
    BY <1>1 DEF Regularity
  <2> QED BY <1>1, <1>3, <2>2, <2>3, PreparedKept DEF Prepared, Preparing
<1> QED BY <1>2, <1>3

(* The validation, by the threads or without them.                         *)
LEMMA ValidationRegular ==
  ASSUME Possession, Judgement, Regularity,
         ValidateSerially \/ JoinThreads \/ \E t \in Threads : ThreadStep(t)
  PROVE  Regularity'
<1>1. CASE ValidateSerially
  <2>1. pc = "serial" /\ OneByOne
    BY <1>1 DEF ValidateSerially, Judgement
  <2> DEFINE next == threads[0].next
             k == Base + next + 1
  <2>2. next \in Nat /\ Bodies \in Nat
    BY <2>1 DEF OneByOne, Judgement, Bodies
  <2>3. \/ next >= Bodies /\ Goto("globals", m, {})
        \/ ~(next >= Bodies) /\ Unusable(k)
        \/ (Accept(k) \/ Reject(k)) /\ pc' \in {pc, "fail"} /\ UNCHANGED <<file, pos, fault>>
    BY <1>1 DEF ValidateSerially
  <2>4. CASE Goto("globals", m, {})
    BY <2>1, <2>4, IdleRegular DEF Goto, Untouched
  <2>5. CASE ~(next >= Bodies) /\ Unusable(k)
    <3>1. next < Bodies
      <4> HIDE DEF next, Bodies
      <4> QED BY <2>2, <2>5
    <3> HIDE DEF next
    <3> QED BY <2>1, <2>2, <2>5, <3>1, UnusableRegular
  <2>6. CASE (Accept(k) \/ Reject(k)) /\ pc' \in {pc, "fail"} /\ UNCHANGED <<file, pos, fault>>
    <3> HIDE DEF k
    <3> QED BY <2>1, <2>6, BodyRegular
  <2> QED BY <2>3, <2>4, <2>5, <2>6
<1>2. CASE JoinThreads
  BY <1>2, IdleRegular DEF JoinThreads, Goto, Untouched
<1>3. ASSUME NEW t \in Threads, ValidateBody(t) PROVE Regularity'
  <2>1. pc = "join" /\ Shared
    BY <1>3 DEF ValidateBody, Judgement
  <2> DEFINE next == threads[t].next
             k == Base + next + 1
  <2>2. next \in Nat /\ next < Bodies
    BY <1>3, <2>1 DEF Shared, ValidateBody
  <2>3. \/ Unusable(k)
        \/ (Accept(k) \/ Reject(k)) /\ pc' = pc /\ UNCHANGED <<file, pos, fault>>
    BY <1>3 DEF ValidateBody
  <2>4. CASE Unusable(k)
    <3> HIDE DEF next
    <3> QED BY <2>1, <2>2, <2>4, UnusableRegular
  <2>5. CASE (Accept(k) \/ Reject(k)) /\ pc' = pc /\ UNCHANGED <<file, pos, fault>>
    <3> HIDE DEF k
    <3> QED BY <2>1, <2>5, BodyRegular
  <2> QED BY <2>3, <2>4, <2>5
<1>4. ASSUME NEW t \in Threads, ThreadExit(t) PROVE Regularity'
  BY <1>4, IdleRegular DEF ThreadExit
<1> QED BY <1>1, <1>2, <1>3, <1>4 DEF ThreadStep

----------------------------------------------------------------------------
(* A regular module is instantiated and destroyed                          *)

(* A set of numbers has a least one.                                       *)
LEMMA Smallest ==
  ASSUME NEW S \in SUBSET Nat, S # {}
  PROVE  Min(S) \in S
<1>1. PICK s \in S : \A r \in S : s <= r
  BY LeastNumber
<1>2. \E x \in S : \A y \in S : x <= y
  BY <1>1
<1> QED BY <1>2 DEF Min

(* A step of wasm_instantiate that leaves what is laid out.                *)
LEMMA InstanceRegular ==
  ASSUME Possession, Regularity, pc \in Instantiating, NEW mod,
         Agree(mod, m, {"stage", "counts", "globalData", "memoryData", "tableData", "exportFuncs"}),
         mod.stage = "Instantiate", mod.counts["func"] = m.counts["func"],
         NEW next \in Instantiating \ {"globals"}, NEW blocks,
         \/ Rejected(mod, blocks)
         \/ /\ Goto(next, mod, blocks)
            /\ \/ next # "memories"
               \/ pc = "globals" /\ mod.counts["memory"] = m.counts["memory"]
  PROVE  Regularity'
<1>1. pc \in Prepared /\ pc \in Preparing /\ pc \notin Final /\ pc \notin {"undefined"}
  BY DEF Prepared, Preparing, Instantiating, Final, Over, Early
<1>2. DOMAIN m = DOMAIN NewModule
  BY <1>1, SlotsHeld
<1>3. /\ mod.imports = m.imports /\ mod.functions = m.functions
      /\ mod.globals = m.globals /\ mod.tables = m.tables /\ mod.pages = m.pages
      /\ mod.data = m.data /\ mod.elements = m.elements
  BY <1>2, ModuleFields DEF Agree
<1>4. CASE Rejected(mod, blocks)
  <2>1. pc' = "fail" /\ m' = mod /\ pos' = pos /\ fault' = fault
    BY <1>4 DEF Rejected
  <2> QED BY <1>1, <1>3, <2>1, FailRegular
<1>5. CASE /\ Goto(next, mod, blocks)
           /\ next # "memories" \/ (pc = "globals" /\ mod.counts["memory"] = m.counts["memory"])
  <2>1. pc' = next /\ m' = mod /\ pos' = pos /\ fault' = fault /\ file' = file
    BY <1>5 DEF Goto, Untouched
  <2>2. Base' = Base /\ Bodies' = Bodies
    BY <1>3, <2>1 DEF Base, Bodies
  <2>3. Sized'
    BY <1>1, <1>3, <2>1, <2>2 DEF Regularity, Sized
  <2>4. Regular => Laid(m', pos)
    <3>1. Regular => Laid(m, pos)
      BY <1>1 DEF Regularity
    <3> QED BY <1>3, <2>1, <3>1, LaidSame
  <2> QED BY <1>1, <1>5, <2>1, <2>3, <2>4, PreparedKept DEF Prepared, Preparing, Instantiating
<1> QED BY <1>4, <1>5

(* The globals all have been filled.                                       *)
LEMMA GlobalsInstanceRegular ==
  ASSUME Possession, Judgement, Regularity, GlobalsInstantiate
  PROVE  Regularity'
<1> DEFINE n == Len(m.globals)
           staged == [m EXCEPT !.stage = "Instantiate"]
           data == IF n = 0 THEN Null ELSE <<"global_data">>
           done == [staged EXCEPT !.counts["global"] = n, !.globalData = data]
<1>1. pc = "globals" /\ pc \in Instantiating /\ pc \in Prepared /\ pc \notin Final
  BY DEF GlobalsInstantiate, Prepared, Preparing, Instantiating, Final, Over, Early
<1>2. DOMAIN m = DOMAIN NewModule /\ DOMAIN m.counts = ImportKinds
  BY <1>1, SlotsHeld DEF Holdings, HoldsTables
<1>3. \/ (\E g \in 1..n : m.globals[g].from = -1) /\ Undefined("global slots")
      \/ (\E g \in 1..n : ImportValued(g)) /\ Undefined("import value")
      \/ Goto("memories", done, Allocated(done.globalData)) \/ Rejected(staged, {})
  BY DEF GlobalsInstantiate
<1>4. CASE (\E g \in 1..n : m.globals[g].from = -1) /\ Undefined("global slots")
  <2>1. ~Regular
    <3> SUFFICES ASSUME Regular PROVE FALSE
      OBVIOUS
    <3>1. /\ SizesLaid(m) /\ ImportCount("global") \in Nat /\ SectionCount("global") \in Nat
          /\ \A k \in 1 .. ImportCount("global") : m.globals[k].from # -1
          /\ \A k \in 1 .. SectionCount("global") : m.globals[ImportCount("global") + k].from # -1
      BY <1>1, AllLaid
    <3>2. PICK g \in 1 .. n : m.globals[g].from = -1
      BY <1>4
    <3>3. n = ImportCount("global") + SectionCount("global")
      <4>1. Slots("global") \in Nat
        BY <3>1 DEF Slots
      <4> QED BY <3>1, <4>1, SameLength DEF SizesLaid, Slots
    <3>4. g \in 1 .. ImportCount("global")
          \/ \E k \in 1 .. SectionCount("global") : g = ImportCount("global") + k
      <4>1. CASE g <= ImportCount("global")
        <5> HIDE DEF n
        <5> QED BY <3>1, <3>3, <4>1
      <4>2. CASE ~(g <= ImportCount("global"))
        <5>1. g - ImportCount("global") \in 1 .. SectionCount("global")
              /\ g = ImportCount("global") + (g - ImportCount("global"))
          <6> HIDE DEF n
          <6> QED BY <3>1, <3>3, <4>2
        <5> QED BY <5>1
      <4> QED BY <4>1, <4>2
    <3> HIDE DEF n
    <3> QED BY <3>1, <3>2, <3>4
  <2> QED BY <1>4, <2>1, FaultRegular
<1>5. /\ Agree(staged, m, {"stage", "counts", "globalData", "memoryData", "tableData", "exportFuncs"})
      /\ staged.stage = "Instantiate" /\ staged.counts = m.counts
  BY <1>2, ModuleFields DEF Agree
<1>6. /\ Agree(done, m, {"stage", "counts", "globalData", "memoryData", "tableData", "exportFuncs"})
      /\ done.stage = "Instantiate" /\ done.counts = [m.counts EXCEPT !["global"] = n]
  <2> HIDE DEF n, data
  <2> QED BY <1>2, ModuleFields DEF Agree
<1> HIDE DEF done, staged
<1>7. done.counts["func"] = m.counts["func"] /\ done.counts["memory"] = m.counts["memory"]
  <2> HIDE DEF n
  <2> QED BY <1>2, <1>6 DEF ImportKinds
<1>8. "memories" \in Instantiating \ {"globals"}
  BY DEF Instantiating
<1>9. CASE Goto("memories", done, Allocated(done.globalData))
  BY <1>1, <1>6, <1>7, <1>8, <1>9, InstanceRegular
<1>10. CASE Rejected(staged, {})
  BY <1>1, <1>5, <1>8, <1>10, InstanceRegular
<1>11. CASE (\E g \in 1..n : ImportValued(g)) /\ Undefined("import value")
  <2>1. ASSUME Regular PROVE m.imports["global"] > 0
    <3>1. DOMAIN m.globals = 1 .. n
      BY <1>1, <2>1, AllLaid DEF SizesLaid, Counted
    <3> QED BY <1>1, <1>11, <2>1, <3>1, ValuedLaid
  <2> QED BY <1>11, <2>1, FaultRegular
<1> QED BY <1>3, <1>4, <1>9, <1>10, <1>11

(* Where a memory is declared there is one, and its size is declared.      *)
LEMMA MemoryDeclared ==
  ASSUME Possession, Regularity, Regular, pc \in Prepared, Memories # {}
  PROVE  /\ ImportCount("memory") + SectionCount("memory") # 0
         /\ m.pages \in Memories
<1>1. /\ ImportCount("memory") \in Nat /\ SectionCount("memory") \in Nat /\ file \in Files
      /\ ImportCount("memory") > 0 \/ SectionCount("memory") > 0 => m.pages \in Memories
  BY AllLaid DEF Possession
<1>2. ImportCount("memory") > 0 \/ SectionCount("memory") > 0
  <2>1. PICK size : size \in Memories
    OBVIOUS
  <2>2. \/ \E s \in SectionsOf("import") : ImportsOf(s, "memory") # {}
        \/ \E s \in SectionsOf("memory") : size \in ToSet(file.sections[s].items)
    BY <2>1 DEF Memories
  <2>3. CASE \E s \in SectionsOf("import") : ImportsOf(s, "memory") # {}
    <3>0. PICK s \in SectionsOf("import") : ImportsOf(s, "memory") # {}
      BY <2>3
    <3>1. PICK i \in ImportsOf(s, "memory") : TRUE
      BY <3>0
    <3> DEFINE U == UNION {{r} \X ImportsOf(r, "memory") : r \in SectionsOf("import")}
    <3>2. <<s, i>> \in U
      OBVIOUS
    <3>3. IsFiniteSet(U)
      BY <1>1, ImportsFinite
    <3>4. Cardinality(U) # 0
      <4> HIDE DEF U
      <4> QED BY <3>2, <3>3, FS_EmptySet
    <3>5. ImportCount("memory") = Cardinality(U)
      BY DEF ImportCount
    <3> HIDE DEF U
    <3> QED BY <1>1, <3>4, <3>5
  <2>4. CASE \E s \in SectionsOf("memory") : size \in ToSet(file.sections[s].items)
    <3>1. PICK s \in SectionsOf("memory") : size \in ToSet(file.sections[s].items)
      BY <2>4
    <3>2. \A t \in SectionsOf("memory") : t = s
      BY <1>1, Sole DEF SectionIds, ImportKinds
    <3>3. SectionsOf("memory") = {s} /\ s \in Nat /\ s \in DOMAIN file.sections
      BY <1>1, <3>2, SectionNumbers
    <3>4. Max({s}) = s
      <4>1. {s} \in SUBSET (0 .. s)
        BY <3>3
      <4> QED BY <3>3, <4>1, Greatest
    <3>5. SectionCount("memory") = Len(file.sections[s].items)
      BY <3>3, <3>4 DEF SectionCount
    <3>6. Counted(file.sections[s].items)
      BY <1>1, <3>3, FileShape
    <3>7. PICK i \in DOMAIN file.sections[s].items : file.sections[s].items[i] = size
      BY <3>1 DEF ToSet
    <3>8. i \in 1 .. Len(file.sections[s].items) /\ Len(file.sections[s].items) \in Nat
      BY <3>6, <3>7 DEF Counted
    <3> QED BY <3>5, <3>8
  <2> QED BY <2>2, <2>3, <2>4
<1> QED BY <1>1, <1>2

(* A size below the limit is not at it.                                    *)
LEMMA BelowLimit ==
  ASSUME NEW pages, pages \in {0} \cup (0 .. PageLimit - 1)
  PROVE  ~(pages >= PageLimit)
<1>1. PageLimit \in Nat /\ 0 < PageLimit
  BY DEF PageLimit
<1>2. CASE pages = 0
  BY <1>1, <1>2
<1>3. CASE pages \in 0 .. PageLimit - 1
  BY <1>1, <1>3
<1> QED BY <1>2, <1>3

(* The memory of a regular file has less than 2^32 bytes, and its data a   *)
(* place.                                                                  *)
LEMMA MemoriesInstanceRegular ==
  ASSUME Possession, Judgement, Regularity, MemoriesInstantiate
  PROVE  Regularity'
<1> DEFINE n == m.imports["memory"] + m.counts["memory"]
           none == n = 0 \/ m.pages = 0
           data == IF none THEN Null ELSE <<"memory_data">>
           done == [m EXCEPT !.counts["memory"] = n, !.memoryData = data]
<1>1. pc = "memories" /\ pc \in Instantiating /\ pc \in Prepared /\ pc \notin Final
  BY DEF MemoriesInstantiate, Prepared, Preparing, Instantiating, Final, Over, Early
<1>2. DOMAIN m = DOMAIN NewModule /\ DOMAIN m.counts = ImportKinds /\ m.stage = "Instantiate"
  BY <1>1, SlotsHeld DEF Holdings, HoldsTables, Regularity, Sized
<1>3. \/ ~none /\ m.pages >= PageLimit /\ Undefined("memory size")
      \/ n > 1 /\ Undefined("memory slots")
      \/ (\E i \in DOMAIN m.data : NoSuchGlobal(m.data[i])) /\ Undefined("global slots")
      \/ (\E i \in DOMAIN m.data : none \/ ~m.data[i].fits) /\ Undefined("data segment")
      \/ (\E i \in DOMAIN m.data : AnyOffset(m.data[i])) /\ Undefined("import value")
      \/ Rejected(m, {}) \/ Goto("tables", done, Allocated(done.memoryData))
  BY DEF MemoriesInstantiate
<1>4. ASSUME Regular
      PROVE  /\ Memories \subseteq 0 .. PageLimit - 1 /\ m.pages \in {0} \cup Memories
             /\ \A i \in DOMAIN m.data : m.data[i].fits /\ Memories # {} /\ 0 \notin Memories
             /\ n = ImportCount("memory") + SectionCount("memory") /\ n <= 1
  <2>1. SizesLaid(m) /\ SegmentsLaid(m) /\ m.pages \in {0} \cup Memories
    BY <1>1, <1>4, AllLaid
  <2>2. m.counts["memory"] = SectionCount("memory")
    BY <1>1 DEF Regularity, Preparing
  <2>3. m.imports["memory"] = ImportCount("memory")
    BY <2>1 DEF SizesLaid
  <2>4. Memories \subseteq 0 .. PageLimit - 1 /\ Slots("memory") <= 1
    BY <1>4 DEF Regular
  <2> QED BY <2>1, <2>2, <2>3, <2>4 DEF SegmentsLaid, Slots
<1>5. CASE ~none /\ m.pages >= PageLimit /\ Undefined("memory size")
  <2>1. ~Regular
    <3> SUFFICES ASSUME Regular PROVE FALSE
      OBVIOUS
    <3>1. m.pages \in {0} \cup (0 .. PageLimit - 1)
      BY <1>4
    <3>2. m.pages >= PageLimit
      BY <1>5
    <3> QED BY <3>1, <3>2, BelowLimit
  <2> QED BY <1>5, <2>1, FaultRegular
<1>6. CASE (\E i \in DOMAIN m.data : none \/ ~m.data[i].fits) /\ Undefined("data segment")
  <2>1. ~Regular
    <3> SUFFICES ASSUME Regular PROVE FALSE
      OBVIOUS
    <3>1. PICK i \in DOMAIN m.data : none \/ ~m.data[i].fits
      BY <1>6
    <3>2. Memories # {} /\ 0 \notin Memories /\ none
      BY <1>4, <3>1
    <3>3. n # 0 /\ m.pages \in Memories
      BY <1>1, <1>4, <3>2, MemoryDeclared
    <3> QED BY <3>2, <3>3
  <2> QED BY <1>6, <2>1, FaultRegular
<1>7. /\ Agree(m, m, {"stage", "counts", "globalData", "memoryData", "tableData", "exportFuncs"})
      /\ Agree(done, m, {"stage", "counts", "globalData", "memoryData", "tableData", "exportFuncs"})
      /\ done.stage = "Instantiate" /\ done.counts = [m.counts EXCEPT !["memory"] = n]
  <2> HIDE DEF n, data
  <2> QED BY <1>2, ModuleFields DEF Agree
<1> HIDE DEF done
<1>8. done.counts["func"] = m.counts["func"]
  <2> HIDE DEF n
  <2> QED BY <1>2, <1>7 DEF ImportKinds
<1>9. "tables" \in Instantiating \ {"globals"} /\ "tables" # "memories"
  BY DEF Instantiating
<1>10. CASE Goto("tables", done, Allocated(done.memoryData))
  BY <1>1, <1>7, <1>8, <1>9, <1>10, InstanceRegular
<1>11. CASE Rejected(m, {})
  BY <1>1, <1>2, <1>7, <1>9, <1>11, InstanceRegular
<1>12. CASE n > 1 /\ Undefined("memory slots")
  <2>1. n > 1
    BY <1>12
  <2>2. Regular => n <= 1 /\ n \in Nat
    BY <1>1, <1>4, AllLaid
  <2> HIDE DEF n
  <2>3. ~Regular
    BY <2>1, <2>2
  <2> QED BY <1>12, <2>3, FaultRegular
<1>13. CASE (\E i \in DOMAIN m.data : NoSuchGlobal(m.data[i])) /\ Undefined("global slots")
  <2>1. ~Regular
    BY <1>1, <1>13, ValuedLaid
  <2> QED BY <1>13, <2>1, FaultRegular
<1>14. CASE (\E i \in DOMAIN m.data : AnyOffset(m.data[i])) /\ Undefined("import value")
  <2>1. Regular => m.imports["global"] > 0
    BY <1>1, <1>14, ValuedLaid
  <2> QED BY <1>14, <2>1, FaultRegular
<1> QED BY <1>3, <1>5, <1>6, <1>10, <1>11, <1>12, <1>13, <1>14

(* Its elements have their tables.                                         *)
LEMMA TablesInstanceRegular ==
  ASSUME Possession, Judgement, Regularity, TablesInstantiate
  PROVE  Regularity'
<1> DEFINE n == m.tables
           slots(k) == [i \in 1..n |-> IF i <= k THEN <<"table_data", i>> ELSE Null]
           Data(k) == [m EXCEPT !.tableData = slots(k)]
           Blocks(k) == {<<"table_data", i>> : i \in 1..k}
           done == [Data(n) EXCEPT !.counts["table"] = n]
<1>1. pc = "tables" /\ pc \in Instantiating /\ pc \in Prepared /\ pc \notin Final
  BY DEF TablesInstantiate, Prepared, Preparing, Instantiating, Final, Over, Early
<1>2. DOMAIN m = DOMAIN NewModule /\ DOMAIN m.counts = ImportKinds /\ m.stage = "Instantiate"
  BY <1>1, SlotsHeld DEF Holdings, HoldsTables, Regularity, Sized
<1>3. \/ \E k : Rejected(Data(k), Blocks(k))
      \/ (\E e \in DOMAIN m.elements : m.elements[e].item.table >= n) /\ Undefined("element")
      \/ (\E e \in DOMAIN m.elements : NoSuchGlobal(m.elements[e].item)) /\ Undefined("global slots")
      \/ Goto("exports", done, Blocks(n))
  BY DEF TablesInstantiate
<1>4. CASE (\E e \in DOMAIN m.elements : m.elements[e].item.table >= n) /\ Undefined("element")
  <2>1. ~Regular
    <3> SUFFICES ASSUME Regular PROVE FALSE
      OBVIOUS
    <3>1. PICK e \in DOMAIN m.elements : m.elements[e].item.table >= n
      BY <1>4
    <3>2. SizesLaid(m) /\ SegmentsLaid(m) /\ \A kind : ImportCount(kind) \in Nat /\ SectionCount(kind) \in Nat
      BY <1>1, AllLaid
    <3>3. m.elements[e].item.table \in 0 .. n - 1 /\ n \in Nat
      BY <3>2 DEF SizesLaid, SegmentsLaid, Slots
    <3> HIDE DEF n
    <3> QED BY <3>1, <3>3
  <2> QED BY <1>4, <2>1, FaultRegular
<1>5. ASSUME NEW k
      PROVE  /\ Agree(Data(k), m, {"stage", "counts", "globalData", "memoryData", "tableData", "exportFuncs"})
             /\ Data(k).stage = "Instantiate" /\ Data(k).counts = m.counts
  <2> HIDE DEF slots
  <2> QED BY <1>2, ModuleFields DEF Agree
<1>6. /\ Agree(done, m, {"stage", "counts", "globalData", "memoryData", "tableData", "exportFuncs"})
      /\ done.stage = "Instantiate" /\ done.counts = [m.counts EXCEPT !["table"] = n]
  <2> HIDE DEF slots
  <2> QED BY <1>2, ModuleFields DEF Agree
<1> HIDE DEF done, Data, Blocks
<1>7. done.counts["func"] = m.counts["func"]
  <2> HIDE DEF n
  <2> QED BY <1>2, <1>6 DEF ImportKinds
<1>8. "exports" \in Instantiating \ {"globals"} /\ "exports" # "memories"
  BY DEF Instantiating
<1>9. CASE \E k : Rejected(Data(k), Blocks(k))
  <2>1. PICK k : Rejected(Data(k), Blocks(k))
    BY <1>9
  <2>2. Data(k).counts["func"] = m.counts["func"]
    BY <1>5
  <2> QED BY <1>1, <1>5, <1>8, <2>1, <2>2, InstanceRegular
<1>10. CASE Goto("exports", done, Blocks(n))
  BY <1>1, <1>6, <1>7, <1>8, <1>10, InstanceRegular
<1>11. CASE (\E e \in DOMAIN m.elements : NoSuchGlobal(m.elements[e].item)) /\ Undefined("global slots")
  <2>1. ~Regular
    BY <1>1, <1>11, ValuedLaid
  <2> QED BY <1>11, <2>1, FaultRegular
<1> QED BY <1>3, <1>4, <1>9, <1>10, <1>11

(* The exports are copied.                                                 *)
LEMMA ExportInstanceRegular ==
  ASSUME Possession, Judgement, Regularity, ExportInstantiate
  PROVE  Regularity'
<1> DEFINE block == <<"export_functions">>
           new == [m EXCEPT !.exportFuncs = block]
<1>1. pc = "exports" /\ pc \in Instantiating /\ pc \notin Final
  BY DEF ExportInstantiate, Instantiating, Final, Over, Early
<1>2. DOMAIN m = DOMAIN NewModule /\ m.stage = "Instantiate"
  BY <1>1, SlotsHeld DEF Regularity, Sized
<1>3. Goto("functions", new, {block}) \/ Rejected(m, {})
  BY DEF ExportInstantiate
<1>4. /\ Agree(m, m, {"stage", "counts", "globalData", "memoryData", "tableData", "exportFuncs"})
      /\ Agree(new, m, {"stage", "counts", "globalData", "memoryData", "tableData", "exportFuncs"})
      /\ new.stage = "Instantiate" /\ new.counts = m.counts
  BY <1>2, ModuleFields DEF Agree
<1> HIDE DEF new, block
<1>5. "functions" \in Instantiating \ {"globals"} /\ "functions" # "memories"
  BY DEF Instantiating
<1>6. new.counts["func"] = m.counts["func"]
  BY <1>4
<1>7. CASE Goto("functions", new, {block})
  BY <1>1, <1>4, <1>5, <1>6, <1>7, InstanceRegular
<1>8. CASE Rejected(m, {})
  BY <1>1, <1>2, <1>4, <1>5, <1>8, InstanceRegular
<1> QED BY <1>3, <1>7, <1>8

(* The imports all have been filled; from here on they are counted.        *)
LEMMA FunctionsInstanceRegular ==
  ASSUME Possession, Judgement, Regularity, FunctionsInstantiate
  PROVE  Regularity'
<1> DEFINE bad == {k \in 1..Base : m.functions[k].from = 0
                     \/ ~Resolves(natives.table, natives.nodes, m.functions[k].name,
                                  TypeOf(m.functions[k].type))}
           new == [m EXCEPT !.counts["func"] = @ + Base]
<1>1. pc = "functions" /\ pc \in Prepared /\ pc \in Preparing /\ pc \notin Final
  BY DEF FunctionsInstantiate, Prepared, Preparing, Final, Over, Early
<1>2. DOMAIN m = DOMAIN NewModule /\ DOMAIN m.counts = ImportKinds /\ m.stage = "Instantiate"
  BY <1>1, SlotsHeld DEF Holdings, HoldsTables, Regularity, Sized
<1>3. \/ Goto("wasi", new, {}) \/ Rejected(m, {})
      \/ bad # {} /\ m.functions[Min(bad)].from = 0 /\ Undefined("function slots")
  BY DEF FunctionsInstantiate
<1>4. Base \in Nat /\ Bodies \in Nat /\ DOMAIN m.functions = 1 .. Base + Bodies
  BY <1>1 DEF Regularity, Sized
<1>5. CASE Rejected(m, {})
  <2>1. pc' = "fail" /\ m' = m /\ pos' = pos /\ fault' = fault
    BY <1>5 DEF Rejected
  <2> QED BY <1>1, <2>1, FailRegular
<1>6. CASE bad # {} /\ m.functions[Min(bad)].from = 0 /\ Undefined("function slots")
  <2>1. ~Regular
    <3> SUFFICES ASSUME Regular PROVE FALSE
      OBVIOUS
    <3>1. SizesLaid(m) /\ \A k \in 1 .. ImportCount("func") : m.functions[k].from # 0
      BY <1>1, AllLaid
    <3>2. Base = ImportCount("func")
      BY <3>1 DEF SizesLaid, Base
    <3>3. bad \in SUBSET (1 .. Base) /\ bad \in SUBSET Nat
      <4> HIDE DEF Base
      <4> QED BY <1>4
    <3> HIDE DEF bad
    <3>4. Min(bad) \in bad
      BY <1>6, <3>3, Smallest
    <3> QED BY <1>6, <3>1, <3>2, <3>3, <3>4
  <2> HIDE DEF bad
  <2> QED BY <1>6, <2>1, FaultRegular
<1>7. CASE Goto("wasi", new, {})
  <2>1. /\ new.functions = m.functions /\ new.imports = m.imports /\ new.stage = m.stage
        /\ new.counts = [m.counts EXCEPT !["func"] = Bodies + Base]
    <3> HIDE DEF Base
    <3> QED BY <1>2, ModuleFields DEF Bodies
  <2>2. new.counts["func"] = Bodies + Base
    <3> HIDE DEF new, Base, Bodies
    <3> QED BY <1>2, <2>1 DEF ImportKinds
  <2>3. m' = new /\ pc' = "wasi" /\ pos' = pos /\ fault' = fault
    BY <1>7 DEF Goto
  <2> HIDE DEF new
  <2>4. Base' = Base /\ Bodies' = Bodies + Base
    BY <2>1, <2>2, <2>3 DEF Base, Bodies
  <2>5. Bodies + Base \in Nat /\ Base <= Bodies + Base /\ Base + Bodies = Bodies + Base
    <3> HIDE DEF Base, Bodies
    <3> QED BY <1>4
  <2>6. Sized'
    <3>1. DOMAIN m'.functions = 1 .. Bodies' /\ Base' <= Bodies' /\ m'.stage = "Instantiate"
      BY <1>2, <1>4, <2>1, <2>3, <2>4, <2>5
    <3> QED BY <1>4, <2>3, <2>4, <2>5, <3>1 DEF Sized, Preparing
  <2> QED BY <1>1, <2>3, <2>6, LeftRegular DEF Preparing, Early
<1> HIDE DEF new, bad
<1> QED BY <1>3, <1>5, <1>6, <1>7

(* Behind the instantiation the module keeps its functions, counts and     *)
(* stage.                                                                  *)
LEMMA EndRegular ==
  ASSUME Possession, Judgement, Regularity, WasiInit \/ ExecuteMain \/ Return \/ Fail
  PROVE  Regularity'
<1> DEFINE context == [m EXCEPT !.wasi = <<"wasi_ctx">>]
           memory == [m EXCEPT !.memoryData = <<"memory_data">>]
<1>1. /\ pc \notin Preparing /\ pc \notin Over \cup {"undefined"}
      /\ pc' \notin Preparing \cup Early \cup {"header"} /\ pos' = pos /\ fault' = fault
      /\ m' = m \/ m' = context \/ m' = memory
  BY DEF WasiInit, ExecuteMain, Return, Fail, Over, Preparing, Early, Goto, Rejected, Exhausted, Untouched
<1>2. DOMAIN m = DOMAIN NewModule
  BY <1>1 DEF Possession, Holdings, Over
<1>3. /\ m'.functions = m.functions /\ m'.imports = m.imports /\ m'.counts = m.counts
      /\ m'.stage = m.stage
  BY <1>1, <1>2, ModuleFields
<1>4. Base' = Base /\ Bodies' = Bodies
  BY <1>3 DEF Base, Bodies
<1>5. Sized'
  BY <1>1, <1>3, <1>4 DEF Regularity, Sized, Preparing
<1> QED BY <1>1, <1>5, LeftRegular

(* wasm_module_destory finds a negative number of functions only after a   *)
(* failure of wasm_instantiate, with more imports than bodies.             *)
LEMMA DestroyRegular ==
  ASSUME Possession, Judgement, Regularity, Destroy
  PROVE  Regularity'
<1>1. pc = "destroy" /\ m' = m /\ pos' = pos /\ file' = file
  BY DEF Destroy, Undefined, Untouched
<1>2. Base' = Base /\ Bodies' = Bodies
  BY <1>1 DEF Base, Bodies
<1>3. \/ /\ <<"functions">> \in m.arrays /\ Defined \notin 0 .. Len(m.functions) - Base
         /\ Undefined("function count")
      \/ Undefined("free")
      \/ pc' = "exited" /\ fault' = fault
  BY DEF Destroy
<1>4. pc' \in {"exited", "undefined"}
  BY <1>3 DEF Undefined
<1>5. Sized'
  BY <1>1, <1>2, <1>4 DEF Regularity, Sized, Preparing
<1>6. CASE pc' = "exited" /\ fault' = fault
  BY <1>1, <1>5, <1>6, LeftRegular DEF Preparing, Early
<1>7. CASE Undefined("free")
  <2>1. FreedOnce'
    BY NextKept DEF Next, Main, Possession
  <2>2. fault' = "free" /\ <<"stack">> \in heap'
    BY <1>7, <2>1 DEF Undefined, FreedOnce
  <2>3. RegularDefined'
    BY <2>2 DEF RegularDefined
  <2> QED BY <1>1, <1>5, <1>7, <2>3 DEF Regularity, Preparing, Early, Undefined
<1>8. CASE /\ <<"functions">> \in m.arrays /\ Defined \notin 0 .. Len(m.functions) - Base
           /\ Undefined("function count")
  <2>1. Counted(m.functions)
    BY <1>1, DestroyingHolds DEF Destroying, Holdings, HoldsFunctions
  <2>2. Base \in Nat /\ Bodies \in Nat
    BY DEF Regularity, Sized
  <2>3. m.stage = "Instantiate" /\ Base > Bodies
    <3>1. CASE DOMAIN m.functions = 1 .. Base + Bodies
      <4>1. Len(m.functions) = Base + Bodies
        <5>1. Base + Bodies \in Nat
          BY <2>2
        <5> QED BY <2>1, <3>1, <5>1, SameLength
      <4>2. Defined \notin 0 .. (Base + Bodies) - Base
        BY <1>8, <4>1
      <4>3. CASE m.stage # "Instantiate"
        <5>1. Defined = Bodies
          BY <4>3 DEF Defined
        <5> HIDE DEF Base, Bodies
        <5> QED BY <2>2, <4>2, <5>1
      <4>4. CASE m.stage = "Instantiate"
        <5>1. Defined = Bodies - Base
          BY <4>4 DEF Defined
        <5> HIDE DEF Base, Bodies
        <5> QED BY <2>2, <4>2, <4>4, <5>1
      <4> QED BY <4>3, <4>4
    <3>2. CASE m.stage = "Instantiate" /\ DOMAIN m.functions = 1 .. Bodies /\ Base <= Bodies
      <4>1. Len(m.functions) = Bodies
        BY <2>1, <2>2, <3>2, SameLength
      <4>2. Defined = Bodies - Base
        BY <3>2 DEF Defined
      <4>3. Defined \notin 0 .. Bodies - Base
        BY <1>8, <4>1
      <4> HIDE DEF Base, Bodies
      <4> QED BY <2>2, <3>2, <4>2, <4>3
    <3> QED BY <3>1, <3>2 DEF Regularity, Sized
  <2>4. RegularDefined'
    BY <1>1, <1>2, <1>8, <2>3 DEF RegularDefined, Undefined
  <2> QED BY <1>1, <1>5, <1>8, <2>4 DEF Regularity, Preparing, Early, Undefined
<1> QED BY <1>3, <1>6, <1>7, <1>8

(* Nothing happens.                                                        *)
LEMMA StutterRegular ==
  ASSUME Regularity, UNCHANGED vars
  PROVE  Regularity'
<1>1. UNCHANGED <<file, pc, pos, m, heap, fault>>
  BY DEF vars
<1>2. Base' = Base /\ Bodies' = Bodies
  BY <1>1 DEF Base, Bodies
<1>3. Sized'
  BY <1>1, <1>2 DEF Regularity, Sized
<1>4. pc' \in Preparing /\ Regular' => Laid(m, pos)'
  BY <1>1, FileKept, LaidPrimed DEF Regularity
<1>5. pc' \in Preparing \ {"tables", "exports", "functions"} =>
        m'.counts["memory"] = SectionCount("memory")'
  BY <1>1, FileKept DEF Regularity
<1>6. RegularDefined'
  BY <1>1, <1>2, FileKept DEF Regularity, RegularDefined
<1> QED BY <1>1, <1>3, <1>4, <1>5, <1>6 DEF Regularity

(* Every step keeps it.                                                    *)
LEMMA NextRegular ==
  ASSUME Possession, Judgement, Regularity, [Next]_vars
  PROVE  Regularity'
<1>1. CASE InitEnv \/ Options \/ ReadFile \/ CreateModule
  BY <1>1, EarlyRegular
<1>2. CASE InitLoad
  BY <1>2, InitLoadRegular
<1>3. CASE LoadSection
  BY <1>3, LoadRegular
<1>4. CASE StartValidator
  BY <1>4, StartRegular
<1>5. CASE ValidateSerially \/ JoinThreads \/ \E t \in Threads : ThreadStep(t)
  BY <1>5, ValidationRegular
<1>6. CASE Instantiate
  BY <1>6, GlobalsInstanceRegular, MemoriesInstanceRegular, TablesInstanceRegular,
     ExportInstanceRegular, FunctionsInstanceRegular DEF Instantiate
<1>7. CASE WasiInit \/ ExecuteMain \/ Return \/ Fail
  BY <1>7, EndRegular
<1>8. CASE Destroy
  BY <1>8, DestroyRegular
<1>9. CASE UNCHANGED vars
  BY <1>9, StutterRegular
<1> QED BY <1>1, <1>2, <1>3, <1>4, <1>5, <1>6, <1>7, <1>8, <1>9 DEF Next, Main

(* Whatever allocation fails and in whatever order the threads validate,   *)
(* with a regular file nothing undefined happens but in the four places    *)
(* that RegularDefined names.                                              *)
THEOREM RegularFilesDefined == Spec => []RegularDefined
<1>1. Init => Possession /\ Judgement /\ Regularity
  BY InitPossession, InitJudgement, InitRegularity
<1>2. (Possession /\ Judgement /\ Regularity) /\ [Next]_vars => (Possession /\ Judgement /\ Regularity)'
  BY NextKept, NextJudged, NextRegular
<1>3. Possession /\ Judgement /\ Regularity => RegularDefined
  BY DEF Regularity
<1> QED BY <1>1, <1>2, <1>3, PTL DEF Spec
=============================================================================
