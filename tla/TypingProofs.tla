---------------------------- MODULE TypingProofs -----------------------------
(***************************************************************************)
(* Proofs about Validator and Interpreter: what the validator knows of a   *)
(* body, as the interpreter will rely on it.                               *)
(*                                                                         *)
(* First the validator by itself: the types of its variables, the nesting  *)
(* of its blocks, and where its branch table leads.                        *)
(*                                                                         *)
(* Then the branch table: at every instruction of every execution the      *)
(* cursor stands behind exactly the entries of the branching instructions  *)
(* that precede it.  A body is executed only when the validator has        *)
(* accepted it, so the argument has two parts: what the validator knows of *)
(* the entries each instruction emitted, and what the handlers do with     *)
(* them.                                                                   *)
(*                                                                         *)
(* Last the types: the interpreter never looks at one.  What it finds at   *)
(* an instruction follows from what the instructions before it leave and   *)
(* from what the entries of the branch table carry.  The invariant         *)
(* Sound relates both to the operands that the validator noted for         *)
(* each instruction: a live one hands on the operands that the next one    *)
(* expects, an entry that is still queued carries what its open block      *)
(* expects of it, and a resolved one what is expected where it leads.  It  *)
(* holds of bodies that are read without one of the known lapses.          *)
(***************************************************************************)
EXTENDS Validator, Interpreter, SequenceProofs, SequenceTheorems, FiniteSetTheorems, TLAPS

----------------------------------------------------------------------------
(* The variables of the validator, the nesting of its blocks and the       *)
(* targets of its branch table                                             *)

(* The cells of a sequence of types are a natural number.                  *)
LEMMA CellNumNat ==
  ASSUME NEW S, NEW types \in Seq(S)
  PROVE  CellNum(types) \in Nat
<1> DEFINE A == {i \in DOMAIN types : types[i] \in ValueType}
           B == {i \in DOMAIN types : types[i] \in Wide}
<1>1. DOMAIN types = 1 .. Len(types) /\ Len(types) \in Nat
  OBVIOUS
<1>2. IsFiniteSet(1 .. Len(types))
  BY <1>1, FS_Interval
<1>3. IsFiniteSet(A) /\ IsFiniteSet(B)
  <2>1. A \subseteq 1 .. Len(types) /\ B \subseteq 1 .. Len(types)
    BY <1>1
  <2> QED BY <2>1, <1>2, FS_Subset
<1>4. Cardinality(A) \in Nat /\ Cardinality(B) \in Nat
  BY <1>3, FS_CardinalityType
<1> QED BY <1>4 DEF CellNum

(* What is left under the first n elements of a sequence.                  *)
LEMMA PrefixType ==
  ASSUME NEW S, NEW s \in Seq(S), NEW n \in 0 .. Len(s)
  PROVE  SubSeq(s, 1, n) \in Seq(S) /\ Len(SubSeq(s, 1, n)) = n
  OBVIOUS

(* The base of the current block lies within the operand stack.            *)
Based(st) == Depth \in Nat \ {0} /\ Top \in BlockSet /\ Top.base <= Len(st)

(* Pops leave an operand stack that still reaches up to the base.          *)
LEMMA AfterPopType ==
  ASSUME NEW st \in Seq(StackType), Based(st), NEW types \in Seq(StackType)
  PROVE  /\ AfterPop(st, types) \in Seq(StackType)
         /\ Top.base <= Len(AfterPop(st, types))
<1> DEFINE n == IF Waived(st, types) THEN Top.base ELSE Len(st) - Len(types)
<1>1. Top.base \in Nat /\ Len(st) \in Nat /\ Len(types) \in Nat /\ Top.base <= Len(st)
  BY DEF Based, BlockSet
<1>2. n \in 0 .. Len(st) /\ Top.base <= n
  BY <1>1 DEF Waived, Available
<1> HIDE DEF n
<1>3. SubSeq(st, 1, n) \in Seq(StackType) /\ Len(SubSeq(st, 1, n)) = n
  BY <1>2, PrefixType
<1> QED BY <1>2, <1>3 DEF AfterPop, n

-----------------------------------------------------------------------------
(* Every action that is not a rejection reads one instruction, or one more *)
(* label: what it writes to the other variables decides about TypeOK.      *)
LapseSet == {"stale_flag", "borrowed_operand"}
FlagsSet == [1 .. MaxBlocks -> BOOLEAN]

LEMMA ArriveType ==
  ASSUME TypeOK,
         NEW instr \in InstrSet, NEW found \in Seq(StackType), NEW dead \in BOOLEAN,
         NEW peak \in Seq(StackType), NEW st \in Seq(StackType),
         Arrive(instr, found, dead, peak, st),
         blocks' \in Seq(BlockSet), table' \in Seq(EntrySet),
         poly' \in FlagsSet, own' \in FlagsSet,
         labels' \in Seq(Nat), retTypes' \in Seq(Seq(ValueType)),
         verdict' \in {"running", "accepted", "rejected"}, lapses' \subseteq LapseSet
  PROVE  TypeOK' /\ stack' = st
<1>1. code' = Append(code, instr) /\ code' \in Seq(InstrSet) /\ Len(code') = Len(code) + 1
  BY DEF TypeOK, Arrive
<1> DEFINE SeenSet == [stack : Seq(StackType), emitted : Nat, dead : BOOLEAN]
           new == [stack |-> found, emitted |-> Len(table), dead |-> dead]
<1>2. new \in SeenSet
  BY DEF TypeOK
<1> HIDE DEF new
<1>3. seen' = Append(seen, new)
  BY DEF Arrive, new
<1>4. seen \in Seq(SeenSet)
  BY DEF TypeOK
<1> HIDE DEF SeenSet
<1>5. seen' \in Seq(SeenSet) /\ Len(seen') = Len(seen) + 1
  BY <1>2, <1>3, <1>4
<1>6. CellNum(peak) \in Nat
  BY CellNumNat
<1>7. maxCells' \in Nat
  BY <1>6 DEF Arrive, Peak, TypeOK
<1>8. stack' = st
  BY DEF Arrive
<1> QED
  BY <1>1, <1>5, <1>7, <1>8 DEF TypeOK, SeenSet, FlagsSet, LapseSet

(* A step that leaves the open blocks alone keeps them nested.             *)
LEMMA NestedSameBlocks ==
  ASSUME TypeOK, BlocksNested, stack' \in Seq(StackType),
         Depth >= 1 => Top.base <= Len(stack'),
         Len(blocks') = Len(blocks), \A d \in 1 .. Depth : blocks'[d].base = blocks[d].base
  PROVE  BlocksNested'
<1>1. Depth \in Nat /\ Depth' = Depth
  BY DEF Depth, TypeOK
<1>2. SUFFICES ASSUME NEW d \in 1 .. Depth
               PROVE  blocks'[d].base <= (IF d = Depth THEN Len(stack') ELSE blocks'[d + 1].base)
  BY <1>1 DEF BlocksNested
<1>3. CASE d = Depth
  BY <1>1, <1>2, <1>3 DEF Top
<1>4. CASE d # Depth
  <2>1. d + 1 \in 1 .. Depth /\ blocks[d].base <= blocks[d + 1].base
    BY <1>1, <1>2, <1>4 DEF BlocksNested
  <2> QED BY <2>1, <1>2, <1>4
<1> QED BY <1>3, <1>4

LEMMA RejectType ==
  ASSUME TypeOK, Reject
  PROVE  TypeOK' /\ BlocksNested'
<1>1. blocks' = <<>> /\ stack' = <<>> /\ table' = <<>> /\ code' = <<>> /\ seen' = <<>>
  BY DEF Reject
<1>2. BlocksNested'
  BY <1>1 DEF BlocksNested, Depth
<1>3. poly' \in FlagsSet /\ own' \in FlagsSet
  BY DEF Reject, FlagsSet
<1>4. maxCells' \in Nat /\ labels' = <<>> /\ retTypes' = <<>> /\ verdict' = "rejected"
      /\ lapses' = {}
  BY DEF Reject
<1> QED BY <1>1, <1>2, <1>3, <1>4 DEF TypeOK, FlagsSet

(* The instruction is read while a block is open.                          *)
LEMMA ReadingBased ==
  ASSUME TypeOK, BlocksNested, blocks # <<>>
  PROVE  Based(stack)
<1>1. blocks \in Seq(BlockSet) /\ Depth \in Nat \ {0}
  BY DEF Depth, TypeOK
<1>2. Top \in BlockSet
  BY <1>1 DEF Depth, Top
<1>3. Top.base <= Len(stack)
  BY <1>1 DEF BlocksNested, Top
<1> QED BY <1>1, <1>2, <1>3 DEF Based

(* Sequences of value types are operand stacks.                            *)
LEMMA ValueStack ==
  ASSUME NEW s \in Seq(ValueType)
  PROVE  s \in Seq(StackType)
BY DEF StackType

(* Instructions that only pop and push operands.                           *)
LEMMA OperateType ==
  ASSUME TypeOK, BlocksNested, blocks # <<>>,
         NEW instr \in InstrSet, NEW pop \in Seq(StackType), NEW push \in Seq(StackType),
         Operate(instr, pop, push)
  PROVE  TypeOK' /\ BlocksNested'
<1>1. CASE PopOk(stack, pop)
  <2>1. Based(stack) /\ stack \in Seq(StackType)
    BY ReadingBased DEF TypeOK
  <2> DEFINE st == AfterPop(stack, pop)
  <2>2. st \in Seq(StackType) /\ Top.base <= Len(st)
    BY <2>1, AfterPopType
  <2> DEFINE after == st \o push
  <2>3. after \in Seq(StackType) /\ Top.base <= Len(after)
    BY <2>1, <2>2 DEF Based, BlockSet
  <2>4. /\ Arrive(instr, stack, Dead(Depth), after, after)
        /\ Note(Stale(stack, pop))
        /\ UNCHANGED <<blocks, poly, own, table, brt, verdict>>
    BY <1>1 DEF Operate, Read, ReadPeak
  <2> HIDE DEF after
  <2>5. Dead(Depth) \in BOOLEAN
    BY DEF Dead
  <2>6. lapses' \subseteq LapseSet
    BY <2>4 DEF Note, Stale, LapseSet, TypeOK
  <2>7. TypeOK' /\ stack' = after
    BY <2>1, <2>3, <2>4, <2>5, <2>6, ArriveType DEF TypeOK, brt, FlagsSet
  <2>8. BlocksNested'
    BY <2>3, <2>4, <2>7, NestedSameBlocks
  <2> QED BY <2>7, <2>8
<1>2. CASE ~PopOk(stack, pop)
  BY <1>2, RejectType DEF Operate
<1> QED BY <1>1, <1>2

-----------------------------------------------------------------------------
(* What a branch to an open block does to the stack, the table and the     *)
(* blocks.                                                                 *)
LEMMA LabelType ==
  ASSUME TypeOK, NEW depth \in Nat, depth < Depth
  PROVE  /\ Depth - depth \in 1 .. Depth
         /\ blocks[Depth - depth] \in BlockSet
         /\ LabelTypes(depth) \in Seq(ValueType)
<1>1. Depth \in Nat /\ blocks \in Seq(BlockSet)
  BY DEF Depth, TypeOK
<1>2. Depth - depth \in 1 .. Depth
  BY <1>1
<1>3. blocks[Depth - depth] \in BlockSet
  BY <1>1, <1>2 DEF Depth
<1> QED BY <1>2, <1>3 DEF LabelTypes, BlockSet, FuncTypeSet

LEMMA CheckBrType ==
  ASSUME TypeOK, NEW st \in Seq(StackType), Based(st), NEW depth \in Nat, depth < Depth
  PROVE  /\ AfterCheckBr(st, depth) \in Seq(StackType)
         /\ Top.base <= Len(AfterCheckBr(st, depth))
<1>1. LabelTypes(depth) \in Seq(StackType)
  BY LabelType, ValueStack
<1>2. AfterPop(st, LabelTypes(depth)) \in Seq(StackType)
      /\ Top.base <= Len(AfterPop(st, LabelTypes(depth)))
  BY <1>1, AfterPopType
<1>3. Top.base \in Nat
  BY DEF Based, BlockSet
<1>4. CASE poly[Depth]
  BY <1>1, <1>2, <1>3, <1>4 DEF AfterCheckBr
<1>5. CASE ~poly[Depth]
  BY <1>5 DEF AfterCheckBr, Based
<1> QED BY <1>4, <1>5

LEMMA EntryType ==
  ASSUME NEW op \in {"if", "else", "br", "br_if", "br_table"},
         NEW pop \in Int, NEW push \in Nat
  PROVE  Entry(op, pop, push) \in EntrySet
BY DEF Entry, EntrySet

LEMMA EmitType ==
  ASSUME TypeOK, NEW st \in Seq(StackType), NEW depth \in Nat, depth < Depth,
         NEW op \in {"br", "br_if", "br_table"}, Emit(op, depth, st)
  PROVE  /\ table' \in Seq(EntrySet) /\ blocks' \in Seq(BlockSet)
         /\ Len(blocks') = Len(blocks)
         /\ \A d \in 1 .. Depth : blocks'[d].base = blocks[d].base
<1> DEFINE k == Depth - depth
           b == blocks[k]
           entry == Entry(op, CellNum(st) - b.cells, CellNum(b.type.result))
<1>1. k \in 1 .. Depth /\ b \in BlockSet
  BY LabelType
<1>2. b.type.result \in Seq(ValueType) /\ b.cells \in Nat
  BY <1>1 DEF BlockSet, FuncTypeSet
<1>3. entry \in EntrySet
  BY <1>2, CellNumNat, EntryType
<1>4. table' = Append(table, entry)
      /\ blocks' = [blocks EXCEPT ![k].queue = @ \cup {Len(table) + 1}]
  BY DEF Emit
<1> HIDE DEF entry
<1>5. table' \in Seq(EntrySet)
  BY <1>3, <1>4 DEF TypeOK
<1>6. blocks \in Seq(BlockSet) /\ Len(table) + 1 \in Nat
  BY DEF TypeOK
<1> DEFINE c == [b EXCEPT !.queue = @ \cup {Len(table) + 1}]
<1>7. c \in BlockSet /\ c.base = b.base
  BY <1>1, <1>6 DEF BlockSet
<1>8. blocks' = [blocks EXCEPT ![k] = c]
  BY <1>1, <1>4, <1>6
<1> HIDE DEF k, c
<1>9. blocks' \in Seq(BlockSet) /\ Len(blocks') = Len(blocks)
  BY <1>1, <1>6, <1>7, <1>8 DEF Depth
<1>10. \A d \in 1 .. Depth : blocks'[d].base = blocks[d].base
  BY <1>1, <1>6, <1>7, <1>8 DEF Depth
<1> QED BY <1>5, <1>9, <1>10

(* RESET_STACK.                                                            *)
LEMMA BlockBaseType ==
  ASSUME TypeOK, Based(stack)
  PROVE  BlockBase \in Seq(StackType) /\ Len(BlockBase) = Top.base
<1>1. Top.base \in 0 .. Len(stack) /\ stack \in Seq(StackType)
  BY DEF Based, BlockSet, TypeOK
<1> QED BY <1>1, PrefixType DEF BlockBase

(* SET_CUR_BLOCK_STACK_POLYMORPHIC_STATE.                                  *)
LEMMA SetPolyType ==
  ASSUME TypeOK, NEW flag \in BOOLEAN, SetPoly(flag)
  PROVE  poly' \in FlagsSet /\ own' \in FlagsSet
BY DEF SetPoly, TypeOK, FlagsSet

(* What the history records.                                               *)
LEMMA LapseType ==
  /\ \A st, types : Stale(st, types) \subseteq LapseSet
  /\ \A st, depth : BranchLapse(st, depth) \subseteq LapseSet
  /\ BlockLapse \subseteq LapseSet
BY DEF Stale, BranchLapse, BlockLapse, LapseSet

LEMMA NoteType ==
  ASSUME TypeOK, NEW found \in SUBSET LapseSet, Note(found)
  PROVE  lapses' \subseteq LapseSet
BY DEF Note, TypeOK, LapseSet

LEMMA DeadType ==
  ASSUME NEW d
  PROVE  Dead(d) \in BOOLEAN
BY DEF Dead

-----------------------------------------------------------------------------
(* The actions, one lemma each.  TypeInv is inductive: without the nesting *)
(* of the blocks, RESET_STACK could reach beyond the operands.             *)
TypeInv == TypeOK /\ BlocksNested

(* Actions that end the flow of the current block.                         *)
LEMMA ResetType ==
  ASSUME TypeInv, blocks # <<>>, NEW instr \in InstrSet, NEW peak \in Seq(StackType),
         ReadPeak(instr, peak, BlockBase), SetPoly(TRUE),
         blocks' \in Seq(BlockSet), table' \in Seq(EntrySet),
         Len(blocks') = Len(blocks), \A d \in 1 .. Depth : blocks'[d].base = blocks[d].base,
         lapses' \subseteq LapseSet, UNCHANGED <<brt, verdict>>
  PROVE  TypeInv'
<1>1. Based(stack)
  BY ReadingBased DEF TypeInv
<1>2. BlockBase \in Seq(StackType) /\ Len(BlockBase) = Top.base
  BY <1>1, BlockBaseType DEF TypeInv
<1>3. Arrive(instr, stack, Dead(Depth), peak, BlockBase)
  BY DEF ReadPeak
<1>4. TypeOK' /\ stack' = BlockBase
  BY <1>2, <1>3, ArriveType, DeadType, SetPolyType, ZenonT(40) DEF TypeInv, TypeOK, brt
<1>5. Top.base <= Len(stack') /\ stack' \in Seq(StackType)
  BY <1>1, <1>2, <1>4 DEF Based, BlockSet
<1> QED BY <1>4, <1>5, NestedSameBlocks DEF TypeInv

LEMMA UnreachableType == TypeInv /\ Unreachable => TypeInv'
<1> SUFFICES ASSUME TypeInv, Unreachable PROVE TypeInv'
  OBVIOUS
<1> DEFINE instr == [op |-> "unreachable"]
<1>1. instr \in InstrSet
  BY DEF InstrSet
<1>2. blocks # <<>> /\ BlockBase \in Seq(StackType)
  BY ReadingBased, BlockBaseType DEF TypeInv, Unreachable, Reading
<1>3. /\ ReadPeak(instr, BlockBase, BlockBase) /\ SetPoly(TRUE)
      /\ UNCHANGED <<blocks, table, brt, verdict, lapses>>
  BY DEF Unreachable, Read
<1> HIDE DEF instr
<1> QED
  BY <1>1, <1>2, <1>3, ResetType DEF TypeInv, TypeOK, LapseSet

LEMMA ReturnType == TypeInv /\ Return => TypeInv'
<1> SUFFICES ASSUME TypeInv, Return PROVE TypeInv'
  OBVIOUS
<1>1. CASE PopOk(stack, FuncType.result)
  <2> DEFINE instr == [op |-> "return"]
  <2>1. instr \in InstrSet
    BY DEF InstrSet
  <2>2. blocks # <<>> /\ BlockBase \in Seq(StackType)
    BY ReadingBased, BlockBaseType DEF TypeInv, Return, Reading
  <2>3. /\ ReadPeak(instr, BlockBase, BlockBase) /\ SetPoly(TRUE)
        /\ Note(Stale(stack, FuncType.result))
        /\ UNCHANGED <<blocks, table, brt, verdict>>
    BY <1>1 DEF Return, Read
  <2> HIDE DEF instr
  <2>4. lapses' \subseteq LapseSet
    BY <2>3, LapseType, NoteType DEF TypeInv
  <2> QED BY <2>1, <2>2, <2>3, <2>4, ResetType DEF TypeInv, TypeOK
<1>2. CASE ~PopOk(stack, FuncType.result)
  BY <1>2, RejectType DEF Return, TypeInv
<1> QED BY <1>1, <1>2

LEMMA BrType == ASSUME NEW depth \in Nat PROVE TypeInv /\ Br(depth) => TypeInv'
<1> SUFFICES ASSUME TypeInv, Br(depth) PROVE TypeInv'
  OBVIOUS
<1>1. CASE CheckBr(stack, depth)
  <2> DEFINE instr == [op |-> "br"]
             st == AfterCheckBr(stack, depth)
  <2>1. instr \in InstrSet
    BY DEF InstrSet
  <2>2. blocks # <<>> /\ depth < Depth /\ stack \in Seq(StackType)
    BY <1>1 DEF TypeInv, TypeOK, Br, Reading, CheckBr
  <2>3. Based(stack) /\ st \in Seq(StackType)
    BY <2>2, ReadingBased, CheckBrType DEF TypeInv
  <2>4. /\ ReadPeak(instr, st, BlockBase) /\ SetPoly(TRUE)
        /\ Emit("br", depth, st) /\ Note(BranchLapse(stack, depth))
        /\ UNCHANGED <<brt, verdict>>
    BY <1>1 DEF Br
  <2> HIDE DEF instr, st
  <2>5. /\ table' \in Seq(EntrySet) /\ blocks' \in Seq(BlockSet)
        /\ Len(blocks') = Len(blocks)
        /\ \A d \in 1 .. Depth : blocks'[d].base = blocks[d].base
    BY <2>2, <2>3, <2>4, EmitType DEF TypeInv
  <2>6. lapses' \subseteq LapseSet
    BY <2>4, LapseType, NoteType DEF TypeInv
  <2> QED BY <2>1, <2>2, <2>3, <2>4, <2>5, <2>6, ResetType
<1>2. CASE ~CheckBr(stack, depth)
  BY <1>2, RejectType DEF Br, TypeInv
<1> QED BY <1>1, <1>2

(* Actions that leave an operand stack above the base and the flags alone. *)
LEMMA KeepType ==
  ASSUME TypeInv, blocks # <<>>, NEW instr \in InstrSet, NEW st \in Seq(StackType),
         Read(instr, st), Top.base <= Len(st),
         blocks' \in Seq(BlockSet), table' \in Seq(EntrySet),
         Len(blocks') = Len(blocks), \A d \in 1 .. Depth : blocks'[d].base = blocks[d].base,
         labels' \in Seq(Nat), retTypes' \in Seq(Seq(ValueType)),
         lapses' \subseteq LapseSet, UNCHANGED <<poly, own, verdict>>
  PROVE  TypeInv'
<1>1. Arrive(instr, stack, Dead(Depth), st, st)
  BY DEF Read, ReadPeak
<1>2. TypeOK' /\ stack' = st
  BY <1>1, ArriveType, DeadType DEF TypeInv, TypeOK, FlagsSet
<1> QED BY <1>2, NestedSameBlocks DEF TypeInv

LEMMA I32Stack == <<"I32">> \in Seq(StackType)
BY DEF StackType, ValueType

LEMMA BrIfType == ASSUME NEW depth \in Nat PROVE TypeInv /\ BrIf(depth) => TypeInv'
<1> SUFFICES ASSUME TypeInv, BrIf(depth) PROVE TypeInv'
  OBVIOUS
<1> DEFINE st == AfterPop(stack, <<"I32">>)
           after == AfterCheckBr(st, depth)
           instr == [op |-> "br_if"]
<1>1. CASE PopOk(stack, <<"I32">>) /\ CheckBr(st, depth)
  <2>1. instr \in InstrSet
    BY DEF InstrSet
  <2>2. blocks # <<>> /\ depth < Depth /\ stack \in Seq(StackType)
    BY <1>1 DEF TypeInv, TypeOK, BrIf, Reading, CheckBr
  <2>3. Based(stack)
    BY <2>2, ReadingBased DEF TypeInv
  <2>4. st \in Seq(StackType) /\ Based(st)
    BY <2>2, <2>3, AfterPopType, I32Stack DEF Based
  <2>5. after \in Seq(StackType) /\ Top.base <= Len(after)
    BY <2>2, <2>4, CheckBrType DEF TypeInv
  <2>6. /\ Emit("br_if", depth, after) /\ Read(instr, after)
        /\ Note(Stale(stack, <<"I32">>) \cup BranchLapse(st, depth))
        /\ UNCHANGED <<poly, own, brt, verdict>>
    BY <1>1 DEF BrIf
  <2> HIDE DEF instr, st, after
  <2>7. /\ table' \in Seq(EntrySet) /\ blocks' \in Seq(BlockSet)
        /\ Len(blocks') = Len(blocks)
        /\ \A d \in 1 .. Depth : blocks'[d].base = blocks[d].base
    BY <2>2, <2>5, <2>6, EmitType DEF TypeInv
  <2>8. lapses' \subseteq LapseSet
    BY <2>6, LapseType, NoteType DEF TypeInv
  <2>9. labels' \in Seq(Nat) /\ retTypes' \in Seq(Seq(ValueType))
    BY <2>6 DEF TypeInv, TypeOK, brt
  <2> QED BY <2>1, <2>2, <2>5, <2>6, <2>7, <2>8, <2>9, KeepType
<1>2. CASE ~(PopOk(stack, <<"I32">>) /\ CheckBr(st, depth))
  BY <1>2, RejectType DEF BrIf, TypeInv
<1> QED BY <1>1, <1>2

LEMMA BrTableType == ASSUME NEW targets \in JumpTables PROVE TypeInv /\ BrTable(targets) => TypeInv'
<1> SUFFICES ASSUME TypeInv, BrTable(targets) PROVE TypeInv'
  OBVIOUS
<1> DEFINE st == AfterPop(stack, <<"I32">>)
           instr == [op |-> "br_table", count |-> Len(targets) - 1]
<1>1. CASE PopOk(stack, <<"I32">>)
  <2>1. targets \in Seq(Nat) /\ Len(targets) - 1 \in Nat
    BY ValidatorAssumption
  <2>2. instr \in InstrSet
    BY <2>1 DEF InstrSet
  <2>3. blocks # <<>> /\ stack \in Seq(StackType)
    BY DEF TypeInv, TypeOK, BrTable, Reading
  <2>4. Based(stack)
    BY <2>3, ReadingBased DEF TypeInv
  <2>5. st \in Seq(StackType) /\ Top.base <= Len(st)
    BY <2>3, <2>4, AfterPopType, I32Stack
  <2>6. /\ Read(instr, st) /\ Note(Stale(stack, <<"I32">>))
        /\ labels' = targets /\ retTypes' = <<>>
        /\ UNCHANGED <<blocks, poly, own, table, verdict>>
    BY <1>1 DEF BrTable
  <2> HIDE DEF instr, st
  <2>7. lapses' \subseteq LapseSet
    BY <2>6, LapseType, NoteType DEF TypeInv
  <2>8. /\ blocks' \in Seq(BlockSet) /\ table' \in Seq(EntrySet)
        /\ labels' \in Seq(Nat) /\ retTypes' \in Seq(Seq(ValueType))
    BY <2>1, <2>6 DEF TypeInv, TypeOK
  <2>9. /\ Len(blocks') = Len(blocks)
        /\ \A d \in 1 .. Depth : blocks'[d].base = blocks[d].base
    BY <2>6
  <2> QED BY <2>2, <2>3, <2>5, <2>6, <2>7, <2>8, <2>9, KeepType
<1>2. CASE ~PopOk(stack, <<"I32">>)
  BY <1>2, RejectType DEF BrTable, TypeInv
<1> QED BY <1>1, <1>2

(* A label of a BR_TABLE emits an entry but reads no instruction.          *)
LEMMA BrTableLabelType == TypeInv /\ BrTableLabel => TypeInv'
<1> SUFFICES ASSUME TypeInv, BrTableLabel PROVE TypeInv'
  OBVIOUS
<1>0. blocks # <<>>
  BY DEF BrTableLabel
<1> DEFINE depth == labels[1]
           st    == AfterCheckBr(stack, depth)
           types == TableTypes(blocks[Depth - depth])
<1>1. CASE CheckBr(stack, depth) /\ retTypes \in {<<>>, <<types>>}
  <2>1. depth \in Nat /\ depth < Depth /\ stack \in Seq(StackType)
    BY <1>1 DEF TypeInv, TypeOK, BrTableLabel, CheckBr
  <2>2. Based(stack)
    BY <1>0, ReadingBased DEF TypeInv
  <2>3. st \in Seq(StackType) /\ Top.base <= Len(st)
    BY <2>1, <2>2, CheckBrType DEF TypeInv
  <2>4. BlockBase \in Seq(StackType) /\ Len(BlockBase) = Top.base
    BY <2>2, BlockBaseType DEF TypeInv
  <2>5. types \in Seq(ValueType)
    <3>1. blocks[Depth - depth] \in BlockSet
      BY <2>1, LabelType DEF TypeInv
    <3>2. blocks[Depth - depth].type.result \in Seq(ValueType)
      BY <3>1 DEF BlockSet, FuncTypeSet
    <3> QED BY <3>2 DEF TableTypes
  <2>6. /\ Emit("br_table", depth, st) /\ Note(BranchLapse(stack, depth))
        /\ labels' = Tail(labels) /\ retTypes' = <<types>>
        /\ \/ stack' = BlockBase /\ SetPoly(TRUE)
           \/ stack' = st /\ UNCHANGED <<poly, own>>
        /\ Peak(st) /\ UNCHANGED <<code, verdict, seen>>
    BY <1>1 DEF BrTableLabel
  <2>7. labels # <<>> /\ labels' \in Seq(Nat)
    BY <2>6 DEF BrTableLabel, TypeInv, TypeOK
  <2> HIDE DEF depth, st, types
  <2>8. /\ table' \in Seq(EntrySet) /\ blocks' \in Seq(BlockSet)
        /\ Len(blocks') = Len(blocks)
        /\ \A d \in 1 .. Depth : blocks'[d].base = blocks[d].base
    BY <2>1, <2>3, <2>6, EmitType DEF TypeInv
  <2>9. lapses' \subseteq LapseSet
    BY <2>6, LapseType, NoteType DEF TypeInv
  <2>10. stack' \in Seq(StackType) /\ Top.base <= Len(stack')
    <3>1. Top.base \in Nat
      BY <2>2 DEF Based, BlockSet
    <3>2. stack' = BlockBase \/ stack' = st
      BY <2>6
    <3> QED BY <2>3, <2>4, <3>1, <3>2
  <2>11. poly' \in FlagsSet /\ own' \in FlagsSet
    BY <2>6, SetPolyType DEF TypeInv, TypeOK, FlagsSet
  <2>12. maxCells' \in Nat
    BY <2>3, <2>6, CellNumNat DEF Peak, TypeInv, TypeOK
  <2>13. retTypes' \in Seq(Seq(ValueType))
    BY <2>5, <2>6
  <2>14. TypeOK'
    BY <2>6, <2>7, <2>8, <2>9, <2>10, <2>11, <2>12, <2>13
       DEF TypeInv, TypeOK, FlagsSet, LapseSet
  <2> QED BY <2>8, <2>10, <2>14, NestedSameBlocks DEF TypeInv
<1>2. CASE ~(CheckBr(stack, depth) /\ retTypes \in {<<>>, <<types>>})
  BY <1>2, RejectType DEF BrTableLabel, TypeInv
<1> QED BY <1>1, <1>2

(* A new block's base is the height of the operands below its parameters.  *)
LEMMA OpenBlockType ==
  ASSUME NEW label \in {"block", "loop", "if"}, NEW type \in BlockTypes
  PROVE  TypeInv /\ OpenBlock(label, type) => TypeInv'
<1> SUFFICES ASSUME TypeInv, OpenBlock(label, type) PROVE TypeInv'
  OBVIOUS
<1> DEFINE pop   == IF label = "if" THEN Append(type.param, "I32") ELSE type.param
           below == AfterPop(stack, pop)
           block == NewBlock(label, type, below, Len(code) + 2)
           queued == [block EXCEPT !.queue = {Len(table) + 1}]
           instr == [op |-> label, type |-> type]
           after == below \o type.param
<1>1. CASE PopOk(stack, pop)
  <2>1. type \in FuncTypeSet /\ type.param \in Seq(ValueType)
    BY ValidatorAssumption DEF FuncTypeSet
  <2>2. pop \in Seq(StackType) /\ type.param \in Seq(StackType)
    BY <2>1, ValueStack DEF StackType, ValueType
  <2>3. stack \in Seq(StackType) /\ blocks # <<>> /\ Based(stack)
    BY ReadingBased DEF TypeInv, TypeOK, OpenBlock, Reading
  <2>4. below \in Seq(StackType) /\ Top.base <= Len(below)
    BY <2>2, <2>3, AfterPopType
  <2>5. after \in Seq(StackType) /\ Len(below) <= Len(after)
    <3> HIDE DEF below
    <3>1. /\ after \in Seq(StackType)
          /\ Len(after) = Len(below) + Len(type.param)
      BY <2>2, <2>4, ConcatProperties
    <3>2. Len(below) \in Nat /\ Len(type.param) \in Nat
      BY <2>2, <2>4
    <3> QED BY <3>1, <3>2
  <2>6. instr \in InstrSet
    BY <2>1 DEF InstrSet
  <2>7. block \in BlockSet /\ queued \in BlockSet /\ block.base = Len(below)
        /\ queued.base = Len(below)
    <3> HIDE DEF below
    <3>1. Len(below) \in Nat /\ CellNum(below) \in Nat
      BY <2>4, CellNumNat
    <3>2. Len(code) + 2 \in Nat /\ Len(table) \in Nat
      BY DEF TypeInv, TypeOK
    <3>3. label \in Label /\ {} \in SUBSET Nat /\ {Len(table) + 1} \in SUBSET Nat
      BY <3>2 DEF Label
    <3> QED BY <2>1, <3>1, <3>2, <3>3 DEF NewBlock, BlockSet
  <2>8. /\ Read(instr, after) /\ Note(Stale(stack, pop))
        /\ own' = [own EXCEPT ![Depth + 1] = FALSE]
        /\ \/ /\ table' = Append(table, Entry("if", 0, 0))
              /\ blocks' = Append(blocks, queued)
           \/ /\ blocks' = Append(blocks, block)
              /\ UNCHANGED table
        /\ UNCHANGED <<poly, brt, verdict>>
    BY <1>1 DEF OpenBlock
  <2> HIDE DEF pop, below, block, queued, instr, after
  <2>9. table' \in Seq(EntrySet)
    <3>1. Entry("if", 0, 0) \in EntrySet
      BY EntryType
    <3>2. table \in Seq(EntrySet)
      BY DEF TypeInv, TypeOK
    <3> QED BY <2>8, <3>1, <3>2
  <2>10. PICK new \in BlockSet : blocks' = Append(blocks, new) /\ new.base = Len(below)
    BY <2>7, <2>8
  <2>11. blocks' \in Seq(BlockSet)
    BY <2>10 DEF TypeInv, TypeOK
  <2>12. lapses' \subseteq LapseSet
    BY <2>8, LapseType, NoteType DEF TypeInv
  <2>13. own' \in FlagsSet /\ poly' \in FlagsSet
    BY <2>8 DEF TypeInv, TypeOK, FlagsSet
  <2>14. Arrive(instr, stack, Dead(Depth), after, after)
    BY <2>8 DEF Read, ReadPeak
  <2>15. TypeOK' /\ stack' = after
    <3>1. /\ labels' \in Seq(Nat) /\ retTypes' \in Seq(Seq(ValueType))
          /\ verdict' \in {"running", "accepted", "rejected"}
      BY <2>8 DEF TypeInv, TypeOK, brt
    <3>2. TypeOK /\ Dead(Depth) \in BOOLEAN
      BY DeadType DEF TypeInv
    <3> QED BY <2>3, <2>5, <2>6, <2>9, <2>11, <2>12, <2>13, <2>14, <3>1, <3>2, ArriveType
  <2>16. BlocksNested'
    <3>1. Depth \in Nat \ {0} /\ Depth' = Depth + 1
      BY <2>3, <2>10 DEF Depth, Based, TypeInv, TypeOK
    <3>2. blocks'[Depth + 1].base = Len(below)
      BY <2>10 DEF Depth, TypeInv, TypeOK
    <3>3. \A d \in 1 .. Depth : blocks'[d] = blocks[d]
      BY <2>10 DEF Depth, TypeInv, TypeOK
    <3>4. ASSUME NEW d \in 1 .. Depth, d # Depth
          PROVE  blocks'[d].base <= blocks'[d + 1].base
      <4>1. d + 1 \in 1 .. Depth /\ blocks[d].base <= blocks[d + 1].base
        BY <3>1, <3>4 DEF TypeInv, BlocksNested
      <4> QED BY <4>1, <3>3
    <3>5. blocks'[Depth].base <= blocks'[Depth + 1].base
      BY <3>1, <3>2, <3>3, <2>4 DEF Top
    <3> QED BY <3>1, <3>2, <3>4, <3>5, <2>5, <2>15 DEF BlocksNested
  <2> QED BY <2>15, <2>16 DEF TypeInv
<1>2. CASE ~PopOk(stack, pop)
  BY <1>2, RejectType DEF OpenBlock, TypeInv
<1> QED BY <1>1, <1>2

(* Types of the current block.                                             *)
LEMMA TopTypes ==
  ASSUME Based(stack)
  PROVE  /\ Top.type.param \in Seq(StackType) /\ Top.type.result \in Seq(StackType)
         /\ Top.base \in Nat
BY ValueStack DEF Based, BlockSet, FuncTypeSet

LEMMA AfterCheckBlockType ==
  ASSUME TypeOK, Based(stack)
  PROVE  /\ AfterCheckBlock \in Seq(StackType)
         /\ Top.base <= Len(AfterCheckBlock)
<1>1. BlockBase \in Seq(StackType) /\ Len(BlockBase) = Top.base
  BY BlockBaseType
<1>2. Top.type.result \in Seq(StackType) /\ Top.base \in Nat
  BY TopTypes
<1>3. /\ BlockBase \o Top.type.result \in Seq(StackType)
      /\ Len(BlockBase \o Top.type.result) = Len(BlockBase) + Len(Top.type.result)
  BY <1>1, <1>2, ConcatProperties
<1>4. Len(Top.type.result) \in Nat
  BY <1>2
<1>5. CASE poly[Depth]
  BY <1>1, <1>2, <1>3, <1>4, <1>5 DEF AfterCheckBlock
<1>6. CASE ~poly[Depth]
  BY <1>6 DEF AfterCheckBlock, Based, TypeOK
<1> QED BY <1>5, <1>6

LEMMA ElseType == TypeInv /\ Else => TypeInv'
<1> SUFFICES ASSUME TypeInv, Else PROVE TypeInv'
  OBVIOUS
<1>1. CASE Depth >= 2 /\ Top.label = "if" /\ CheckBlock
  <2> DEFINE after == BlockBase \o Top.type.param
             peak  == IF CellNum(Top.type.param) > CellNum(Top.type.result)
                      THEN after ELSE AfterCheckBlock
             instr == [op |-> "else"]
             next  == [Top EXCEPT !.elseIp  = Len(code) + 2,
                                  !.elseIdx = Len(table),
                                  !.queue   = @ \cup {Len(table) + 1}]
  <2>1. blocks # <<>> /\ Based(stack) /\ TypeOK
    BY ReadingBased DEF TypeInv, Else, Reading
  <2>2. BlockBase \in Seq(StackType) /\ Len(BlockBase) = Top.base
    BY <2>1, BlockBaseType
  <2>3. Top.type.param \in Seq(StackType) /\ Top.base \in Nat
    BY <2>1, TopTypes
  <2>4. after \in Seq(StackType) /\ Len(after) = Len(BlockBase) + Len(Top.type.param)
    BY <2>2, <2>3, ConcatProperties
  <2>5. Top.base <= Len(after)
    <3>1. Len(Top.type.param) \in Nat
      BY <2>3
    <3> QED BY <2>2, <2>3, <2>4, <3>1
  <2>6. peak \in Seq(StackType)
    BY <2>1, <2>4, AfterCheckBlockType
  <2>7. instr \in InstrSet
    BY DEF InstrSet
  <2>8. Top \in BlockSet /\ Depth \in 1 .. Len(blocks) /\ blocks \in Seq(BlockSet)
    BY <2>1 DEF Based, TypeOK, Depth
  <2>9. next \in BlockSet /\ next.base = Top.base
    <3>1. Len(code) + 2 \in Nat /\ Len(table) \in Nat /\ Len(table) + 1 \in Nat
      BY <2>1 DEF TypeOK
    <3> QED BY <2>8, <3>1 DEF BlockSet
  <2>10. /\ Arrive(instr, stack, Dead(Depth), peak, after)
         /\ Note(BlockLapse) /\ SetPoly(FALSE)
         /\ table' = Append(table, Entry("else", 0, 0))
         /\ UNCHANGED <<brt, verdict>>
    BY <1>1 DEF Else, ReadPeak
  <2>11. blocks' = [blocks EXCEPT ![Depth] = next]
    BY <1>1, <2>8 DEF Else, Top
  <2> HIDE DEF after, peak, instr, next
  <2>12. /\ blocks' \in Seq(BlockSet) /\ Len(blocks') = Len(blocks)
         /\ \A d \in 1 .. Depth : blocks'[d].base = blocks[d].base
    BY <2>8, <2>9, <2>11 DEF Depth, Top
  <2>13. table' \in Seq(EntrySet)
    <3>1. Entry("else", 0, 0) \in EntrySet
      BY EntryType
    <3> QED BY <2>1, <2>10, <3>1 DEF TypeOK
  <2>14. /\ labels' \in Seq(Nat) /\ retTypes' \in Seq(Seq(ValueType))
         /\ verdict' \in {"running", "accepted", "rejected"}
    BY <2>1, <2>10 DEF TypeOK, brt
  <2>15. lapses' \subseteq LapseSet
    BY <2>1, <2>10, LapseType, NoteType
  <2>16. poly' \in FlagsSet /\ own' \in FlagsSet
    BY <2>1, <2>10, SetPolyType
  <2>17. stack \in Seq(StackType) /\ Dead(Depth) \in BOOLEAN
    BY <2>1, DeadType DEF TypeOK
  <2>18. TypeOK' /\ stack' = after
    BY <2>1, <2>4, <2>6, <2>7, <2>10, <2>12, <2>13, <2>14, <2>15, <2>16, <2>17, ArriveType
  <2> QED BY <2>1, <2>4, <2>5, <2>12, <2>18, NestedSameBlocks DEF TypeInv
<1>2. CASE ~(Depth >= 2 /\ Top.label = "if" /\ CheckBlock)
  BY <1>2, RejectType DEF Else, TypeInv
<1> QED BY <1>1, <1>2

(* Where the entries of a block end up.                                    *)
LEMMA ResolveType ==
  ASSUME NEW entry \in EntrySet, NEW b \in BlockSet, NEW end \in Nat, TypeOK
  PROVE  Resolve(entry, b, end) \in EntrySet
<1> DEFINE target == IF entry.op = "if"       THEN [ip |-> b.elseIp, idx |-> b.elseIdx]
                     ELSE IF b.label = "loop" THEN [ip |-> b.start,  idx |-> b.endIdx]
                     ELSE [ip |-> end, idx |-> Len(table)]
<1>1. Len(table) \in Nat
  BY DEF TypeOK
<1>2. target.ip \in Nat /\ target.idx \in Nat
  BY <1>1 DEF BlockSet
<1>3. Resolve(entry, b, end)
        = [entry EXCEPT !.resolved = TRUE, !.ip = target.ip, !.idx = target.idx]
  BY DEF Resolve
<1> HIDE DEF target
<1> QED BY <1>2, <1>3 DEF EntrySet

LEMMA EndType == TypeInv /\ End => TypeInv'
<1> SUFFICES ASSUME TypeInv, End PROVE TypeInv'
  OBVIOUS
<1> DEFINE end == Len(code) + 1
           b == IF NoElse THEN [Top EXCEPT !.elseIp = end, !.elseIdx = Len(table)] ELSE Top
           dead == Dead(IF Top.label = "loop" THEN Depth ELSE Depth - 1)
           instr == [op |-> "end"]
           after == AfterCheckBlock
<1>1. CASE CheckBlock /\ (NoElse => Top.type.param = Top.type.result)
  <2>1. blocks # <<>> /\ Based(stack) /\ TypeOK
    BY ReadingBased DEF TypeInv, End, Reading
  <2>2. end \in Nat /\ Len(table) \in Nat /\ table \in Seq(EntrySet)
    BY <2>1 DEF TypeOK
  <2>3. Top \in BlockSet /\ Depth \in Nat \ {0} /\ blocks \in Seq(BlockSet)
    BY <2>1 DEF Based, TypeOK
  <2>4. b \in BlockSet
    BY <2>2, <2>3 DEF BlockSet
  <2>5. after \in Seq(StackType) /\ Top.base <= Len(after)
    BY <2>1, AfterCheckBlockType
  <2>6. instr \in InstrSet
    BY DEF InstrSet
  <2>7. /\ Arrive(instr, after, dead, after, after) /\ Note(BlockLapse)
        /\ table' = [k \in DOMAIN table |->
                       IF k \in b.queue THEN Resolve(table[k], b, end) ELSE table[k]]
        /\ blocks' = SubSeq(blocks, 1, Depth - 1)
        /\ verdict' \in {"accepted", verdict}
        /\ UNCHANGED <<poly, own, brt>>
    BY <1>1 DEF End
  <2>8. dead \in BOOLEAN
    BY DeadType
  <2> HIDE DEF end, b, dead, instr, after
  <2>9. table' \in Seq(EntrySet)
    <3>1. \A k \in 1 .. Len(table) : table[k] \in EntrySet
      BY <2>2
    <3>2. \A k \in 1 .. Len(table) : Resolve(table[k], b, end) \in EntrySet
      BY <2>1, <2>2, <2>4, <3>1, ResolveType
    <3>3. DOMAIN table = 1 .. Len(table)
      BY <2>2
    <3> QED BY <2>2, <2>7, <3>1, <3>2, <3>3
  <2>10. /\ blocks' \in Seq(BlockSet) /\ Len(blocks') = Depth - 1
         /\ \A d \in 1 .. Depth - 1 : blocks'[d] = blocks[d]
    <3>1. Depth - 1 \in 0 .. Len(blocks)
      BY <2>3 DEF Depth
    <3>2. SubSeq(blocks, 1, Depth - 1) \in Seq(BlockSet)
          /\ Len(SubSeq(blocks, 1, Depth - 1)) = Depth - 1
      BY <2>3, <3>1, PrefixType
    <3>3. \A d \in 1 .. Depth - 1 : SubSeq(blocks, 1, Depth - 1)[d] = blocks[d]
      BY <2>3, <3>1
    <3> QED BY <2>7, <3>2, <3>3
  <2>11. /\ labels' \in Seq(Nat) /\ retTypes' \in Seq(Seq(ValueType))
         /\ verdict' \in {"running", "accepted", "rejected"}
         /\ poly' \in FlagsSet /\ own' \in FlagsSet
    BY <2>1, <2>7 DEF TypeOK, brt, FlagsSet
  <2>12. lapses' \subseteq LapseSet
    BY <2>1, <2>7, LapseType, NoteType
  <2>13. TypeOK' /\ stack' = after
    BY <2>1, <2>5, <2>6, <2>7, <2>8, <2>9, <2>10, <2>11, <2>12, ArriveType
  <2>14. BlocksNested'
    <3>1. Depth' = Depth - 1
      BY <2>10 DEF Depth
    <3>2. ASSUME NEW d \in 1 .. Depth - 1
          PROVE  /\ d \in 1 .. Depth /\ d + 1 \in 1 .. Depth
                 /\ blocks[d].base <= blocks[d + 1].base
                 /\ blocks[d].base \in Nat /\ blocks[d + 1].base \in Nat
      <4>1. d \in 1 .. Depth /\ d + 1 \in 1 .. Depth /\ d # Depth
        BY <2>3, <3>2
      <4>2. blocks[d] \in BlockSet /\ blocks[d + 1] \in BlockSet
        BY <2>3, <4>1 DEF Depth
      <4>3. blocks[d].base <= blocks[d + 1].base
        BY <4>1 DEF TypeInv, BlocksNested
      <4> QED BY <4>1, <4>2, <4>3 DEF BlockSet
    <3>3. ASSUME NEW d \in 1 .. Depth - 1, d # Depth - 1
          PROVE  blocks'[d].base <= blocks'[d + 1].base
      <4>1. d + 1 \in 1 .. Depth - 1
        BY <2>3, <3>3
      <4> QED BY <2>10, <3>2, <4>1
    <3>4. ASSUME NEW d \in 1 .. Depth - 1, d = Depth - 1
          PROVE  blocks'[d].base <= Len(stack')
      <4>1. d + 1 = Depth /\ blocks[d].base <= Top.base /\ Top.base \in Nat
        BY <2>3, <3>2, <3>4 DEF Top
      <4>2. Len(after) \in Nat /\ blocks[d].base \in Nat
        BY <2>5, <3>2
      <4> QED BY <2>5, <2>10, <2>13, <4>1, <4>2
    <3> QED BY <3>1, <3>3, <3>4 DEF BlocksNested
  <2> QED BY <2>13, <2>14 DEF TypeInv
<1>2. CASE ~(CheckBlock /\ (NoElse => Top.type.param = Top.type.result))
  BY <1>2, RejectType DEF End, TypeInv
<1> QED BY <1>1, <1>2

(* Instructions that only move operands.                                   *)
LEMMA TopTypeType ==
  ASSUME NEW st \in Seq(StackType)
  PROVE  TopType(st) \in StackType
<1>1. CASE st = <<>>
  BY <1>1 DEF TopType, StackType
<1>2. CASE st # <<>>
  BY <1>2 DEF TopType
<1> QED BY <1>1, <1>2

LEMMA NopType == TypeInv /\ Nop => TypeInv'
<1> SUFFICES ASSUME TypeInv, Nop PROVE TypeInv'
  OBVIOUS
<1>1. [op |-> "nop"] \in InstrSet /\ <<>> \in Seq(StackType)
  BY DEF InstrSet
<1>2. blocks # <<>> /\ Operate([op |-> "nop"], <<>>, <<>>)
  BY DEF Nop, Reading
<1> QED BY <1>1, <1>2, OperateType DEF TypeInv

LEMMA FuncsType == Funcs \in Seq(FuncTypeSet) /\ Len(Funcs) \in Nat
BY ValidatorAssumption DEF Funcs

LEMMA CallType == ASSUME NEW f \in Nat PROVE TypeInv /\ Call(f) => TypeInv'
<1> SUFFICES ASSUME TypeInv, Call(f) PROVE TypeInv'
  OBVIOUS
<1>1. CASE f < Len(Funcs)
  <2>1. Funcs[f + 1] \in FuncTypeSet
    BY <1>1, FuncsType
  <2>2. Funcs[f + 1].param \in Seq(StackType) /\ Funcs[f + 1].result \in Seq(StackType)
    BY <2>1, ValueStack DEF FuncTypeSet
  <2>3. [op |-> "call", func |-> f] \in InstrSet
    BY DEF InstrSet
  <2>4. /\ blocks # <<>>
        /\ Operate([op |-> "call", func |-> f], Funcs[f + 1].param, Funcs[f + 1].result)
    BY <1>1 DEF Call, Reading
  <2> QED BY <2>2, <2>3, <2>4, OperateType DEF TypeInv
<1>2. CASE ~(f < Len(Funcs))
  BY <1>2, RejectType DEF Call, TypeInv
<1> QED BY <1>1, <1>2

LEMMA CallIndirectType == ASSUME NEW t \in Nat PROVE TypeInv /\ CallIndirect(t) => TypeInv'
<1> SUFFICES ASSUME TypeInv, CallIndirect(t) PROVE TypeInv'
  OBVIOUS
<1>1. CASE HasTable /\ t < Len(Types)
  <2> DEFINE type  == Types[t + 1]
             instr == [op |-> "call_indirect", type |-> type]
             pop   == Append(type.param, "I32")
  <2>1. type \in FuncTypeSet
    BY <1>1, ValidatorAssumption
  <2>2. type.param \in Seq(StackType) /\ type.result \in Seq(StackType)
    BY <2>1, ValueStack DEF FuncTypeSet
  <2>3. pop \in Seq(StackType)
    BY <2>2 DEF StackType, ValueType
  <2>4. instr \in InstrSet
    BY <2>1 DEF InstrSet
  <2>5. blocks # <<>> /\ Operate(instr, pop, type.result)
    BY <1>1 DEF CallIndirect, Reading
  <2> QED BY <2>2, <2>3, <2>4, <2>5, OperateType DEF TypeInv
<1>2. CASE ~(HasTable /\ t < Len(Types))
  BY <1>2, RejectType DEF CallIndirect, TypeInv
<1> QED BY <1>1, <1>2

LEMMA DropType == TypeInv /\ Drop => TypeInv'
<1> SUFFICES ASSUME TypeInv, Drop PROVE TypeInv'
  OBVIOUS
<1> DEFINE t == TopType(stack)
           instr == [op |-> "drop", wide |-> t \in Wide]
<1>1. t \in StackType
  BY TopTypeType DEF TypeInv, TypeOK
<1>2. <<t>> \in Seq(StackType) /\ <<>> \in Seq(StackType)
  BY <1>1
<1>3. (t \in Wide) \in BOOLEAN
  OBVIOUS
<1>4. instr \in InstrSet
  BY <1>3 DEF InstrSet
<1>5. blocks # <<>> /\ Operate(instr, <<t>>, <<>>)
  BY DEF Drop, Reading
<1> QED BY <1>2, <1>4, <1>5, OperateType DEF TypeInv

LEMMA SelectType == TypeInv /\ Select => TypeInv'
<1> SUFFICES ASSUME TypeInv, Select PROVE TypeInv'
  OBVIOUS
<1> DEFINE st == AfterPop(stack, <<"I32">>)
           t == TopType(st)
           instr == [op |-> "select", wide |-> t \in Wide]
<1>1. blocks # <<>> /\ Operate(instr, <<t, t, "I32">>, <<t>>)
  BY DEF Select, Reading
<1>2. Based(stack) /\ stack \in Seq(StackType)
  BY <1>1, ReadingBased DEF TypeInv, TypeOK
<1>3. st \in Seq(StackType)
  BY <1>2, AfterPopType, I32Stack
<1>4. t \in StackType /\ "I32" \in StackType
  BY <1>3, TopTypeType DEF StackType, ValueType
<1> HIDE DEF st, t
<1>5. <<t>> \in Seq(StackType) /\ <<t, t, "I32">> \in Seq(StackType)
  BY <1>4
<1>6. instr \in InstrSet
  BY DEF InstrSet
<1> QED BY <1>1, <1>5, <1>6, OperateType DEF TypeInv

(* The immediates of an instruction on a local.                            *)
LEMMA LocalInstrType ==
  ASSUME NEW op \in {"get_local", "set_local", "tee_local"}, NEW l \in Nat, l < Len(Locals)
  PROVE  LocalInstr(op, l) \in InstrSet /\ <<Locals[l + 1]>> \in Seq(StackType)
<1>1. Locals \in Seq(ValueType) /\ l \in 0 .. Len(Locals) /\ l + 1 \in 1 .. Len(Locals)
  BY ValidatorAssumption
<1>2. SubSeq(Locals, 1, l) \in Seq(ValueType)
  BY <1>1, PrefixType
<1>3. LocalOffset(l) \in Nat
  BY <1>2, CellNumNat DEF LocalOffset
<1>4. Locals[l + 1] \in StackType
  BY <1>1 DEF StackType
<1> QED BY <1>3, <1>4 DEF LocalInstr, InstrSet

LEMMA GetLocalType == ASSUME NEW l \in Nat PROVE TypeInv /\ GetLocal(l) => TypeInv'
<1> SUFFICES ASSUME TypeInv, GetLocal(l) PROVE TypeInv'
  OBVIOUS
<1>1. CASE l < Len(Locals)
  <2>1. blocks # <<>> /\ Operate(LocalInstr("get_local", l), <<>>, <<Locals[l + 1]>>)
    BY <1>1 DEF GetLocal, Reading
  <2>2. <<>> \in Seq(StackType)
    OBVIOUS
  <2> QED BY <1>1, <2>1, <2>2, LocalInstrType, OperateType DEF TypeInv
<1>2. CASE ~(l < Len(Locals))
  BY <1>2, RejectType DEF GetLocal, TypeInv
<1> QED BY <1>1, <1>2

LEMMA SetLocalType == ASSUME NEW l \in Nat PROVE TypeInv /\ SetLocal(l) => TypeInv'
<1> SUFFICES ASSUME TypeInv, SetLocal(l) PROVE TypeInv'
  OBVIOUS
<1>1. CASE l < Len(Locals)
  <2>1. blocks # <<>> /\ Operate(LocalInstr("set_local", l), <<Locals[l + 1]>>, <<>>)
    BY <1>1 DEF SetLocal, Reading
  <2>2. <<>> \in Seq(StackType)
    OBVIOUS
  <2> QED BY <1>1, <2>1, <2>2, LocalInstrType, OperateType DEF TypeInv
<1>2. CASE ~(l < Len(Locals))
  BY <1>2, RejectType DEF SetLocal, TypeInv
<1> QED BY <1>1, <1>2

LEMMA TeeLocalType == ASSUME NEW l \in Nat PROVE TypeInv /\ TeeLocal(l) => TypeInv'
<1> SUFFICES ASSUME TypeInv, TeeLocal(l) PROVE TypeInv'
  OBVIOUS
<1>1. CASE l < Len(Locals)
  <2>1. /\ blocks # <<>>
        /\ Operate(LocalInstr("tee_local", l), <<Locals[l + 1]>>, <<Locals[l + 1]>>)
    BY <1>1 DEF TeeLocal, Reading
  <2> QED BY <1>1, <2>1, LocalInstrType, OperateType DEF TypeInv
<1>2. CASE ~(l < Len(Locals))
  BY <1>2, RejectType DEF TeeLocal, TypeInv
<1> QED BY <1>1, <1>2

LEMMA GlobalType ==
  ASSUME NEW op \in {"get_global", "set_global"}, NEW g \in Nat, g < Len(Globals)
  PROVE  /\ [op |-> op, value |-> Globals[g + 1].type] \in InstrSet
         /\ <<Globals[g + 1].type>> \in Seq(StackType)
<1>1. Globals[g + 1].type \in ValueType
  <2> DEFINE GlobalSet == [type : ValueType, mutable : BOOLEAN]
  <2>1. Globals \in Seq(GlobalSet)
    BY ValidatorAssumption
  <2> HIDE DEF GlobalSet
  <2>2. Globals[g + 1] \in GlobalSet
    BY <2>1
  <2> QED BY <2>2 DEF GlobalSet
<1>2. Globals[g + 1].type \in StackType
  BY <1>1 DEF StackType
<1> QED BY <1>1, <1>2 DEF InstrSet

LEMMA GetGlobalType == ASSUME NEW g \in Nat PROVE TypeInv /\ GetGlobal(g) => TypeInv'
<1> SUFFICES ASSUME TypeInv, GetGlobal(g) PROVE TypeInv'
  OBVIOUS
<1>1. CASE g < Len(Globals)
  <2>1. /\ blocks # <<>>
        /\ Operate([op |-> "get_global", value |-> Globals[g + 1].type],
                   <<>>, <<Globals[g + 1].type>>)
    BY <1>1 DEF GetGlobal, Reading
  <2>2. <<>> \in Seq(StackType)
    OBVIOUS
  <2> QED BY <1>1, <2>1, <2>2, GlobalType, OperateType DEF TypeInv
<1>2. CASE ~(g < Len(Globals))
  BY <1>2, RejectType DEF GetGlobal, TypeInv
<1> QED BY <1>1, <1>2

LEMMA SetGlobalType == ASSUME NEW g \in Nat PROVE TypeInv /\ SetGlobal(g) => TypeInv'
<1> SUFFICES ASSUME TypeInv, SetGlobal(g) PROVE TypeInv'
  OBVIOUS
<1>1. CASE g < Len(Globals) /\ Globals[g + 1].mutable
  <2>1. /\ blocks # <<>>
        /\ Operate([op |-> "set_global", value |-> Globals[g + 1].type],
                   <<Globals[g + 1].type>>, <<>>)
    BY <1>1 DEF SetGlobal, Reading
  <2>2. <<>> \in Seq(StackType)
    OBVIOUS
  <2> QED BY <1>1, <2>1, <2>2, GlobalType, OperateType DEF TypeInv
<1>2. CASE ~(g < Len(Globals) /\ Globals[g + 1].mutable)
  BY <1>2, RejectType DEF SetGlobal, TypeInv
<1> QED BY <1>1, <1>2

LEMMA PlainOpType == ASSUME NEW sig \in Plain PROVE TypeInv /\ PlainOp(sig) => TypeInv'
<1> SUFFICES ASSUME TypeInv, PlainOp(sig) PROVE TypeInv'
  OBVIOUS
<1>1. sig \in [pop : Seq(ValueType), push : Seq(ValueType)]
  BY ValidatorAssumption
<1>2. sig.pop \in Seq(StackType) /\ sig.push \in Seq(StackType)
  BY <1>1, ValueStack
<1>3. [op |-> "plain", sig |-> sig] \in InstrSet
  BY <1>1 DEF InstrSet
<1>4. blocks # <<>> /\ Operate([op |-> "plain", sig |-> sig], sig.pop, sig.push)
  BY DEF PlainOp, Reading
<1> QED BY <1>2, <1>3, <1>4, OperateType DEF TypeInv

-----------------------------------------------------------------------------
LEMMA InitType == Init => TypeInv
<1> SUFFICES ASSUME Init PROVE TypeInv
  OBVIOUS
<1> DEFINE block == [label |-> "function", type |-> FuncType, base |-> 0, cells |-> 0,
                     start |-> 1, elseIp |-> 0, elseIdx |-> 0, endIdx |-> 0, queue |-> {}]
<1>1. block \in BlockSet
  BY ValidatorAssumption DEF BlockSet, Label
<1>2. blocks = <<block>> /\ stack = <<>>
  BY DEF Init
<1> HIDE DEF block
<1>3. blocks \in Seq(BlockSet)
  BY <1>1, <1>2
<1>4. poly \in FlagsSet /\ own \in FlagsSet
  BY ValidatorAssumption DEF Init, FlagsSet
<1>5. TypeOK
  BY <1>3, <1>4 DEF Init, TypeOK, FlagsSet
<1>6. BlocksNested
  <2>1. Depth = 1 /\ blocks[1].base = 0
    BY <1>2 DEF Depth, block
  <2> QED BY <1>2, <2>1 DEF BlocksNested
<1> QED BY <1>5, <1>6 DEF TypeInv

LEMMA NextType == TypeInv /\ [Next]_vars => TypeInv'
<1> SUFFICES ASSUME TypeInv, [Next]_vars PROVE TypeInv'
  OBVIOUS
<1>1. CASE Control
  <2>1. CASE Unreachable \/ Nop \/ Else \/ End \/ Return
    BY <2>1, UnreachableType, NopType, ElseType, EndType, ReturnType
  <2>2. CASE \E label \in {"block", "loop", "if"}, type \in BlockTypes : OpenBlock(label, type)
    BY <2>2, OpenBlockType
  <2>3. CASE \E depth \in 0 .. MaxBlocks : Br(depth) \/ BrIf(depth)
    BY <2>3, BrType, BrIfType
  <2>4. CASE \E targets \in JumpTables : BrTable(targets)
    BY <2>4, BrTableType
  <2>5. CASE BrTableLabel
    BY <2>5, BrTableLabelType
  <2>6. CASE \E f \in 0 .. Len(Funcs) : Call(f)
    BY <2>6, FuncsType, CallType
  <2>7. CASE \E t \in 0 .. Len(Types) : CallIndirect(t)
    BY <2>7, ValidatorAssumption, CallIndirectType
  <2> QED BY <1>1, <2>1, <2>2, <2>3, <2>4, <2>5, <2>6, <2>7 DEF Control
<1>2. CASE Operands
  <2>1. CASE Drop \/ Select
    BY <2>1, DropType, SelectType
  <2>2. CASE \E l \in 0 .. Len(Locals) : GetLocal(l) \/ SetLocal(l) \/ TeeLocal(l)
    BY <2>2, ValidatorAssumption, GetLocalType, SetLocalType, TeeLocalType
  <2>3. CASE \E g \in 0 .. Len(Globals) : GetGlobal(g) \/ SetGlobal(g)
    BY <2>3, ValidatorAssumption, GetGlobalType, SetGlobalType
  <2>4. CASE \E sig \in Plain : PlainOp(sig)
    BY <2>4, PlainOpType
  <2> QED BY <1>2, <2>1, <2>2, <2>3, <2>4 DEF Operands
<1>3. CASE Malformed
  BY <1>3, RejectType DEF Malformed, TypeInv
<1>4. CASE UNCHANGED vars
  BY <1>4 DEF vars, brt, TypeInv, TypeOK, BlocksNested, Depth
<1> QED BY <1>1, <1>2, <1>3, <1>4 DEF Next

(* The validator's state always has the types the context's fields have.   *)
THEOREM TypeCorrect == Spec => []TypeOK
<1>1. TypeInv => TypeOK
  BY DEF TypeInv
<1> QED BY <1>1, InitType, NextType, PTL DEF Spec

(* In every body, the operands of an open block lie above those of the     *)
(* blocks around it: no pop, waived pop or RESET_STACK takes one of theirs.*)
THEOREM Nesting == Spec => []BlocksNested
<1>1. TypeInv => BlocksNested
  BY DEF TypeInv
<1> QED BY <1>1, InitType, NextType, PTL DEF Spec

-----------------------------------------------------------------------------
(***************************************************************************)
(* The branch table of an accepted body sends the interpreter to an        *)
(* instruction together with the position its cursor must have there.      *)
(*                                                                         *)
(* The invariant says what the open blocks already know of the targets     *)
(* that their END will write into the table.                               *)
(***************************************************************************)

(* idx entries precede instruction i, be it read already or the next one.  *)
Position(i, idx) ==
  \/ i \in DOMAIN code /\ seen[i].emitted = idx
  \/ i = Len(code) + 1 /\ idx = Len(table) /\ labels = <<>>

AfterElse(i) == i - 1 \in DOMAIN code /\ code[i - 1].op = "else"

(* A LOOP has recorded the position of the first instruction inside it.    *)
LoopPositions ==
  \A d \in 1 .. Depth : blocks[d].label = "loop" => Position(blocks[d].start, blocks[d].endIdx)

(* An IF that has an else_addr got it from an ELSE.                        *)
ElsePositions ==
  \A d \in 1 .. Depth : blocks[d].elseIp # 0 => AfterElse(blocks[d].elseIp)

(* The entry of an IF waits in the queue of the IF's own block.            *)
IfQueued ==
  \A d \in 1 .. Depth : \A k \in blocks[d].queue :
    table[k].op = "if" => blocks[d].label = "if"

ResolvedTargets ==
  \A k \in DOMAIN table :
    table[k].resolved => InSync(table[k]) \/ (table[k].op = "if" /\ AfterElse(table[k].ip))

NothingOpen == verdict = "accepted" => blocks = <<>>

BranchInv ==
  LoopPositions /\ ElsePositions /\ IfQueued /\ ResolvedTargets /\ EntriesOwned /\ NothingOpen

-----------------------------------------------------------------------------
(* After the step, instruction i has been read and idx entries precede it. *)
ReadAt(i, idx) == i \in 1 .. Len(code') /\ seen'[i].emitted = idx

(* After the step, instruction i follows an ELSE.                          *)
ElseBefore(i) == i - 1 \in 1 .. Len(code') /\ code'[i - 1].op = "else"

(* What has been read stays, and known positions stay known.               *)
Grown ==
  /\ Len(code') \in Nat /\ Len(code) <= Len(code')
  /\ DOMAIN code' = 1 .. Len(code')
  /\ \A i \in 1 .. Len(code) : code'[i] = code[i] /\ seen'[i] = seen[i]
  /\ \A i \in Nat, idx \in Nat : Position(i, idx) => ReadAt(i, idx)

LEMMA Domains ==
  ASSUME TypeOK
  PROVE  /\ Depth \in Nat /\ DOMAIN blocks = 1 .. Depth
         /\ Len(code) \in Nat /\ DOMAIN code = 1 .. Len(code)
         /\ Len(seen) = Len(code) /\ DOMAIN seen = 1 .. Len(code)
         /\ Len(table) \in Nat /\ DOMAIN table = 1 .. Len(table)
         /\ \A d \in 1 .. Depth : blocks[d] \in BlockSet
         /\ \A k \in 1 .. Len(table) : table[k] \in EntrySet
BY DEF TypeOK, Depth

LEMMA ReadGrows ==
  ASSUME TypeOK, labels = <<>>, NEW instr, NEW found, NEW dead, NEW peak, NEW st,
         Arrive(instr, found, dead, peak, st)
  PROVE  /\ Grown
         /\ Len(code') = Len(code) + 1 /\ code'[Len(code) + 1] = instr
         /\ seen'[Len(code) + 1].emitted = Len(table)
<1> DEFINE new == [stack |-> found, emitted |-> Len(table), dead |-> dead]
           n == Len(code)
<1>1. n \in Nat /\ Len(seen) = n /\ DOMAIN code = 1 .. n
  BY Domains
<1>2. new.emitted = Len(table)
  OBVIOUS
<1> HIDE DEF new
<1>3. code' = Append(code, instr) /\ seen' = Append(seen, new)
  BY DEF Arrive, new
<1>4. \E S : code \in Seq(S)
  BY DEF TypeOK
<1>5. \E S : seen \in Seq(S)
  BY DEF TypeOK
<1>6. Len(code') = n + 1 /\ code'[n + 1] = instr /\ \A i \in 1 .. n : code'[i] = code[i]
  BY <1>1, <1>3, <1>4
<1>7. seen'[n + 1] = new /\ \A i \in 1 .. n : seen'[i] = seen[i]
  BY <1>1, <1>3, <1>5
<1>8. ASSUME NEW i \in Nat, NEW idx \in Nat, Position(i, idx)
      PROVE  i \in 1 .. n + 1 /\ seen'[i].emitted = idx
  BY <1>1, <1>2, <1>7, <1>8 DEF Position
<1>9. DOMAIN code' = 1 .. n + 1
  BY <1>1, <1>3, <1>4
<1> QED BY <1>1, <1>2, <1>6, <1>7, <1>8, <1>9 DEF Grown, ReadAt

LEMMA SameCodeGrows ==
  ASSUME TypeOK, labels # <<>>, UNCHANGED <<code, seen>>
  PROVE  Grown
<1>1. code' = code /\ seen' = seen /\ Len(code) \in Nat /\ DOMAIN code = 1 .. Len(code)
  BY Domains
<1>2. ASSUME NEW i \in Nat, NEW idx \in Nat, Position(i, idx)
      PROVE  i \in 1 .. Len(code') /\ seen'[i].emitted = idx
  <2>1. i \in DOMAIN code /\ seen[i].emitted = idx
    BY <1>2 DEF Position
  <2> QED BY <1>1, <2>1
<1> QED BY <1>1, <1>2 DEF Grown, ReadAt

-----------------------------------------------------------------------------
(* What follows for the parts of the invariant that speak of one block or  *)
(* of one entry.                                                           *)

LEMMA AfterElseGrows ==
  ASSUME TypeOK, Grown, NEW i \in Nat, AfterElse(i)
  PROVE  ElseBefore(i)
<1>1. i - 1 \in 1 .. Len(code) /\ code[i - 1].op = "else" /\ Len(code) \in Nat
  BY Domains DEF AfterElse
<1>2. i - 1 \in 1 .. Len(code') /\ code'[i - 1] = code[i - 1]
  BY <1>1 DEF Grown
<1> QED BY <1>1, <1>2 DEF ElseBefore

(* Where an entry leads after the step.                                    *)
LeadsRight(e) == ReadAt(e.ip, e.idx) \/ (e.op = "if" /\ ElseBefore(e.ip))

(* An entry that was resolved before the step.                             *)
LEMMA TargetGrows ==
  ASSUME TypeOK, Grown, ResolvedTargets, NEW k \in 1 .. Len(table), table[k].resolved
  PROVE  LeadsRight(table[k])
<1> DEFINE e == table[k]
<1>1. e \in EntrySet /\ (InSync(e) \/ (e.op = "if" /\ AfterElse(e.ip)))
  BY Domains DEF ResolvedTargets
<1>2. e.ip \in Nat /\ e.idx \in Nat
  BY <1>1 DEF EntrySet
<1>3. CASE InSync(e)
  <2>1. Position(e.ip, e.idx)
    BY <1>3 DEF InSync, Position
  <2> QED BY <1>2, <2>1 DEF Grown, LeadsRight
<1>4. CASE e.op = "if" /\ AfterElse(e.ip)
  BY <1>2, <1>4, AfterElseGrows DEF LeadsRight
<1> QED BY <1>1, <1>3, <1>4

(* What an open block knows of its targets, after the step.                *)
KnowsTargets(b) ==
  /\ b.label = "loop" =>
       \/ ReadAt(b.start, b.endIdx)
       \/ b.start = Len(code') + 1 /\ b.endIdx = Len(table') /\ labels' = <<>>
  /\ b.elseIp # 0 => ElseBefore(b.elseIp)

LEMMA BlockGrows ==
  ASSUME TypeOK, Grown, LoopPositions, ElsePositions, NEW d \in 1 .. Depth
  PROVE  KnowsTargets(blocks[d])
<1> DEFINE b == blocks[d]
<1>1. b.start \in Nat /\ b.endIdx \in Nat /\ b.elseIp \in Nat
  BY Domains DEF BlockSet
<1>2. b.label = "loop" => ReadAt(b.start, b.endIdx)
  BY <1>1 DEF LoopPositions, Grown
<1>3. b.elseIp # 0 => ElseBefore(b.elseIp)
  BY <1>1, AfterElseGrows DEF ElsePositions
<1> QED BY <1>2, <1>3 DEF KnowsTargets

(* The four parts of the invariant that speak of targets, after a step.    *)
LEMMA TargetsKept ==
  ASSUME Grown, Depth' \in Nat, DOMAIN table' = 1 .. Len(table'),
         \A d \in 1 .. Depth' : KnowsTargets(blocks'[d]),
         \A k \in 1 .. Len(table') : table'[k].resolved => LeadsRight(table'[k])
  PROVE  LoopPositions' /\ ElsePositions' /\ ResolvedTargets'
<1>1. \A d \in 1 .. Depth' :
         blocks'[d].label = "loop" =>
           \/ /\ blocks'[d].start \in DOMAIN code'
              /\ seen'[blocks'[d].start].emitted = blocks'[d].endIdx
           \/ /\ blocks'[d].start = Len(code') + 1
              /\ blocks'[d].endIdx = Len(table') /\ labels' = <<>>
  BY DEF KnowsTargets, ReadAt, Grown
<1>2. LoopPositions'
  BY <1>1 DEF LoopPositions, Position
<1>3. ElsePositions'
  BY DEF ElsePositions, KnowsTargets, ElseBefore, AfterElse, Grown
<1>4. ResolvedTargets'
  BY DEF ResolvedTargets, LeadsRight, ReadAt, ElseBefore, InSync, AfterElse, Grown
<1> QED BY <1>2, <1>3, <1>4

-----------------------------------------------------------------------------
(* The parts of the invariant that speak of queues.                        *)
QueuesOK == EntriesOwned /\ IfQueued

(* Another entry e is appended and queued on block k, which may be new.    *)
Enqueued(e, k) ==
  /\ table' = Append(table, e)
  /\ Depth' \in Nat /\ Depth <= Depth' /\ k \in 1 .. Depth'
  /\ \A d \in 1 .. Depth' : \A j :
       j \in blocks'[d].queue <=>
         (d <= Depth /\ j \in blocks[d].queue) \/ (d = k /\ j = Len(table) + 1)
  /\ \A d \in 1 .. Depth : blocks'[d].label = blocks[d].label
  /\ e.op = "if" => blocks'[k].label = "if"

LEMMA EnqueueOwned ==
  ASSUME TypeOK, QueuesOK, NEW e \in EntrySet, ~e.resolved, NEW k, Enqueued(e, k)
  PROVE  /\ QueuesOK'
         /\ Len(table') = Len(table) + 1 /\ DOMAIN table' = 1 .. Len(table')
         /\ table'[Len(table) + 1] = e
         /\ \A j \in 1 .. Len(table) : table'[j] = table[j]
<1> DEFINE n == Len(table)
<1>1. n \in Nat /\ Depth \in Nat /\ DOMAIN table = 1 .. n
  BY Domains
<1>2. /\ Len(table') = n + 1 /\ DOMAIN table' = 1 .. n + 1
      /\ table'[n + 1] = e /\ \A j \in 1 .. n : table'[j] = table[j]
  BY <1>1 DEF Enqueued, TypeOK
<1>3. \A d \in 1 .. Depth : blocks[d].queue \subseteq 1 .. n
  BY <1>1 DEF QueuesOK, EntriesOwned
<1>4. /\ Depth' \in Nat /\ Depth <= Depth' /\ k \in 1 .. Depth'
      /\ \A d \in 1 .. Depth' : \A j :
           j \in blocks'[d].queue <=>
             (d <= Depth /\ j \in blocks[d].queue) \/ (d = k /\ j = n + 1)
  BY DEF Enqueued
<1> HIDE DEF n
<1>5. \A d \in 1 .. Depth' : blocks'[d].queue \subseteq DOMAIN table'
  BY <1>1, <1>2, <1>3, <1>4
<1>6. ASSUME NEW j \in 1 .. n + 1
      PROVE  IF table'[j].resolved
             THEN \A d \in 1 .. Depth' : j \notin blocks'[d].queue
             ELSE \E d \in 1 .. Depth' :
                    /\ j \in blocks'[d].queue
                    /\ \A c \in 1 .. Depth' : j \in blocks'[c].queue => c = d
  <2>1. CASE j = n + 1
    <3>1. ~table'[j].resolved
      BY <1>2, <2>1
    <3>2. \A d \in 1 .. Depth : j \notin blocks[d].queue
      BY <1>1, <1>3, <2>1
    <3>3. j \in blocks'[k].queue /\ \A c \in 1 .. Depth' : j \in blocks'[c].queue => c = k
      BY <1>1, <1>4, <2>1, <3>2
    <3> QED BY <1>4, <3>1, <3>3
  <2>2. CASE j # n + 1
    <3>1. j \in 1 .. n /\ table'[j] = table[j]
      BY <1>1, <1>2, <2>2
    <3>2. \A d \in 1 .. Depth' : j \in blocks'[d].queue <=> d <= Depth /\ j \in blocks[d].queue
      BY <1>4, <2>2
    <3>3. IF table[j].resolved
          THEN \A d \in 1 .. Depth : j \notin blocks[d].queue
          ELSE \E d \in 1 .. Depth :
                 /\ j \in blocks[d].queue
                 /\ \A c \in 1 .. Depth : j \in blocks[c].queue => c = d
      BY <1>1, <3>1 DEF QueuesOK, EntriesOwned
    <3>4. CASE table[j].resolved
      BY <1>1, <1>4, <3>1, <3>2, <3>3, <3>4
    <3>5. CASE ~table[j].resolved
      <4>1. PICK d \in 1 .. Depth :
              /\ j \in blocks[d].queue
              /\ \A c \in 1 .. Depth : j \in blocks[c].queue => c = d
        BY <3>3, <3>5
      <4>2. d \in 1 .. Depth' /\ j \in blocks'[d].queue
        BY <1>1, <1>4, <3>2, <4>1
      <4>3. \A c \in 1 .. Depth' : j \in blocks'[c].queue => c = d
        BY <1>1, <1>4, <3>2, <4>1
      <4> QED BY <3>1, <3>5, <4>2, <4>3
    <3> QED BY <3>4, <3>5
  <2> QED BY <2>1, <2>2
<1>7. EntriesOwned'
  BY <1>2, <1>5, <1>6 DEF EntriesOwned
<1>8. IfQueued'
  <2>1. SUFFICES ASSUME NEW d \in 1 .. Depth', NEW j \in blocks'[d].queue, table'[j].op = "if"
                 PROVE  blocks'[d].label = "if"
    BY DEF IfQueued
  <2>2. CASE d <= Depth /\ j \in blocks[d].queue
    <3>1. d \in 1 .. Depth /\ j \in 1 .. n
      BY <1>1, <1>3, <1>4, <2>2
    <3>2. table[j].op = "if"
      BY <1>2, <2>1, <3>1
    <3> QED BY <2>2, <3>1, <3>2 DEF QueuesOK, IfQueued, Enqueued
  <2>3. CASE d = k /\ j = n + 1
    BY <1>2, <2>1, <2>3 DEF Enqueued
  <2> QED BY <1>4, <2>1, <2>2, <2>3
<1> QED BY <1>2, <1>7, <1>8 DEF QueuesOK, n

-----------------------------------------------------------------------------
(* Steps of the three kinds there are beside END: those that leave table   *)
(* and blocks alone, those that add an entry, and rejections.              *)

LEMMA KeepBranch ==
  ASSUME TypeOK, BranchInv, Grown, UNCHANGED <<blocks, table, verdict>>
  PROVE  BranchInv'
<1>1. Depth' = Depth /\ blocks' = blocks /\ table' = table /\ verdict' = verdict
  BY DEF Depth
<1>2. \A d \in 1 .. Depth' : KnowsTargets(blocks'[d])
  BY <1>1, BlockGrows DEF BranchInv
<1>3. \A k \in 1 .. Len(table') : table'[k].resolved => LeadsRight(table'[k])
  BY <1>1, TargetGrows DEF BranchInv
<1>4. LoopPositions' /\ ElsePositions' /\ ResolvedTargets'
  BY <1>1, <1>2, <1>3, Domains, TargetsKept
<1>5. EntriesOwned' /\ IfQueued' /\ NothingOpen'
  BY <1>1 DEF BranchInv, EntriesOwned, IfQueued, NothingOpen
<1> QED BY <1>4, <1>5 DEF BranchInv

LEMMA EnqueueBranch ==
  ASSUME TypeOK, BranchInv, Grown,
         NEW e \in EntrySet, ~e.resolved, NEW k, Enqueued(e, k),
         \A d \in 1 .. Depth' : KnowsTargets(blocks'[d]),
         verdict' = "running"
  PROVE  BranchInv'
<1>1. QueuesOK
  BY DEF BranchInv, QueuesOK
<1>2. /\ QueuesOK'
      /\ Len(table') = Len(table) + 1 /\ DOMAIN table' = 1 .. Len(table')
      /\ table'[Len(table) + 1] = e
      /\ \A j \in 1 .. Len(table) : table'[j] = table[j]
  BY <1>1, EnqueueOwned
<1>3. ASSUME NEW j \in 1 .. Len(table'), table'[j].resolved
      PROVE  LeadsRight(table'[j])
  <2>1. Len(table) \in Nat
    BY Domains
  <2>2. j \in 1 .. Len(table)
    BY <1>2, <1>3, <2>1
  <2> QED BY <1>2, <1>3, <2>2, TargetGrows DEF BranchInv
<1>4. Depth' \in Nat
  BY DEF Enqueued
<1>5. LoopPositions' /\ ElsePositions' /\ ResolvedTargets'
  BY <1>2, <1>3, <1>4, TargetsKept
<1>6. NothingOpen'
  BY DEF NothingOpen
<1> QED BY <1>2, <1>5, <1>6 DEF BranchInv, QueuesOK

LEMMA RejectBranch ==
  ASSUME Reject
  PROVE  BranchInv'
<1>1. blocks' = <<>> /\ table' = <<>>
  BY DEF Reject
<1>2. Depth' = 0 /\ DOMAIN table' = {}
  BY <1>1 DEF Depth
<1> QED
  BY <1>1, <1>2 DEF BranchInv, LoopPositions, ElsePositions, IfQueued, ResolvedTargets,
                    EntriesOwned, NothingOpen

LEMMA OperateBranch ==
  ASSUME TypeOK, BranchInv, labels = <<>>, NEW instr, NEW pop, NEW push,
         Operate(instr, pop, push)
  PROVE  BranchInv'
<1>1. CASE PopOk(stack, pop)
  <2>1. \E st : Arrive(instr, stack, Dead(Depth), st, st)
    BY <1>1 DEF Operate, Read, ReadPeak
  <2>2. Grown
    BY <2>1, ReadGrows
  <2> QED BY <1>1, <2>2, KeepBranch DEF Operate
<1>2. CASE ~PopOk(stack, pop)
  BY <1>2, RejectBranch DEF Operate
<1> QED BY <1>1, <1>2

(* A branch adds one entry to the queue of the block it leaves.            *)
LEMMA EmitBranch ==
  ASSUME TypeOK, BranchInv, Grown, NEW st \in Seq(StackType), NEW depth \in Nat, depth < Depth,
         NEW op \in {"br", "br_if", "br_table"}, Emit(op, depth, st), verdict' = "running"
  PROVE  BranchInv'
<1> DEFINE k == Depth - depth
           b == blocks[k]
           e == Entry(op, CellNum(st) - b.cells, CellNum(b.type.result))
           n == Len(table)
<1>1. k \in 1 .. Depth /\ b \in BlockSet
  BY LabelType
<1>2. e \in EntrySet
  <2>1. b.type.result \in Seq(ValueType) /\ b.cells \in Nat
    BY <1>1 DEF BlockSet, FuncTypeSet
  <2> QED BY <2>1, CellNumNat, EntryType
<1>3. ~e.resolved /\ e.op # "if"
  BY DEF Entry
<1>4. table' = Append(table, e) /\ blocks' = [blocks EXCEPT ![k].queue = @ \cup {n + 1}]
  BY DEF Emit
<1> HIDE DEF e, n
<1>5. blocks \in Seq(BlockSet) /\ Depth \in Nat /\ DOMAIN blocks = 1 .. Depth
  BY Domains DEF TypeOK
<1>6. Depth' = Depth
  BY <1>4, <1>5, <1>1 DEF Depth
<1>7. ASSUME NEW d \in 1 .. Depth
      PROVE  /\ KnowsTargets(blocks[d]) => KnowsTargets(blocks'[d])
             /\ blocks'[d].label = blocks[d].label
             /\ blocks'[d].queue = blocks[d].queue \cup (IF d = k THEN {n + 1} ELSE {})
  <2>1. blocks[d] \in BlockSet
    BY Domains
  <2>2. CASE d = k
    <3>1. blocks'[d] = [blocks[d] EXCEPT !.queue = @ \cup {n + 1}]
      BY <1>4, <1>5, <2>2
    <3> QED BY <2>1, <2>2, <3>1 DEF KnowsTargets, BlockSet
  <2>3. CASE d # k
    BY <1>4, <1>5, <2>3
  <2> QED BY <2>2, <2>3
<1>8. Enqueued(e, k)
  BY <1>1, <1>3, <1>4, <1>5, <1>6, <1>7 DEF Enqueued, n
<1>9. \A d \in 1 .. Depth' : KnowsTargets(blocks'[d])
  BY <1>6, <1>7, BlockGrows DEF BranchInv
<1> QED BY <1>2, <1>3, <1>8, <1>9, EnqueueBranch

-----------------------------------------------------------------------------
(* The actions, one lemma each.                                            *)
IInv == TypeInv /\ BranchInv

LEMMA UnreachableBranch == IInv /\ Unreachable => BranchInv'
<1> SUFFICES ASSUME IInv, Unreachable PROVE BranchInv'
  OBVIOUS
<1>1. Grown
  BY ReadGrows DEF IInv, TypeInv, Unreachable, Reading, Read, ReadPeak
<1> QED BY <1>1, KeepBranch DEF IInv, TypeInv, Unreachable

LEMMA ReturnBranch == IInv /\ Return => BranchInv'
<1> SUFFICES ASSUME IInv, Return PROVE BranchInv'
  OBVIOUS
<1>1. CASE PopOk(stack, FuncType.result)
  <2>1. Grown
    BY <1>1, ReadGrows DEF IInv, TypeInv, Return, Reading, Read, ReadPeak
  <2> QED BY <1>1, <2>1, KeepBranch DEF IInv, TypeInv, Return
<1>2. CASE ~PopOk(stack, FuncType.result)
  BY <1>2, RejectBranch DEF Return
<1> QED BY <1>1, <1>2

LEMMA BrBranch == ASSUME NEW depth \in Nat PROVE IInv /\ Br(depth) => BranchInv'
<1> SUFFICES ASSUME IInv, Br(depth) PROVE BranchInv'
  OBVIOUS
<1>1. CASE CheckBr(stack, depth)
  <2>1. /\ blocks # <<>> /\ depth < Depth /\ stack \in Seq(StackType) /\ TypeOK
        /\ labels = <<>> /\ verdict' = "running"
    BY <1>1 DEF IInv, TypeInv, TypeOK, Br, Reading, CheckBr
  <2>2. Based(stack) /\ AfterCheckBr(stack, depth) \in Seq(StackType)
    BY <2>1, ReadingBased, CheckBrType DEF IInv, TypeInv
  <2>3. Grown /\ Emit("br", depth, AfterCheckBr(stack, depth))
    BY <1>1, <2>1, ReadGrows DEF Br, ReadPeak
  <2> QED BY <2>1, <2>2, <2>3, EmitBranch DEF IInv
<1>2. CASE ~CheckBr(stack, depth)
  BY <1>2, RejectBranch DEF Br
<1> QED BY <1>1, <1>2

LEMMA BrIfBranch == ASSUME NEW depth \in Nat PROVE IInv /\ BrIf(depth) => BranchInv'
<1> SUFFICES ASSUME IInv, BrIf(depth) PROVE BranchInv'
  OBVIOUS
<1> DEFINE st == AfterPop(stack, <<"I32">>)
<1>1. CASE PopOk(stack, <<"I32">>) /\ CheckBr(st, depth)
  <2>1. /\ blocks # <<>> /\ depth < Depth /\ stack \in Seq(StackType) /\ TypeOK
        /\ labels = <<>> /\ verdict' = "running"
    BY <1>1 DEF IInv, TypeInv, TypeOK, BrIf, Reading, CheckBr
  <2>2. Based(stack)
    BY <2>1, ReadingBased DEF IInv, TypeInv
  <2>3. st \in Seq(StackType) /\ Based(st)
    BY <2>1, <2>2, AfterPopType, I32Stack DEF Based
  <2>4. AfterCheckBr(st, depth) \in Seq(StackType)
    BY <2>1, <2>3, CheckBrType
  <2>5. Grown /\ Emit("br_if", depth, AfterCheckBr(st, depth))
    BY <1>1, <2>1, ReadGrows DEF BrIf, Read, ReadPeak
  <2> HIDE DEF st
  <2> QED BY <2>1, <2>4, <2>5, EmitBranch DEF IInv
<1>2. CASE ~(PopOk(stack, <<"I32">>) /\ CheckBr(st, depth))
  BY <1>2, RejectBranch DEF BrIf
<1> QED BY <1>1, <1>2

LEMMA BrTableBranch == ASSUME NEW targets PROVE IInv /\ BrTable(targets) => BranchInv'
<1> SUFFICES ASSUME IInv, BrTable(targets) PROVE BranchInv'
  OBVIOUS
<1>1. CASE PopOk(stack, <<"I32">>)
  <2>1. Grown
    BY <1>1, ReadGrows DEF IInv, TypeInv, BrTable, Reading, Read, ReadPeak
  <2> QED BY <1>1, <2>1, KeepBranch DEF IInv, TypeInv, BrTable
<1>2. CASE ~PopOk(stack, <<"I32">>)
  BY <1>2, RejectBranch DEF BrTable
<1> QED BY <1>1, <1>2

LEMMA BrTableLabelBranch == IInv /\ BrTableLabel => BranchInv'
<1> SUFFICES ASSUME IInv, BrTableLabel PROVE BranchInv'
  OBVIOUS
<1> DEFINE depth == labels[1]
           st    == AfterCheckBr(stack, depth)
           types == TableTypes(blocks[Depth - depth])
<1>1. CASE CheckBr(stack, depth) /\ retTypes \in {<<>>, <<types>>}
  <2>1. /\ blocks # <<>> /\ stack \in Seq(StackType) /\ TypeOK
        /\ labels \in Seq(Nat) /\ labels # <<>>
    BY DEF IInv, TypeInv, TypeOK, BrTableLabel
  <2>2. /\ depth < Depth /\ verdict' = "running"
        /\ Emit("br_table", depth, st) /\ UNCHANGED <<code, seen>>
    BY <1>1 DEF BrTableLabel, CheckBr
  <2>3. depth \in Nat
    BY <2>1
  <2>4. Based(stack) /\ st \in Seq(StackType)
    BY <2>1, <2>2, <2>3, ReadingBased, CheckBrType DEF IInv, TypeInv
  <2>5. Grown
    BY <2>1, <2>2, SameCodeGrows
  <2> HIDE DEF depth, st
  <2> QED BY <2>1, <2>2, <2>3, <2>4, <2>5, EmitBranch DEF IInv
<1>2. CASE ~(CheckBr(stack, depth) /\ retTypes \in {<<>>, <<types>>})
  BY <1>2, RejectBranch DEF BrTableLabel
<1> QED BY <1>1, <1>2

(* A new block.  A LOOP's position is that of the instruction to come.     *)
LEMMA OpenBlockBranch ==
  ASSUME NEW label \in {"block", "loop", "if"}, NEW type \in BlockTypes
  PROVE  IInv /\ OpenBlock(label, type) => BranchInv'
<1> SUFFICES ASSUME IInv, OpenBlock(label, type) PROVE BranchInv'
  OBVIOUS
<1> DEFINE pop   == IF label = "if" THEN Append(type.param, "I32") ELSE type.param
           below == AfterPop(stack, pop)
           block == NewBlock(label, type, below, Len(code) + 2)
           n     == Len(table)
<1>1. CASE PopOk(stack, pop)
  <2>1. TypeOK /\ labels = <<>> /\ verdict = "running" /\ BranchInv
    BY DEF IInv, TypeInv, OpenBlock, Reading
  <2>2. UNCHANGED <<poly, brt, verdict>> /\ Read([op |-> label, type |-> type], below \o type.param)
    BY <1>1 DEF OpenBlock
  <2>3. Grown /\ Len(code') = Len(code) + 1
    BY <2>1, <2>2, ReadGrows DEF Read, ReadPeak
  <2>4. labels' = <<>> /\ verdict' = "running"
    BY <2>1, <2>2 DEF brt
  <2>5. blocks \in Seq(BlockSet) /\ Depth \in Nat /\ Depth = Len(blocks)
        /\ n \in Nat /\ table \in Seq(EntrySet) /\ Len(code) \in Nat
    BY <2>1, Domains DEF TypeOK, Depth
  <2>6. block.label = label /\ block.start = Len(code) + 2 /\ block.endIdx = n
        /\ block.elseIp = 0 /\ block.queue = {}
    BY DEF NewBlock
  <2>7. CASE label = "if"
    <3> DEFINE e == Entry("if", 0, 0)
               c == [block EXCEPT !.queue = {n + 1}]
    <3>1. e \in EntrySet /\ ~e.resolved
      BY EntryType DEF Entry
    <3>2. table' = Append(table, e) /\ blocks' = Append(blocks, c)
      BY <1>1, <2>7 DEF OpenBlock
    <3>3. c.label = "if" /\ c.elseIp = 0 /\ c.queue = {n + 1}
      BY <2>6, <2>7 DEF NewBlock
    <3> HIDE DEF e, c, block, n
    <3>4. Depth' = Depth + 1 /\ blocks'[Depth + 1] = c
          /\ \A d \in 1 .. Depth : blocks'[d] = blocks[d]
      BY <2>5, <3>2 DEF Depth
    <3>5. Enqueued(e, Depth + 1)
      BY <2>5, <3>2, <3>3, <3>4 DEF Enqueued, n
    <3>6. ASSUME NEW d \in 1 .. Depth'
          PROVE  KnowsTargets(blocks'[d])
      <4>1. CASE d = Depth + 1
        BY <3>3, <3>4, <4>1 DEF KnowsTargets
      <4>2. CASE d # Depth + 1
        <5>1. d \in 1 .. Depth
          BY <2>5, <3>4, <4>2
        <5> QED BY <2>1, <2>3, <3>4, <5>1, BlockGrows DEF BranchInv
      <4> QED BY <4>1, <4>2
    <3> QED BY <2>1, <2>3, <2>4, <3>1, <3>5, <3>6, EnqueueBranch
  <2>8. CASE label # "if"
    <3>1. table' = table /\ blocks' = Append(blocks, block)
      BY <1>1, <2>8 DEF OpenBlock
    <3> HIDE DEF block
    <3>2. Depth' = Depth + 1 /\ blocks'[Depth + 1] = block
          /\ \A d \in 1 .. Depth : blocks'[d] = blocks[d]
      BY <2>5, <3>1 DEF Depth
    <3>3. ASSUME NEW d \in 1 .. Depth'
          PROVE  KnowsTargets(blocks'[d])
      <4>1. CASE d = Depth + 1
        BY <2>3, <2>4, <2>5, <2>6, <3>1, <3>2, <4>1 DEF KnowsTargets
      <4>2. CASE d # Depth + 1
        <5>1. d \in 1 .. Depth
          BY <2>5, <3>2, <4>2
        <5> QED BY <2>1, <2>3, <3>2, <5>1, BlockGrows DEF BranchInv
      <4> QED BY <4>1, <4>2
    <3>4. \A k \in 1 .. Len(table') : table'[k].resolved => LeadsRight(table'[k])
      BY <2>1, <2>3, <3>1, TargetGrows DEF BranchInv
    <3>5. LoopPositions' /\ ElsePositions' /\ ResolvedTargets'
      BY <2>3, <2>5, <3>1, <3>2, <3>3, <3>4, TargetsKept
    <3>6. \A d \in 1 .. Depth' :
            \/ d \in 1 .. Depth /\ blocks'[d] = blocks[d]
            \/ d = Depth + 1 /\ blocks'[d].queue = {}
      BY <2>5, <2>6, <3>2
    <3>7. IfQueued'
      BY <2>1, <3>1, <3>6 DEF BranchInv, IfQueued
    <3>8. EntriesOwned'
      <4>1. \A d \in 1 .. Depth' : blocks'[d].queue \subseteq DOMAIN table
        BY <2>1, <3>6 DEF BranchInv, EntriesOwned
      <4>2. ASSUME NEW k \in DOMAIN table
            PROVE  IF table[k].resolved
                   THEN \A d \in 1 .. Depth' : k \notin blocks'[d].queue
                   ELSE \E d \in 1 .. Depth' :
                          /\ k \in blocks'[d].queue
                          /\ \A b \in 1 .. Depth' : k \in blocks'[b].queue => b = d
        <5>1. CASE table[k].resolved
          BY <2>1, <3>6, <5>1 DEF BranchInv, EntriesOwned
        <5>2. CASE ~table[k].resolved
          <6>1. PICK d \in 1 .. Depth :
                  /\ k \in blocks[d].queue
                  /\ \A b \in 1 .. Depth : k \in blocks[b].queue => b = d
            BY <2>1, <5>2 DEF BranchInv, EntriesOwned
          <6>2. d \in 1 .. Depth' /\ k \in blocks'[d].queue
            BY <2>5, <3>2, <6>1
          <6>3. \A b \in 1 .. Depth' : k \in blocks'[b].queue => b = d
            BY <3>6, <6>1
          <6> QED BY <5>2, <6>2, <6>3
        <5> QED BY <5>1, <5>2
      <4> QED BY <3>1, <4>1, <4>2 DEF EntriesOwned
    <3>9. NothingOpen'
      BY <2>4 DEF NothingOpen
    <3> QED BY <3>5, <3>7, <3>8, <3>9 DEF BranchInv
  <2> QED BY <2>7, <2>8
<1>2. CASE ~PopOk(stack, pop)
  BY <1>2, RejectBranch DEF OpenBlock
<1> QED BY <1>1, <1>2

(* ELSE records where a false IF continues, and adds an entry of its own.  *)
LEMMA ElseBranch == IInv /\ Else => BranchInv'
<1> SUFFICES ASSUME IInv, Else PROVE BranchInv'
  OBVIOUS
<1> DEFINE e == Entry("else", 0, 0)
           n == Len(table)
           i == Len(code) + 2
           c == [Top EXCEPT !.elseIp = i, !.elseIdx = n, !.queue = @ \cup {n + 1}]
<1>1. CASE Depth >= 2 /\ Top.label = "if" /\ CheckBlock
  <2>1. TypeOK /\ labels = <<>> /\ verdict = "running" /\ BranchInv
    BY DEF IInv, TypeInv, Else, Reading
  <2>2. UNCHANGED <<brt, verdict>> /\ \E found, dead, peak, st :
          Arrive([op |-> "else"], found, dead, peak, st)
    BY <1>1 DEF Else, ReadPeak
  <2>3. Grown /\ Len(code') = Len(code) + 1 /\ code'[Len(code) + 1] = [op |-> "else"]
    BY <2>1, <2>2, ReadGrows
  <2>4. blocks \in Seq(BlockSet) /\ Depth \in Nat /\ DOMAIN blocks = 1 .. Depth
        /\ n \in Nat /\ Len(code) \in Nat
    BY <2>1, Domains DEF TypeOK
  <2>5. Top \in BlockSet /\ Depth \in 1 .. Depth
    BY <1>1, <2>1, <2>4, Domains DEF Top
  <2>6. e \in EntrySet /\ ~e.resolved /\ e.op # "if"
    BY EntryType DEF Entry
  <2>7. table' = Append(table, e)
        /\ blocks' = [blocks EXCEPT ![Depth].elseIp  = i,
                                    ![Depth].elseIdx = n,
                                    ![Depth].queue   = @ \cup {n + 1}]
    BY <1>1 DEF Else
  <2>8. blocks' = [blocks EXCEPT ![Depth] = c]
    BY <2>4, <2>5, <2>7 DEF Top
  <2>9. c.label = Top.label /\ c.start = Top.start /\ c.endIdx = Top.endIdx
        /\ c.elseIp = i /\ c.queue = Top.queue \cup {n + 1}
    BY <2>5 DEF BlockSet
  <2> HIDE DEF e, n, c
  <2>10. Depth' = Depth /\ blocks'[Depth] = c
         /\ \A d \in 1 .. Depth : d # Depth => blocks'[d] = blocks[d]
    <3>1. \E S : blocks \in Seq(S) /\ Depth = Len(blocks)
      BY <2>4 DEF Depth
    <3>2. Len(blocks') = Depth
      BY <2>4, <2>5, <2>8, <3>1
    <3>3. Depth' = Depth
      BY <3>2 DEF Depth
    <3> QED BY <2>4, <2>5, <2>8, <3>3
  <2>11. Enqueued(e, Depth)
    BY <2>4, <2>5, <2>6, <2>7, <2>9, <2>10 DEF Enqueued, Top, n
  <2>12. ElseBefore(i)
    BY <2>3, <2>4 DEF ElseBefore
  <2>13. ASSUME NEW d \in 1 .. Depth'
         PROVE  KnowsTargets(blocks'[d])
    <3>1. KnowsTargets(blocks[d])
      BY <2>1, <2>3, <2>10, BlockGrows DEF BranchInv
    <3>2. CASE d = Depth
      BY <2>9, <2>10, <2>12, <3>1, <3>2 DEF KnowsTargets, Top
    <3>3. CASE d # Depth
      BY <2>10, <3>1, <3>3
    <3> QED BY <3>2, <3>3
  <2>14. verdict' = "running"
    BY <2>1, <2>2
  <2> QED BY <2>1, <2>3, <2>6, <2>11, <2>13, <2>14, EnqueueBranch
<1>2. CASE ~(Depth >= 2 /\ Top.label = "if" /\ CheckBlock)
  BY <1>2, RejectBranch DEF Else
<1> QED BY <1>1, <1>2

(* END writes the targets of the block it closes into the table.           *)
LEMMA ResolveRight ==
  ASSUME TypeOK, NEW end \in Nat, NEW b \in BlockSet, NEW e \in EntrySet,
         e.op = "if" => b.elseIp # 0 /\ (ElseBefore(b.elseIp) \/ ReadAt(b.elseIp, b.elseIdx)),
         b.label = "loop" => ReadAt(b.start, b.endIdx),
         ReadAt(end, Len(table))
  PROVE  LeadsRight(Resolve(e, b, end)) /\ Resolve(e, b, end).resolved
<1> DEFINE r == Resolve(e, b, end)
           target == IF e.op = "if"           THEN [ip |-> b.elseIp, idx |-> b.elseIdx]
                     ELSE IF b.label = "loop" THEN [ip |-> b.start,  idx |-> b.endIdx]
                     ELSE [ip |-> end, idx |-> Len(table)]
<1>0. r = [e EXCEPT !.resolved = TRUE, !.ip = target.ip, !.idx = target.idx]
  BY DEF Resolve
<1>1. /\ e.op = "if" => target = [ip |-> b.elseIp, idx |-> b.elseIdx]
      /\ e.op # "if" /\ b.label = "loop" => target = [ip |-> b.start, idx |-> b.endIdx]
      /\ e.op # "if" /\ b.label # "loop" => target = [ip |-> end, idx |-> Len(table)]
  OBVIOUS
<1> SUFFICES LeadsRight(r) /\ r.resolved
  OBVIOUS
<1> HIDE DEF target, r
<1>2. r.op = e.op /\ r.resolved /\ r.ip = target.ip /\ r.idx = target.idx
  BY <1>0 DEF EntrySet
<1>3. CASE e.op = "if"
  BY <1>1, <1>2, <1>3 DEF LeadsRight
<1>4. CASE e.op # "if" /\ b.label = "loop"
  BY <1>1, <1>2, <1>4 DEF LeadsRight
<1>5. CASE e.op # "if" /\ b.label # "loop"
  BY <1>1, <1>2, <1>5 DEF LeadsRight
<1> QED BY <1>3, <1>4, <1>5

LEMMA EndBranch == IInv /\ End => BranchInv'
<1> SUFFICES ASSUME IInv, End PROVE BranchInv'
  OBVIOUS
<1> DEFINE end == Len(code) + 1
           n == Len(table)
           b == IF NoElse THEN [Top EXCEPT !.elseIp = end, !.elseIdx = n] ELSE Top
<1>1. CASE CheckBlock /\ (NoElse => Top.type.param = Top.type.result)
  <2>1. TypeOK /\ labels = <<>> /\ verdict = "running" /\ blocks # <<>> /\ BranchInv
    BY DEF IInv, TypeInv, End, Reading
  <2>2. /\ \E found, dead, peak, st : Arrive([op |-> "end"], found, dead, peak, st)
        /\ table' = [k \in DOMAIN table |->
                       IF k \in b.queue THEN Resolve(table[k], b, end) ELSE table[k]]
        /\ blocks' = SubSeq(blocks, 1, Depth - 1)
        /\ verdict' = IF Depth = 1 THEN "accepted" ELSE verdict
    BY <1>1 DEF End
  <2>3. Grown /\ ReadAt(end, n) /\ end \in Nat
    <3>1. /\ Grown /\ Len(code') = Len(code) + 1
          /\ seen'[Len(code) + 1].emitted = n
      BY <2>1, <2>2, ReadGrows
    <3> QED BY <2>1, <3>1, Domains DEF ReadAt
  <2>4. /\ blocks \in Seq(BlockSet) /\ Depth \in Nat \ {0} /\ Depth = Len(blocks)
        /\ n \in Nat /\ DOMAIN table = 1 .. n
        /\ \A k \in 1 .. n : table[k] \in EntrySet
    BY <2>1, Domains DEF TypeOK, Depth
  <2>5. Top \in BlockSet /\ Top = blocks[Depth] /\ Depth \in 1 .. Depth
    BY <2>4 DEF Top
  <2>6. /\ b \in BlockSet /\ b.queue = Top.queue /\ b.label = Top.label
        /\ b.start = Top.start /\ b.endIdx = Top.endIdx
        /\ IF NoElse THEN b.elseIp = end /\ b.elseIdx = n ELSE b.elseIp = Top.elseIp
    <3>1. CASE NoElse
      BY <2>3, <2>4, <2>5, <3>1 DEF BlockSet
    <3>2. CASE ~NoElse
      BY <2>5, <3>2
    <3> QED BY <3>1, <3>2
  <2>7. b.label = "if" => b.elseIp # 0 /\ (ElseBefore(b.elseIp) \/ ReadAt(b.elseIp, b.elseIdx))
    <3>1. CASE NoElse
      BY <2>1, <2>3, <2>6, <3>1, Domains
    <3>2. CASE ~NoElse
      <4>1. KnowsTargets(Top)
        BY <2>1, <2>3, <2>5, BlockGrows DEF BranchInv
      <4> QED BY <2>6, <3>2, <4>1 DEF NoElse, KnowsTargets
    <3> QED BY <3>1, <3>2
  <2>8. b.label = "loop" => ReadAt(b.start, b.endIdx)
    <3>1. Top.start \in Nat /\ Top.endIdx \in Nat
      BY <2>5 DEF BlockSet
    <3> QED BY <2>1, <2>3, <2>5, <2>6, <3>1 DEF BranchInv, LoopPositions, Grown
  <2> HIDE DEF end, n, b
  <2>9. ASSUME NEW k \in 1 .. n
        PROVE  IF k \in b.queue
               THEN table'[k].resolved /\ LeadsRight(table'[k])
               ELSE table'[k] = table[k]
    <3>1. CASE k \in b.queue
      <4>1. table'[k] = Resolve(table[k], b, end)
        BY <2>2, <2>4, <3>1
      <4>2. table[k].op = "if" => b.label = "if"
        BY <2>1, <2>5, <2>6, <3>1 DEF BranchInv, IfQueued
      <4> QED BY <2>1, <2>3, <2>4, <2>6, <2>7, <2>8, <3>1, <4>1, <4>2, ResolveRight DEF n
    <3>2. CASE k \notin b.queue
      BY <2>2, <2>4, <3>2
    <3> QED BY <3>1, <3>2
  <2>10. table' \in [1 .. n -> EntrySet] /\ DOMAIN table' = 1 .. n /\ Len(table') = n
    <3>1. \A k \in 1 .. n : Resolve(table[k], b, end) \in EntrySet
      BY <2>1, <2>3, <2>4, <2>6, ResolveType
    <3>2. table' \in [1 .. n -> EntrySet]
      BY <2>2, <2>4, <3>1
    <3> QED BY <2>4, <3>2
  <2>11. Depth' = Depth - 1 /\ Len(blocks') = Depth - 1
         /\ \A d \in 1 .. Depth' : d \in 1 .. Depth /\ d # Depth /\ blocks'[d] = blocks[d]
    <3>1. Len(blocks') = Depth - 1 /\ \A d \in 1 .. Depth - 1 : blocks'[d] = blocks[d]
      BY <2>2, <2>4
    <3>2. Depth' = Depth - 1
      BY <3>1 DEF Depth
    <3> QED BY <2>4, <3>1, <3>2
  <2>12. ASSUME NEW d \in 1 .. Depth', NEW k \in blocks[d].queue
         PROVE  k \in 1 .. n /\ k \notin b.queue
    BY <2>1, <2>4, <2>5, <2>6, <2>11 DEF BranchInv, EntriesOwned
  <2>13. LoopPositions' /\ ElsePositions' /\ ResolvedTargets'
    <3>1. \A d \in 1 .. Depth' : KnowsTargets(blocks'[d])
      BY <2>1, <2>3, <2>11, BlockGrows DEF BranchInv
    <3>2. ASSUME NEW k \in 1 .. Len(table'), table'[k].resolved
          PROVE  LeadsRight(table'[k])
      <4>1. k \in 1 .. Len(table)
        BY <2>10 DEF n
      <4> QED BY <2>1, <2>3, <2>9, <2>10, <3>2, <4>1, TargetGrows DEF BranchInv
    <3>3. Depth' \in Nat
      BY <2>4, <2>11
    <3>4. Grown /\ DOMAIN table' = 1 .. Len(table')
      BY <2>3, <2>10
    <3> QED BY <3>1, <3>2, <3>3, <3>4, TargetsKept, Zenon
  <2>14. IfQueued'
    BY <2>1, <2>9, <2>11, <2>12 DEF BranchInv, IfQueued
  <2>15. EntriesOwned'
    <3>1. \A d \in 1 .. Depth' : blocks'[d].queue \subseteq DOMAIN table'
      BY <2>10, <2>11, <2>12
    <3>2. ASSUME NEW k \in 1 .. n
          PROVE  IF table'[k].resolved
                 THEN \A d \in 1 .. Depth' : k \notin blocks'[d].queue
                 ELSE \E d \in 1 .. Depth' :
                        /\ k \in blocks'[d].queue
                        /\ \A c \in 1 .. Depth' : k \in blocks'[c].queue => c = d
      <4>1. CASE k \in b.queue
        BY <2>9, <2>11, <2>12, <4>1
      <4>2. CASE k \notin b.queue /\ table[k].resolved
        BY <2>1, <2>4, <2>9, <2>11, <4>2 DEF BranchInv, EntriesOwned
      <4>3. CASE k \notin b.queue /\ ~table[k].resolved
        <5>1. PICK d \in 1 .. Depth :
                /\ k \in blocks[d].queue
                /\ \A c \in 1 .. Depth : k \in blocks[c].queue => c = d
          BY <2>1, <2>4, <4>3 DEF BranchInv, EntriesOwned
        <5>2. d # Depth
          BY <2>5, <2>6, <4>3, <5>1
        <5>3. d \in 1 .. Depth' /\ k \in blocks'[d].queue
          <6>1. d \in 1 .. Depth'
            <7>1. Depth' = Depth - 1 /\ Depth \in Nat \ {0}
              BY <2>4, <2>11
            <7> QED BY <5>1, <5>2, <7>1
          <6> QED BY <2>11, <5>1, <6>1
        <5>4. \A c \in 1 .. Depth' : k \in blocks'[c].queue => c = d
          BY <2>11, <5>1
        <5> QED BY <2>9, <4>3, <5>3, <5>4
      <4> QED BY <4>1, <4>2, <4>3
    <3> QED BY <2>10, <3>1, <3>2 DEF EntriesOwned
  <2>16. NothingOpen'
    <3>1. SUFFICES ASSUME verdict' = "accepted" PROVE blocks' = <<>>
      BY DEF NothingOpen
    <3>2. Depth = 1
      BY <2>1, <2>2, <3>1
    <3> QED BY <2>2, <2>4, <3>2
  <2> QED BY <2>13, <2>14, <2>15, <2>16 DEF BranchInv
<1>2. CASE ~(CheckBlock /\ (NoElse => Top.type.param = Top.type.result))
  BY <1>2, RejectBranch DEF End
<1> QED BY <1>1, <1>2


(* What is read in one piece and touches neither table nor blocks.         *)
LEMMA OperandsBranch ==
  ASSUME IInv,
         NEW instr, NEW pop, NEW push, labels = <<>>,
         Operate(instr, pop, push) \/ Reject
  PROVE  BranchInv'
BY OperateBranch, RejectBranch DEF IInv, TypeInv

LEMMA NopBranch == IInv /\ Nop => BranchInv'
BY OperandsBranch DEF Nop, Reading

LEMMA CallBranch == ASSUME NEW f PROVE IInv /\ Call(f) => BranchInv'
BY OperandsBranch DEF Call, Reading

LEMMA CallIndirectBranch == ASSUME NEW t PROVE IInv /\ CallIndirect(t) => BranchInv'
BY OperandsBranch DEF CallIndirect, Reading

LEMMA DropSelectBranch == IInv /\ (Drop \/ Select) => BranchInv'
BY OperandsBranch DEF Drop, Select, Reading

LEMMA LocalBranch ==
  ASSUME NEW l
  PROVE  IInv /\ (GetLocal(l) \/ SetLocal(l) \/ TeeLocal(l)) => BranchInv'
<1>1. IInv /\ GetLocal(l) => BranchInv'
  BY OperandsBranch DEF GetLocal, Reading
<1>2. IInv /\ SetLocal(l) => BranchInv'
  BY OperandsBranch DEF SetLocal, Reading
<1>3. IInv /\ TeeLocal(l) => BranchInv'
  BY OperandsBranch DEF TeeLocal, Reading
<1> QED BY <1>1, <1>2, <1>3

LEMMA GlobalBranch ==
  ASSUME NEW g
  PROVE  IInv /\ (GetGlobal(g) \/ SetGlobal(g)) => BranchInv'
<1>1. IInv /\ GetGlobal(g) => BranchInv'
  BY OperandsBranch DEF GetGlobal, Reading
<1>2. IInv /\ SetGlobal(g) => BranchInv'
  BY OperandsBranch DEF SetGlobal, Reading
<1> QED BY <1>1, <1>2

LEMMA PlainOpBranch == ASSUME NEW sig PROVE IInv /\ PlainOp(sig) => BranchInv'
BY OperandsBranch DEF PlainOp, Reading

-----------------------------------------------------------------------------
LEMMA InitBranch == Init => BranchInv
<1> SUFFICES ASSUME Init PROVE BranchInv
  OBVIOUS
<1>1. Depth = 1 /\ blocks[1].label = "function" /\ blocks[1].elseIp = 0 /\ blocks[1].queue = {}
  BY DEF Init, Depth
<1>2. DOMAIN table = {} /\ verdict = "running"
  BY DEF Init
<1> QED
  BY <1>1, <1>2 DEF BranchInv, LoopPositions, ElsePositions, IfQueued, ResolvedTargets,
                    EntriesOwned, NothingOpen

LEMMA NextBranch == IInv /\ [Next]_vars => BranchInv'
<1> SUFFICES ASSUME IInv, [Next]_vars PROVE BranchInv'
  OBVIOUS
<1>1. CASE Control
  <2>1. CASE Unreachable \/ Nop \/ Else \/ End \/ Return
    BY <2>1, UnreachableBranch, NopBranch, ElseBranch, EndBranch, ReturnBranch
  <2>2. CASE \E label \in {"block", "loop", "if"}, type \in BlockTypes : OpenBlock(label, type)
    BY <2>2, OpenBlockBranch
  <2>3. CASE \E depth \in 0 .. MaxBlocks : Br(depth) \/ BrIf(depth)
    BY <2>3, BrBranch, BrIfBranch
  <2>4. CASE \E targets \in JumpTables : BrTable(targets)
    BY <2>4, BrTableBranch
  <2>5. CASE BrTableLabel
    BY <2>5, BrTableLabelBranch
  <2>6. CASE \E f \in 0 .. Len(Funcs) : Call(f)
    BY <2>6, CallBranch
  <2>7. CASE \E t \in 0 .. Len(Types) : CallIndirect(t)
    BY <2>7, CallIndirectBranch
  <2> QED BY <1>1, <2>1, <2>2, <2>3, <2>4, <2>5, <2>6, <2>7 DEF Control
<1>2. CASE Operands
  <2>1. CASE Drop \/ Select
    BY <2>1, DropSelectBranch
  <2>2. CASE \E l \in 0 .. Len(Locals) : GetLocal(l) \/ SetLocal(l) \/ TeeLocal(l)
    BY <2>2, LocalBranch
  <2>3. CASE \E g \in 0 .. Len(Globals) : GetGlobal(g) \/ SetGlobal(g)
    BY <2>3, GlobalBranch
  <2>4. CASE \E sig \in Plain : PlainOp(sig)
    BY <2>4, PlainOpBranch
  <2> QED BY <1>2, <2>1, <2>2, <2>3, <2>4 DEF Operands
<1>3. CASE Malformed
  BY <1>3, RejectBranch DEF Malformed
<1>4. CASE UNCHANGED vars
  <2>1. /\ UNCHANGED <<code, blocks, table, labels, verdict, seen>>
        /\ Depth' = Depth
    BY <1>4 DEF vars, brt, Depth
  <2> QED
    BY <2>1 DEF IInv, BranchInv, LoopPositions, ElsePositions, IfQueued, ResolvedTargets,
                EntriesOwned, NothingOpen, Position, AfterElse, InSync
<1> QED BY <1>1, <1>2, <1>3, <1>4 DEF Next

(* Every branch of every body waits with exactly one of the blocks still   *)
(* open until it is resolved: no END resolves another block's branch, and  *)
(* none is forgotten.                                                      *)
THEOREM Ownership == Spec => []EntriesOwned
<1>1. Init => IInv
  BY InitType, InitBranch DEF IInv
<1>2. IInv /\ [Next]_vars => IInv'
  BY NextType, NextBranch DEF IInv
<1>3. IInv => EntriesOwned
  BY DEF IInv, BranchInv
<1> QED BY <1>1, <1>2, <1>3, PTL DEF Spec

(* Every entry of the branch table of every accepted body leads to an      *)
(* instruction of the body and gives the cursor the position it must have  *)
(* there; the one exception is a false IF that continues in its ELSE.      *)
THEOREM BranchTargets == Spec => []TargetsInSync
<1>1. Init => IInv
  BY InitType, InitBranch DEF IInv
<1>2. IInv /\ [Next]_vars => IInv'
  BY NextType, NextBranch DEF IInv
<1>3. IInv => TargetsInSync
  <2> SUFFICES ASSUME IInv, verdict = "accepted", NEW k \in DOMAIN table
               PROVE  table[k].resolved /\ (InSync(table[k]) \/ IntoElse(table[k]))
    BY DEF TargetsInSync
  <2>1. BranchInv
    BY DEF IInv
  <2>2. Depth = 0
    BY <2>1 DEF BranchInv, NothingOpen, Depth
  <2>3. table[k].resolved
    BY <2>1, <2>2 DEF BranchInv, EntriesOwned
  <2> QED BY <2>1, <2>3 DEF BranchInv, ResolvedTargets, IntoElse, AfterElse
<1> QED BY <1>1, <1>2, <1>3, PTL DEF Spec

----------------------------------------------------------------------------
(* The cursor into the branch table                                        *)

(* The entries that the validator emits for an instruction.                *)
Entries(instr) ==
  IF instr.op = "br_table" THEN instr.count + 1
  ELSE IF instr.op \in {"if", "else", "br", "br_if"} THEN 1 ELSE 0

(* The entries of the first i instructions, and those of the i-th that are *)
(* still to come.                                                          *)
EntriesBy(i) == IF i = Len(code) THEN Len(table) ELSE seen[i + 1].emitted
Pending(i)   == IF i = Len(code) THEN Len(labels) ELSE 0

EntriesCounted ==
  \A i \in 1 .. Len(code) : EntriesBy(i) + Pending(i) = seen[i].emitted + Entries(code[i])

(* The entries between two positions are of the instruction there.         *)
EntriesMarked ==
  \A i \in 1 .. Len(code) :
    /\ EntriesBy(i) <= Len(table)
    /\ \A k \in seen[i].emitted + 1 .. EntriesBy(i) : table[k].op = code[i].op

NoneAtStart == IF code = <<>> THEN table = <<>> /\ labels = <<>> ELSE seen[1].emitted = 0

LabelsOfBrTable == labels # <<>> => code # <<>> /\ code[Len(code)].op = "br_table"

EndsInEnd == verdict = "accepted" => code # <<>> /\ code[Len(code)].op = "end" /\ labels = <<>>

CountInv == EntriesCounted /\ EntriesMarked /\ NoneAtStart /\ LabelsOfBrTable /\ EndsInEnd

-----------------------------------------------------------------------------
(* The entries already in the table remain and remain their instruction's. *)
KeepsEntries ==
  /\ Len(table) <= Len(table')
  /\ \A k \in 1 .. Len(table) : table'[k].op = table[k].op

(* instr is read and, now or as its labels are read, emits its entries.    *)
EmitsFor(instr) ==
  /\ KeepsEntries
  /\ Len(table') + Len(labels') = Len(table) + Entries(instr)
  /\ \A k \in Len(table) + 1 .. Len(table') : table'[k].op = instr.op
  /\ labels' # <<>> => instr.op = "br_table"
  /\ verdict' = "accepted" => instr.op = "end" /\ labels' = <<>>

LEMMA SeenType ==
  ASSUME TypeOK, NEW i \in 1 .. Len(code)
  PROVE  seen[i].emitted \in Nat /\ seen[i].dead \in BOOLEAN /\ seen[i].stack \in Seq(StackType)
<1> DEFINE S == [stack : Seq(StackType), emitted : Nat, dead : BOOLEAN]
<1>1. seen \in Seq(S) /\ i \in DOMAIN seen
  BY Domains DEF TypeOK
<1> HIDE DEF S
<1>2. seen[i] \in S
  BY <1>1
<1> QED BY <1>2 DEF S

LEMMA ReadCounts ==
  ASSUME TypeOK, labels' \in Seq(Nat), table' \in Seq(EntrySet), CountInv, labels = <<>>,
         NEW instr, NEW found, NEW dead, NEW peak, NEW st,
         Arrive(instr, found, dead, peak, st), EmitsFor(instr)
  PROVE  CountInv'
<1> DEFINE n == Len(code)
           t == Len(table)
<1>0. n \in Nat
  BY Domains
<1>1. /\ n \in Nat /\ Len(seen) = n /\ DOMAIN code = 1 .. n /\ DOMAIN seen = 1 .. n
      /\ t \in Nat /\ \A i \in 1 .. n : seen[i].emitted \in Nat
  BY Domains, SeenType
<1>2. code' = Append(code, instr)
      /\ seen' = Append(seen, [stack |-> found, emitted |-> t, dead |-> dead])
  BY DEF Arrive
<1>3. Len(code') = n + 1 /\ code'[n + 1] = instr /\ \A i \in 1 .. n : code'[i] = code[i]
  BY <1>1, <1>2 DEF TypeOK
<1>4. \A i \in 1 .. n : seen'[i] = seen[i]
  BY <1>1, <1>2 DEF TypeOK
<1>5. seen'[n + 1].emitted = t
  BY <1>1, <1>2 DEF TypeOK
<1>6. Len(labels) = 0 /\ Len(labels') \in Nat /\ Len(table') \in Nat
  OBVIOUS
<1>7. code' # <<>> /\ (n = 0 => code = <<>>)
  BY <1>1, <1>3 DEF TypeOK
<1>8. ASSUME NEW i \in 1 .. n
      PROVE  /\ EntriesBy(i)' = EntriesBy(i) /\ Pending(i)' = 0 /\ Pending(i) = 0
             /\ seen'[i].emitted = seen[i].emitted /\ code'[i] = code[i]
             /\ EntriesBy(i) \in Nat
  <2>1. CASE i = n
    <3>1. n + 1 # n /\ i + 1 = n + 1 /\ i = Len(code) /\ i # Len(code')
      BY <1>0, <1>3, <2>1
    <3>2. EntriesBy(i) = t /\ Pending(i) = 0
      BY <1>6, <3>1 DEF EntriesBy, Pending
    <3>3. EntriesBy(i)' = t /\ Pending(i)' = 0
      BY <1>5, <3>1 DEF EntriesBy, Pending
    <3> QED BY <1>1, <1>3, <1>4, <3>2, <3>3
  <2>2. CASE i # n
    <3>1. i + 1 \in 1 .. n
      BY <1>0, <2>2
    <3>2. i # Len(code) /\ i # Len(code')
      BY <1>0, <1>3, <2>2
    <3>3. EntriesBy(i) = seen[i + 1].emitted /\ Pending(i) = 0
      BY <3>2 DEF EntriesBy, Pending
    <3>4. EntriesBy(i)' = seen'[i + 1].emitted /\ Pending(i)' = 0
      BY <3>2 DEF EntriesBy, Pending
    <3>5. seen'[i + 1] = seen[i + 1] /\ seen[i + 1].emitted \in Nat
      BY <1>1, <1>4, <3>1
    <3> QED BY <1>3, <1>4, <3>3, <3>4, <3>5
  <2> QED BY <2>1, <2>2
<1>9. ASSUME NEW i \in 1 .. n + 1, i = n + 1
      PROVE  EntriesBy(i)' = Len(table') /\ Pending(i)' = Len(labels')
  BY <1>3, <1>9 DEF EntriesBy, Pending
<1> HIDE DEF n, t
<1>10. ASSUME NEW i \in 1 .. n + 1
       PROVE  EntriesBy(i)' + Pending(i)' = seen'[i].emitted + Entries(code'[i])
  <2>1. CASE i = n + 1
    BY <1>3, <1>5, <1>9, <2>1 DEF EmitsFor, t
  <2>2. CASE i # n + 1
    <3>1. i \in 1 .. n
      BY <1>1, <2>2
    <3> QED BY <1>8, <3>1 DEF CountInv, EntriesCounted, n
  <2> QED BY <2>1, <2>2
<1>11. ASSUME NEW i \in 1 .. n + 1
       PROVE  /\ EntriesBy(i)' <= Len(table')
              /\ \A k \in seen'[i].emitted + 1 .. EntriesBy(i)' : table'[k].op = code'[i].op
  <2>1. CASE i = n + 1
    BY <1>3, <1>5, <1>6, <1>9, <2>1 DEF EmitsFor, t
  <2>2. CASE i # n + 1
    <3>1. i \in 1 .. n
      BY <1>1, <2>2
    <3>2. /\ EntriesBy(i) <= t
          /\ \A k \in seen[i].emitted + 1 .. EntriesBy(i) : table[k].op = code[i].op
      BY <3>1 DEF CountInv, EntriesMarked, n, t
    <3>3. t <= Len(table') /\ \A k \in 1 .. t : table'[k].op = table[k].op
      BY DEF EmitsFor, KeepsEntries, t
    <3>4. EntriesBy(i)' <= Len(table')
      BY <1>1, <1>6, <1>8, <3>1, <3>2, <3>3
    <3>5. ASSUME NEW k \in seen'[i].emitted + 1 .. EntriesBy(i)'
          PROVE  table'[k].op = code'[i].op
      <4>1. k \in seen[i].emitted + 1 .. EntriesBy(i) /\ k \in 1 .. t
        BY <1>1, <1>8, <3>1, <3>2
      <4> QED BY <1>8, <3>1, <3>2, <3>3, <4>1
    <3> QED BY <3>4, <3>5
  <2> QED BY <2>1, <2>2
<1>12. EntriesCounted' /\ EntriesMarked'
  BY <1>3, <1>10, <1>11 DEF EntriesCounted, EntriesMarked
<1>13. NoneAtStart'
  <2>1. CASE n = 0
    <3>1. code = <<>>
      BY <1>7, <2>1
    <3>2. t = 0
      BY <3>1 DEF CountInv, NoneAtStart, t
    <3> QED BY <1>5, <1>7, <2>1, <3>2 DEF NoneAtStart
  <2>2. CASE n # 0
    <3>1. code # <<>> /\ 1 \in 1 .. n
      BY <1>1, <2>2 DEF n
    <3> QED BY <1>4, <1>7, <3>1 DEF CountInv, NoneAtStart
  <2> QED BY <2>1, <2>2
<1>14. LabelsOfBrTable' /\ EndsInEnd'
  BY <1>3, <1>7 DEF EmitsFor, LabelsOfBrTable, EndsInEnd
<1> QED BY <1>12, <1>13, <1>14 DEF CountInv

LEMMA RejectCounts == ASSUME Reject PROVE CountInv'
<1>1. code' = <<>> /\ table' = <<>> /\ labels' = <<>> /\ verdict' = "rejected"
  BY DEF Reject
<1> QED
  BY <1>1 DEF CountInv, EntriesCounted, EntriesMarked, NoneAtStart, LabelsOfBrTable, EndsInEnd

(* Before and after every step the variables have their types.             *)
Ready == TypeOK /\ TypeOK' /\ CountInv

(* Instructions that emit no entry, and those that emit one as they are    *)
(* read.                                                                   *)
LEMMA QuietCounts ==
  ASSUME Ready, labels = <<>>, verdict = "running", UNCHANGED <<table, brt, verdict>>,
         NEW instr, instr.op \notin {"br_table", "if", "else", "br", "br_if"},
         NEW found, NEW dead, NEW peak, NEW st, Arrive(instr, found, dead, peak, st)
  PROVE  CountInv'
<1>1. labels' = <<>> /\ table' = table /\ verdict' = "running"
  BY DEF brt
<1>2. Len(table) \in Nat /\ Len(labels') = 0 /\ Entries(instr) = 0
  BY <1>1, Domains DEF Ready, Entries
<1>3. Len(table) + 1 .. Len(table) = {}
  BY <1>2
<1>4. EmitsFor(instr)
  BY <1>1, <1>2, <1>3 DEF EmitsFor, KeepsEntries
<1> QED BY <1>4, ReadCounts DEF Ready, TypeOK

LEMMA OneCounts ==
  ASSUME Ready, labels = <<>>, verdict = "running", UNCHANGED <<brt, verdict>>,
         NEW instr, instr.op \in {"if", "else", "br", "br_if"},
         NEW e, e.op = instr.op, table' = Append(table, e),
         NEW found, NEW dead, NEW peak, NEW st, Arrive(instr, found, dead, peak, st)
  PROVE  CountInv'
<1>1. labels' = <<>> /\ verdict' = "running"
  BY DEF brt
<1>2. Len(table) \in Nat /\ Len(labels') = 0 /\ Entries(instr) = 1
  BY <1>1, Domains DEF Ready, Entries
<1>3. table \in Seq(EntrySet)
  BY DEF Ready, TypeOK
<1>4. /\ Len(table') = Len(table) + 1 /\ table'[Len(table) + 1] = e
      /\ \A k \in 1 .. Len(table) : table'[k] = table[k]
  BY <1>2, <1>3
<1>5. EmitsFor(instr)
  BY <1>1, <1>2, <1>4 DEF EmitsFor, KeepsEntries
<1> QED BY <1>5, ReadCounts DEF Ready, TypeOK

LEMMA OperateCounts ==
  ASSUME Ready, labels = <<>>, verdict = "running",
         NEW instr, instr.op \notin {"br_table", "if", "else", "br", "br_if"},
         NEW pop, NEW push, Operate(instr, pop, push) \/ Reject
  PROVE  CountInv'
<1>1. CASE Reject
  BY <1>1, RejectCounts
<1>2. CASE ~Reject
  <2>1. Operate(instr, pop, push) /\ PopOk(stack, pop)
    BY <1>2 DEF Operate
  <2> DEFINE st == AfterPop(stack, pop) \o push
  <2>2. Arrive(instr, stack, Dead(Depth), st, st) /\ UNCHANGED <<table, brt, verdict>>
    BY <2>1 DEF Operate, Read, ReadPeak
  <2> QED BY <2>2, QuietCounts
<1> QED BY <1>1, <1>2

-----------------------------------------------------------------------------
(* The actions, one lemma each.                                            *)
LEMMA FlowEndCounts == Ready /\ (Unreachable \/ Return) => CountInv'
<1>1. ASSUME Ready, Unreachable PROVE CountInv'
  <2>1. Arrive([op |-> "unreachable"], stack, Dead(Depth), BlockBase, BlockBase)
    BY <1>1 DEF Unreachable, Read, ReadPeak
  <2> QED BY <1>1, <2>1, QuietCounts DEF Unreachable, Reading
<1>2. ASSUME Ready, Return PROVE CountInv'
  <2>1. CASE PopOk(stack, FuncType.result)
    <3>1. Arrive([op |-> "return"], stack, Dead(Depth), BlockBase, BlockBase)
      BY <1>2, <2>1 DEF Return, Read, ReadPeak
    <3> QED BY <1>2, <2>1, <3>1, QuietCounts DEF Return, Reading
  <2>2. CASE ~PopOk(stack, FuncType.result)
    BY <1>2, <2>2, RejectCounts DEF Return
  <2> QED BY <2>1, <2>2
<1> QED BY <1>1, <1>2

LEMMA BrCounts == ASSUME NEW depth PROVE Ready /\ Br(depth) => CountInv'
<1> SUFFICES ASSUME Ready, Br(depth) PROVE CountInv'
  OBVIOUS
<1>1. CASE CheckBr(stack, depth)
  <2>1. /\ labels = <<>> /\ verdict = "running" /\ UNCHANGED <<brt, verdict>>
        /\ \E e : e.op = "br" /\ table' = Append(table, e)
    BY <1>1 DEF Br, Reading, Emit, Entry
  <2>2. \E found, dead, peak, st : Arrive([op |-> "br"], found, dead, peak, st)
    BY <1>1 DEF Br, ReadPeak
  <2> QED BY <2>1, <2>2, OneCounts
<1>2. CASE ~CheckBr(stack, depth)
  BY <1>2, RejectCounts DEF Br
<1> QED BY <1>1, <1>2

LEMMA BrIfCounts == ASSUME NEW depth PROVE Ready /\ BrIf(depth) => CountInv'
<1> SUFFICES ASSUME Ready, BrIf(depth) PROVE CountInv'
  OBVIOUS
<1> DEFINE checked == PopOk(stack, <<"I32">>) /\ CheckBr(AfterPop(stack, <<"I32">>), depth)
<1>1. CASE checked
  <2>1. /\ labels = <<>> /\ verdict = "running" /\ UNCHANGED <<brt, verdict>>
        /\ \E e : e.op = "br_if" /\ table' = Append(table, e)
    BY <1>1 DEF BrIf, Reading, Emit, Entry
  <2>2. \E found, dead, peak, st : Arrive([op |-> "br_if"], found, dead, peak, st)
    BY <1>1 DEF BrIf, Read, ReadPeak
  <2> QED BY <2>1, <2>2, OneCounts
<1>2. CASE ~checked
  BY <1>2, RejectCounts DEF BrIf
<1> QED BY <1>1, <1>2

(* BR_TABLE has all its entries to come.                                   *)
LEMMA BrTableCounts == ASSUME NEW targets \in JumpTables PROVE Ready /\ BrTable(targets) => CountInv'
<1> SUFFICES ASSUME Ready, BrTable(targets) PROVE CountInv'
  OBVIOUS
<1> DEFINE instr == [op |-> "br_table", count |-> Len(targets) - 1]
<1>1. CASE PopOk(stack, <<"I32">>)
  <2>1. /\ labels = <<>> /\ verdict = "running"
        /\ table' = table /\ verdict' = verdict /\ labels' = targets
    BY <1>1 DEF BrTable, Reading
  <2>2. \E found, dead, peak, st : Arrive(instr, found, dead, peak, st)
    BY <1>1 DEF BrTable, Read, ReadPeak
  <2>3. Len(targets) \in Nat /\ Len(table) \in Nat
    BY ValidatorAssumption, Domains DEF Ready
  <2>4. Entries(instr) = Len(targets) /\ instr.op = "br_table"
    BY <2>3 DEF Entries
  <2>5. Len(table) + 1 .. Len(table) = {}
    BY <2>3
  <2> HIDE DEF instr
  <2>6. EmitsFor(instr)
    BY <2>1, <2>3, <2>4, <2>5 DEF EmitsFor, KeepsEntries
  <2> QED BY <2>1, <2>2, <2>6, ReadCounts DEF Ready, TypeOK
<1>2. CASE ~PopOk(stack, <<"I32">>)
  BY <1>2, RejectCounts DEF BrTable
<1> QED BY <1>1, <1>2

(* One of them is emitted with every label.                                *)
LEMMA BrTableLabelCounts == Ready /\ BrTableLabel => CountInv'
<1> SUFFICES ASSUME Ready, BrTableLabel PROVE CountInv'
  OBVIOUS
<1> DEFINE types   == TableTypes(blocks[Depth - labels[1]])
           checked == CheckBr(stack, labels[1]) /\ retTypes \in {<<>>, <<types>>}
           n == Len(code)
           t == Len(table)
<1>1. CASE checked
  <2>1. /\ labels # <<>> /\ verdict = "running" /\ code' = code /\ seen' = seen
        /\ verdict' = verdict /\ labels' = Tail(labels)
    BY <1>1 DEF BrTableLabel
  <2>2. PICK e : e.op = "br_table" /\ table' = Append(table, e)
    BY <1>1 DEF BrTableLabel, Emit, Entry
  <2>3. /\ labels \in Seq(Nat) /\ table \in Seq(EntrySet) /\ t \in Nat /\ n \in Nat
        /\ code \in Seq(InstrSet)
    BY Domains DEF Ready, TypeOK
  <2>4. /\ Len(table') = t + 1 /\ table'[t + 1] = e
        /\ \A k \in 1 .. t : table'[k] = table[k]
    BY <2>2, <2>3
  <2>5. Len(labels) \in Nat /\ Len(labels') \in Nat /\ Len(labels) = Len(labels') + 1
    BY <2>1, <2>3
  <2>6. code # <<>> /\ code[n].op = "br_table"
    BY <2>1 DEF Ready, CountInv, LabelsOfBrTable
  <2>7. n \in 1 .. n
    BY <2>3, <2>6
  <2> HIDE DEF n, t
  <2>8. ASSUME NEW i \in 1 .. n
        PROVE  /\ EntriesBy(i)' = (IF i = n THEN EntriesBy(i) + 1 ELSE EntriesBy(i))
               /\ Pending(i) = (IF i = n THEN Pending(i)' + 1 ELSE Pending(i)')
               /\ Pending(i)' \in Nat /\ EntriesBy(i) \in Nat /\ seen[i].emitted \in Nat
    <3>1. seen[i].emitted \in Nat /\ (i # n => i + 1 \in 1 .. n /\ seen[i + 1].emitted \in Nat)
      BY <2>3, SeenType DEF Ready, n
    <3> QED BY <2>1, <2>3, <2>4, <2>5, <3>1 DEF EntriesBy, Pending, n, t
  <2>9. ASSUME NEW i \in 1 .. n
        PROVE  /\ EntriesBy(i) + Pending(i) = seen[i].emitted + Entries(code[i])
               /\ EntriesBy(i) <= t
               /\ \A k \in seen[i].emitted + 1 .. EntriesBy(i) : table[k].op = code[i].op
    BY DEF Ready, CountInv, EntriesCounted, EntriesMarked, n, t
  <2>10. EntriesCounted'
    <3>1. ASSUME NEW i \in 1 .. n
          PROVE  EntriesBy(i)' + Pending(i)' = seen[i].emitted + Entries(code[i])
      BY <2>8, <2>9
    <3> QED BY <2>1, <3>1 DEF EntriesCounted, n
  <2>11. EntriesBy(n) = t
    BY DEF EntriesBy, n, t
  <2>12. ASSUME NEW i \in 1 .. n
         PROVE  /\ EntriesBy(i)' <= t + 1
                /\ \A k \in seen[i].emitted + 1 .. EntriesBy(i)' : table'[k].op = code[i].op
    <3>0. /\ EntriesBy(i) \in Nat /\ EntriesBy(i) <= t /\ seen[i].emitted \in Nat
          /\ EntriesBy(i)' = (IF i = n THEN EntriesBy(i) + 1 ELSE EntriesBy(i))
      BY <2>8, <2>9
    <3>1. EntriesBy(i)' <= t + 1
      BY <2>3, <3>0
    <3>2. ASSUME NEW k \in seen[i].emitted + 1 .. EntriesBy(i)'
          PROVE  table'[k].op = code[i].op
      <4>1. CASE k = t + 1
        <5>1. i = n
          BY <2>3, <2>8, <2>9, <3>2, <4>1
        <5> QED BY <2>2, <2>4, <2>6, <4>1, <5>1
      <4>2. CASE k # t + 1
        <5>1. k \in seen[i].emitted + 1 .. EntriesBy(i) /\ k \in 1 .. t
          <6>1. i = n => EntriesBy(i) = t
            BY <2>11
          <6> QED BY <2>3, <3>0, <3>1, <3>2, <4>2, <6>1
        <5> QED BY <2>4, <2>9, <5>1
      <4> QED BY <4>1, <4>2
    <3> QED BY <3>1, <3>2
  <2>13. EntriesMarked'
    BY <2>1, <2>4, <2>12 DEF EntriesMarked, n
  <2>14. NoneAtStart' /\ LabelsOfBrTable' /\ EndsInEnd'
    BY <2>1, <2>6 DEF Ready, CountInv, NoneAtStart, LabelsOfBrTable, EndsInEnd, n
  <2> QED BY <2>10, <2>13, <2>14 DEF CountInv
<1>2. CASE ~checked
  BY <1>2, RejectCounts DEF BrTableLabel
<1> QED BY <1>1, <1>2

LEMMA OpenBlockCounts ==
  ASSUME NEW label \in {"block", "loop", "if"}, NEW type
  PROVE  Ready /\ OpenBlock(label, type) => CountInv'
<1> SUFFICES ASSUME Ready, OpenBlock(label, type) PROVE CountInv'
  OBVIOUS
<1> DEFINE pop   == IF label = "if" THEN Append(type.param, "I32") ELSE type.param
           instr == [op |-> label, type |-> type]
<1>1. CASE PopOk(stack, pop)
  <2>1. /\ labels = <<>> /\ verdict = "running" /\ UNCHANGED <<brt, verdict>>
        /\ IF label = "if" THEN table' = Append(table, Entry("if", 0, 0)) ELSE table' = table
    BY <1>1 DEF OpenBlock, Reading
  <2>2. \E found, dead, peak, st : Arrive(instr, found, dead, peak, st)
    BY <1>1 DEF OpenBlock, Read, ReadPeak
  <2>3. instr.op = label /\ Entry("if", 0, 0).op = "if"
    BY DEF Entry
  <2> HIDE DEF instr
  <2>4. CASE label = "if"
    BY <2>1, <2>2, <2>3, <2>4, OneCounts
  <2>5. CASE label # "if"
    BY <2>1, <2>2, <2>3, <2>5, QuietCounts
  <2> QED BY <2>4, <2>5
<1>2. CASE ~PopOk(stack, pop)
  BY <1>2, RejectCounts DEF OpenBlock
<1> QED BY <1>1, <1>2

LEMMA ElseCounts == Ready /\ Else => CountInv'
<1> SUFFICES ASSUME Ready, Else PROVE CountInv'
  OBVIOUS
<1> DEFINE checked == Depth >= 2 /\ Top.label = "if" /\ CheckBlock
<1>1. CASE checked
  <2>1. /\ labels = <<>> /\ verdict = "running" /\ UNCHANGED <<brt, verdict>>
        /\ table' = Append(table, Entry("else", 0, 0)) /\ Entry("else", 0, 0).op = "else"
    BY <1>1 DEF Else, Reading, Entry
  <2>2. \E found, dead, peak, st : Arrive([op |-> "else"], found, dead, peak, st)
    BY <1>1 DEF Else, ReadPeak
  <2> QED BY <2>1, <2>2, OneCounts
<1>2. CASE ~checked
  BY <1>2, RejectCounts DEF Else
<1> QED BY <1>1, <1>2

(* END resolves entries, which stay where and whose they are.              *)
LEMMA EndCounts == Ready /\ End => CountInv'
<1> SUFFICES ASSUME Ready, End PROVE CountInv'
  OBVIOUS
<1> DEFINE end == Len(code) + 1
           b == IF NoElse THEN [Top EXCEPT !.elseIp = end, !.elseIdx = Len(table)] ELSE Top
           checked == CheckBlock /\ (NoElse => Top.type.param = Top.type.result)
           instr == [op |-> "end"]
<1>1. CASE checked
  <2>1. /\ labels = <<>> /\ verdict = "running" /\ labels' = labels
        /\ table' = [k \in DOMAIN table |->
                       IF k \in b.queue THEN Resolve(table[k], b, end) ELSE table[k]]
    BY <1>1 DEF End, Reading, brt
  <2>2. \E found, dead, peak, st : Arrive(instr, found, dead, peak, st)
    BY <1>1 DEF End
  <2> HIDE DEF b, end
  <2>3. /\ table \in Seq(EntrySet) /\ Len(table) \in Nat /\ DOMAIN table = 1 .. Len(table)
        /\ table' \in Seq(EntrySet)
    BY Domains DEF Ready, TypeOK
  <2>4. Len(table') = Len(table)
    BY <2>1, <2>3
  <2>5. ASSUME NEW e \in EntrySet
        PROVE  Resolve(e, b, end).op = e.op
    <3> DEFINE target == IF e.op = "if"       THEN [ip |-> b.elseIp, idx |-> b.elseIdx]
                         ELSE IF b.label = "loop" THEN [ip |-> b.start,  idx |-> b.endIdx]
                         ELSE [ip |-> end, idx |-> Len(table)]
    <3>1. Resolve(e, b, end) = [e EXCEPT !.resolved = TRUE, !.ip = target.ip, !.idx = target.idx]
      BY DEF Resolve
    <3> HIDE DEF target
    <3> QED BY <3>1 DEF EntrySet
  <2>6. \A k \in 1 .. Len(table) : table'[k].op = table[k].op
    BY <2>1, <2>3, <2>5
  <2>7. Entries(instr) = 0 /\ instr.op = "end" /\ Len(labels) = 0
    BY <2>1 DEF Entries
  <2> HIDE DEF instr
  <2>8. Len(table) + 1 .. Len(table) = {}
    BY <2>3
  <2>9. EmitsFor(instr)
    BY <2>1, <2>3, <2>4, <2>6, <2>7, <2>8 DEF EmitsFor, KeepsEntries
  <2> QED BY <2>1, <2>2, <2>9, ReadCounts DEF Ready, TypeOK
<1>2. CASE ~checked
  BY <1>2, RejectCounts DEF End
<1> QED BY <1>1, <1>2

(* Instructions that only move operands, and calls.                        *)
LEMMA PlainCounts ==
  Ready /\ (Operands \/ Nop \/ (\E f \in Nat : Call(f)) \/ (\E t \in Nat : CallIndirect(t)))
    => CountInv'
<1> SUFFICES ASSUME Ready, Operands \/ Nop \/ (\E f \in Nat : Call(f)) \/ (\E t \in Nat : CallIndirect(t))
             PROVE  CountInv'
  OBVIOUS
<1>1. CASE Nop
  BY <1>1, OperateCounts DEF Nop, Reading
<1>2. ASSUME NEW f, Call(f) PROVE CountInv'
  BY <1>2, OperateCounts DEF Call, Reading
<1>3. ASSUME NEW t, CallIndirect(t) PROVE CountInv'
  BY <1>3, OperateCounts DEF CallIndirect, Reading
<1>4. CASE Drop
  BY <1>4, OperateCounts DEF Drop, Reading
<1>5. CASE Select
  BY <1>5, OperateCounts DEF Select, Reading
<1>6. ASSUME NEW l, GetLocal(l) PROVE CountInv'
  BY <1>6, OperateCounts DEF GetLocal, Reading, LocalInstr
<1>7. ASSUME NEW l, SetLocal(l) PROVE CountInv'
  BY <1>7, OperateCounts DEF SetLocal, Reading, LocalInstr
<1>8. ASSUME NEW l, TeeLocal(l) PROVE CountInv'
  BY <1>8, OperateCounts DEF TeeLocal, Reading, LocalInstr
<1>9. ASSUME NEW g, GetGlobal(g) PROVE CountInv'
  BY <1>9, OperateCounts DEF GetGlobal, Reading
<1>10. ASSUME NEW g, SetGlobal(g) PROVE CountInv'
  BY <1>10, OperateCounts DEF SetGlobal, Reading
<1>11. ASSUME NEW sig, PlainOp(sig) PROVE CountInv'
  BY <1>11, OperateCounts DEF PlainOp, Reading
<1> QED
  BY <1>1, <1>2, <1>3, <1>4, <1>5, <1>6, <1>7, <1>8, <1>9, <1>10, <1>11 DEF Operands

LEMMA InitCounts == Init => CountInv
<1> SUFFICES ASSUME Init PROVE CountInv
  OBVIOUS
<1>1. code = <<>> /\ table = <<>> /\ labels = <<>> /\ verdict = "running"
  BY DEF Init
<1> QED
  BY <1>1 DEF CountInv, EntriesCounted, EntriesMarked, NoneAtStart, LabelsOfBrTable, EndsInEnd

LEMMA NextCounts == TypeInv /\ CountInv /\ [Next]_vars => CountInv'
<1> SUFFICES ASSUME TypeInv, CountInv, [Next]_vars PROVE CountInv'
  OBVIOUS
<1>1. Ready
  BY NextType DEF Ready, TypeInv
<1>2. CASE Control
  <2>1. CASE Unreachable \/ Return
    BY <1>1, <2>1, FlowEndCounts
  <2>2. CASE Else
    BY <1>1, <2>2, ElseCounts
  <2>3. CASE End
    BY <1>1, <2>3, EndCounts
  <2>4. CASE \E label \in {"block", "loop", "if"}, type \in BlockTypes : OpenBlock(label, type)
    BY <1>1, <2>4, OpenBlockCounts
  <2>5. CASE \E depth \in 0 .. MaxBlocks : Br(depth) \/ BrIf(depth)
    BY <1>1, <2>5, BrCounts, BrIfCounts
  <2>6. CASE \E targets \in JumpTables : BrTable(targets)
    BY <1>1, <2>6, BrTableCounts
  <2>7. CASE BrTableLabel
    BY <1>1, <2>7, BrTableLabelCounts
  <2>8. CASE Nop
    BY <1>1, <2>8, PlainCounts
  <2>9. CASE \E f \in 0 .. Len(Funcs) : Call(f)
    BY <1>1, <2>9, PlainCounts
  <2>10. CASE \E t \in 0 .. Len(Types) : CallIndirect(t)
    BY <1>1, <2>10, PlainCounts
  <2> QED BY <1>2, <2>1, <2>2, <2>3, <2>4, <2>5, <2>6, <2>7, <2>8, <2>9, <2>10 DEF Control
<1>3. CASE Operands
  BY <1>1, <1>3, PlainCounts
<1>4. CASE Malformed
  BY <1>4, RejectCounts DEF Malformed
<1>5. CASE UNCHANGED vars
  <2>1. UNCHANGED <<code, seen, table, labels, verdict>>
    BY <1>5 DEF vars, brt
  <2> QED
    BY <2>1 DEF CountInv, EntriesCounted, EntriesMarked, NoneAtStart, LabelsOfBrTable,
                EndsInEnd, EntriesBy, Pending
<1> QED BY <1>2, <1>3, <1>4, <1>5 DEF Next

-----------------------------------------------------------------------------
(* What the interpreter relies on in an accepted body: the instruction     *)
(* after one that is not the last is preceded by its entries, and each of  *)
(* its entries leads to an instruction and its position.                   *)
OnCourse(i, c) == i \in DOMAIN code /\ c = seen[i].emitted

LEMMA Successor ==
  ASSUME NEW n \in Nat, NEW i \in 1 .. n, i # n
  PROVE  i + 1 \in 1 .. n
OBVIOUS

LEMMA FallThrough ==
  ASSUME IInv, CountInv, verdict = "accepted", NEW i, NEW c, OnCourse(i, c),
         code[i].op # "end"
  PROVE  OnCourse(i + 1, c + Entries(code[i]))
<1>1. /\ code # <<>> /\ code[Len(code)].op = "end" /\ Len(labels) = 0
      /\ i \in 1 .. Len(code) /\ Len(code) \in Nat /\ DOMAIN code = 1 .. Len(code)
  BY Domains DEF IInv, TypeInv, CountInv, EndsInEnd, OnCourse
<1>2. i # Len(code)
  BY <1>1
<1>3. i + 1 \in DOMAIN code
  BY <1>1, <1>2, Successor
<1>4. EntriesBy(i) = seen[i + 1].emitted /\ Pending(i) = 0
  BY <1>2 DEF EntriesBy, Pending
<1>5. seen[i + 1].emitted \in Nat
  BY <1>1, <1>3, SeenType DEF IInv, TypeInv
<1>6. EntriesBy(i) + Pending(i) = seen[i].emitted + Entries(code[i])
  BY <1>1 DEF CountInv, EntriesCounted
<1> QED BY <1>3, <1>4, <1>5, <1>6 DEF OnCourse

LEMMA AcceptedTargets == IInv /\ verdict = "accepted" => TargetsInSync
<1> SUFFICES ASSUME IInv, verdict = "accepted", NEW k \in DOMAIN table
             PROVE  table[k].resolved /\ (InSync(table[k]) \/ IntoElse(table[k]))
  BY DEF TargetsInSync
<1>1. BranchInv
  BY DEF IInv
<1>2. Depth = 0
  BY <1>1 DEF BranchInv, NothingOpen, Depth
<1>3. table[k].resolved
  BY <1>1, <1>2 DEF BranchInv, EntriesOwned
<1> QED BY <1>1, <1>3 DEF BranchInv, ResolvedTargets, IntoElse, AfterElse

LEMMA EntryLands ==
  ASSUME IInv, CountInv, verdict = "accepted", NEW i, NEW c, OnCourse(i, c),
         NEW k \in 1 .. Entries(code[i])
  PROVE  /\ c + k \in DOMAIN table /\ c + k <= EntriesBy(i)
         /\ table[c + k].op = code[i].op /\ table[c + k].resolved
         /\ OnCourse(table[c + k].ip, table[c + k].idx) \/ IntoElse(table[c + k])
<1>1. /\ Len(labels) = 0 /\ i \in 1 .. Len(code) /\ DOMAIN code = 1 .. Len(code)
      /\ DOMAIN table = 1 .. Len(table) /\ Len(table) \in Nat
  BY Domains DEF IInv, TypeInv, CountInv, EndsInEnd, OnCourse
<1>2. c \in Nat /\ c = seen[i].emitted
  BY <1>1, SeenType DEF IInv, TypeInv, OnCourse
<1>3. Pending(i) = 0 /\ EntriesBy(i) \in Nat
  <2>1. CASE i = Len(code)
    BY <1>1, <2>1 DEF Pending, EntriesBy
  <2>2. CASE i # Len(code)
    <3>1. Len(code) \in Nat
      BY Domains DEF IInv, TypeInv
    <3>2. i + 1 \in 1 .. Len(code)
      BY <1>1, <2>2, <3>1, Successor
    <3> QED BY <2>2, <3>2, SeenType DEF Pending, EntriesBy, IInv, TypeInv
  <2> QED BY <2>1, <2>2
<1>4. EntriesBy(i) + Pending(i) = c + Entries(code[i]) /\ EntriesBy(i) <= Len(table)
  BY <1>1, <1>2 DEF CountInv, EntriesCounted, EntriesMarked
<1>5. Entries(code[i]) \in Int
  <2>1. CASE code[i].op = "br_table"
    <3>1. code[i] \in InstrSet
      BY <1>1 DEF IInv, TypeInv, TypeOK
    <3>2. code[i].count \in Nat
      BY <2>1, <3>1 DEF InstrSet
    <3> QED BY <2>1, <3>2 DEF Entries
  <2>2. CASE code[i].op # "br_table"
    BY <2>2 DEF Entries
  <2> QED BY <2>1, <2>2
<1>6. c + k \in c + 1 .. EntriesBy(i) /\ c + k \in DOMAIN table /\ c + k <= EntriesBy(i)
  BY <1>1, <1>2, <1>3, <1>4, <1>5
<1>7. table[c + k].op = code[i].op
  BY <1>1, <1>2, <1>6 DEF CountInv, EntriesMarked
<1>8. table[c + k].resolved /\ (InSync(table[c + k]) \/ IntoElse(table[c + k]))
  BY <1>6, AcceptedTargets DEF TargetsInSync
<1> QED BY <1>6, <1>7, <1>8 DEF InSync, OnCourse

-----------------------------------------------------------------------------
(* The execution and the calls that wait for it are on course.             *)
CallersOnCourse == \A k \in 2 .. Len(frames) : OnCourse(frames[k].ip, frames[k].cur)

FramesSequence == frames # <<>> /\ \E S : frames \in Seq(S)

ExecInv ==
  /\ status # "idle" => verdict = "accepted"
  /\ Running({}) => OnCourse(ip, cur) /\ CallersOnCourse /\ FramesSequence

CursorInv == IInv /\ CountInv /\ ExecInv

(* An instruction is executed without a known fault so far.                *)
LEMMA Executing ==
  ASSUME CursorInv, NEW op, Exec(op)
  PROVE  /\ verdict = "accepted" /\ verdict' = verdict /\ code' = code /\ seen' = seen
         /\ code[ip].op = op /\ OnCourse(ip, cur) /\ CallersOnCourse /\ FramesSequence
BY DEF CursorInv, ExecInv, Exec, Running, vars

(* Another instruction of the same call is next.                           *)
LEMMA StepOn ==
  ASSUME CursorInv, NEW op, Exec(op), UNCHANGED <<frames>>, OnCourse(ip', cur')
  PROVE  ExecInv'
<1>1. /\ verdict' = "accepted" /\ code' = code /\ seen' = seen /\ frames' = frames
      /\ CallersOnCourse /\ FramesSequence
  BY Executing
<1> QED BY <1>1 DEF ExecInv, OnCourse, CallersOnCourse, FramesSequence

(* Whatever follows is not followed further.                               *)
LEMMA StepOff ==
  ASSUME CursorInv, NEW op, Exec(op), status' # "running" \/ defect' # {}
  PROVE  ExecInv'
BY Executing DEF ExecInv, Running

LEMMA ProceedOnCourse ==
  ASSUME CursorInv, NEW op, Exec(op), Entries(code[ip]) = 0, NEW st,
         op # "end" \/ ip # Len(code), Proceed(st)
  PROVE  ExecInv'
<1>1. OnCourse(ip, cur) /\ code[ip].op = op /\ verdict = "accepted"
  BY Executing
<1>2. cur \in Nat
  BY <1>1, Domains, SeenType DEF CursorInv, IInv, TypeInv, OnCourse
<1>3. OnCourse(ip + 1, cur)
  <2>1. CASE op # "end"
    BY <1>1, <1>2, <2>1, FallThrough DEF CursorInv
  <2>2. CASE ip # Len(code)
    <3>1. /\ Len(labels) = 0 /\ ip \in 1 .. Len(code) /\ Len(code) \in Nat
          /\ DOMAIN code = 1 .. Len(code)
      BY <1>1, Domains DEF CursorInv, IInv, TypeInv, CountInv, EndsInEnd, OnCourse
    <3>2. ip + 1 \in DOMAIN code
      BY <2>2, <3>1, Successor
    <3>3. EntriesBy(ip) + Pending(ip) = cur + 0
      BY <1>1, <3>1 DEF CursorInv, CountInv, EntriesCounted, OnCourse
    <3>4. EntriesBy(ip) = seen[ip + 1].emitted /\ Pending(ip) = 0
      BY <2>2 DEF EntriesBy, Pending
    <3>5. seen[ip + 1].emitted \in Nat
      BY <3>1, <3>2, SeenType DEF CursorInv, IInv, TypeInv
    <3> QED BY <1>2, <3>2, <3>3, <3>4, <3>5 DEF OnCourse
  <2> QED BY <2>1, <2>2
<1> QED BY <1>3, StepOn DEF Proceed, Goto

LEMMA TransferOnCourse ==
  ASSUME CursorInv, NEW op, Exec(op), op # "if", NEW k \in 1 .. Entries(code[ip]), NEW sp,
         Transfer(table[cur + k], sp)
  PROVE  ExecInv'
<1>1. OnCourse(ip, cur) /\ code[ip].op = op /\ verdict = "accepted"
  BY Executing
<1>2. OnCourse(table[cur + k].ip, table[cur + k].idx)
  BY <1>1, EntryLands DEF CursorInv, IntoElse
<1> QED BY <1>2, StepOn DEF Transfer, Goto

LEMMA PassOnCourse ==
  ASSUME CursorInv, NEW op, Exec(op), op # "end", NEW st, Pass(st, Entries(code[ip]))
  PROVE  ExecInv'
<1>1. OnCourse(ip, cur) /\ code[ip].op = op /\ verdict = "accepted"
  BY Executing
<1>2. OnCourse(ip + 1, cur + Entries(code[ip]))
  BY <1>1, FallThrough DEF CursorInv
<1> QED BY <1>2, StepOn DEF Pass, Goto

(* A call saves where it goes on, and begins the body again.               *)
LEMMA CallOnCourse ==
  ASSUME CursorInv, NEW op, Exec(op), op # "end", Entries(code[ip]) = 0, NEW sp, CallBytecode(sp)
  PROVE  ExecInv'
<1>1. /\ verdict = "accepted" /\ verdict' = verdict /\ code' = code /\ seen' = seen
      /\ code[ip].op = op /\ OnCourse(ip, cur) /\ CallersOnCourse /\ FramesSequence
  BY Executing
<1> DEFINE saved == [ip |-> ip + 1, sp |-> sp - ParamCells, lp |-> lp, cur |-> cur]
           f     == Len(frames)
<1>2. cur \in Nat
  BY <1>1, Domains, SeenType DEF CursorInv, IInv, TypeInv, OnCourse
<1>3. OnCourse(saved.ip, saved.cur)
  <2>1. OnCourse(ip + 1, cur + 0)
    BY <1>1, FallThrough DEF CursorInv
  <2> QED BY <1>2, <2>1
<1>4. frames' = Append(frames, saved) /\ ip' = 1 /\ cur' = 0
  BY DEF CallBytecode
<1> HIDE DEF saved
<1>5. PICK S : frames \in Seq(S)
  BY <1>1 DEF FramesSequence
<1>6. /\ f \in Nat /\ Len(frames') = f + 1 /\ frames'[f + 1] = saved
      /\ \A k \in 1 .. f : frames'[k] = frames[k]
  BY <1>4, <1>5
<1>7. frames' \in Seq(S \cup {saved}) /\ frames' # <<>>
  BY <1>4, <1>5
<1>8. ASSUME NEW k \in 2 .. Len(frames')
      PROVE  OnCourse(frames'[k].ip, frames'[k].cur)
  <2>1. CASE k = f + 1
    BY <1>3, <1>6, <2>1
  <2>2. CASE k # f + 1
    <3>1. k \in 2 .. f /\ k \in 1 .. f
      BY <1>6, <2>2
    <3> QED BY <1>1, <1>6, <3>1 DEF CallersOnCourse
  <2> QED BY <2>1, <2>2
<1>9. OnCourse(1, 0)
  <2>1. code # <<>>
    BY <1>1 DEF CursorInv, CountInv, EndsInEnd
  <2>2. 1 \in DOMAIN code
    BY <2>1 DEF CursorInv, IInv, TypeInv, TypeOK
  <2> QED BY <2>1, <2>2 DEF CursorInv, CountInv, NoneAtStart, OnCourse
<1>10. CallersOnCourse' /\ FramesSequence'
  BY <1>1, <1>7, <1>8 DEF CallersOnCourse, FramesSequence, OnCourse
<1> QED BY <1>1, <1>4, <1>9, <1>10 DEF ExecInv, OnCourse

LEMMA PrefixOf ==
  ASSUME NEW S, NEW s \in Seq(S), NEW n \in 0 .. Len(s)
  PROVE  \A k \in 1 .. n : SubSeq(s, 1, n)[k] = s[k]
OBVIOUS

(* A return goes on where the call was left, if one is waiting.            *)
LEMMA ReturnOnCourse ==
  ASSUME CursorInv, NEW op, Exec(op), ReturnFunc
  PROVE  ExecInv'
<1>1. /\ verdict = "accepted" /\ verdict' = verdict /\ code' = code /\ seen' = seen
      /\ CallersOnCourse /\ FramesSequence
  BY Executing
<1> DEFINE f == Len(frames)
<1>2. CASE f = 1
  BY <1>2, StepOff DEF ReturnFunc
<1>3. CASE f # 1
  <2>1. PICK S : frames \in Seq(S)
    BY <1>1 DEF FramesSequence
  <2>2. f \in Nat /\ f # 0
    BY <1>1, <2>1 DEF FramesSequence
  <2>3. frames' = SubSeq(frames, 1, f - 1)
    BY DEF ReturnFunc
  <2>4. /\ frames' \in Seq(S) /\ Len(frames') = f - 1
        /\ \A k \in 1 .. f - 1 : frames'[k] = frames[k]
    <3> HIDE DEF f
    <3>1. f - 1 \in 0 .. Len(frames)
      BY <2>2 DEF f
    <3> QED BY <2>1, <2>3, <3>1, PrefixType, PrefixOf
  <2>5. f \in 2 .. f /\ f - 1 # 0
    BY <1>3, <2>2
  <2>6. ip' = frames[f].ip /\ cur' = frames[f].cur
    BY <1>3 DEF ReturnFunc
  <2>7. OnCourse(ip', cur')
    BY <1>1, <2>5, <2>6 DEF CallersOnCourse
  <2>8. frames' # <<>>
    BY <2>4, <2>5
  <2>9. ASSUME NEW k \in 2 .. Len(frames')
        PROVE  OnCourse(frames'[k].ip, frames'[k].cur)
    <3>1. k \in 2 .. f /\ k \in 1 .. f - 1
      BY <2>2, <2>4
    <3> QED BY <1>1, <2>4, <3>1 DEF CallersOnCourse
  <2>10. CallersOnCourse' /\ FramesSequence'
    BY <1>1, <2>4, <2>8, <2>9 DEF CallersOnCourse, FramesSequence, OnCourse
  <2> QED BY <1>1, <2>7, <2>10 DEF ExecInv, OnCourse
<1> QED BY <1>2, <1>3

-----------------------------------------------------------------------------
(* The handlers, one lemma each.                                           *)
NoEntries == {"unreachable", "nop", "block", "loop", "plain", "end", "return", "call",
              "call_indirect", "drop", "select", "get_local", "set_local", "tee_local",
              "get_global", "set_global"}

LEMMA EmitsNone ==
  ASSUME CursorInv, NEW op \in NoEntries, Exec(op)
  PROVE  Entries(code[ip]) = 0
BY Executing DEF Entries, NoEntries

(* Handlers that go on with the next instruction, or trap.                 *)
LEMMA Straight ==
  ASSUME CursorInv, NEW op \in NoEntries, op # "end", Exec(op),
         Trap \/ \E st : Proceed(st)
  PROVE  ExecInv'
<1>1. CASE Trap
  BY <1>1, StepOff DEF Trap
<1>2. ASSUME NEW st, Proceed(st) PROVE ExecInv'
  BY <1>2, EmitsNone, ProceedOnCourse
<1> QED BY <1>1, <1>2

LEMMA StraightHandlers ==
  ASSUME CursorInv,
         \/ HandleUnreachable \/ HandleNop \/ HandlePlain \/ HandleDrop \/ HandleSelect
         \/ HandleGetLocal \/ HandleSetLocal \/ HandleTeeLocal
         \/ HandleGetGlobal \/ HandleSetGlobal
  PROVE  ExecInv'
<1>1. CASE HandleUnreachable
  BY <1>1, Straight DEF HandleUnreachable, NoEntries
<1>2. CASE HandleNop
  BY <1>2, Straight DEF HandleNop, NoEntries
<1>3. CASE HandlePlain
  BY <1>3, Straight DEF HandlePlain, NoEntries
<1>4. CASE HandleDrop
  BY <1>4, Straight DEF HandleDrop, NoEntries
<1>5. CASE HandleSelect
  BY <1>5, Straight DEF HandleSelect, NoEntries
<1>6. CASE HandleGetLocal
  BY <1>6, Straight DEF HandleGetLocal, NoEntries
<1>7. CASE HandleSetLocal
  BY <1>7, Straight DEF HandleSetLocal, NoEntries
<1>8. CASE HandleTeeLocal
  BY <1>8, Straight DEF HandleTeeLocal, NoEntries
<1>9. CASE HandleGetGlobal
  BY <1>9, Straight DEF HandleGetGlobal, NoEntries
<1>10. CASE HandleSetGlobal
  BY <1>10, Straight DEF HandleSetGlobal, NoEntries
<1> QED BY <1>1, <1>2, <1>3, <1>4, <1>5, <1>6, <1>7, <1>8, <1>9, <1>10

(* A false IF goes to its END in step; into its ELSE it goes with a known  *)
(* fault.                                                                  *)
LEMMA IfOnCourse == CursorInv /\ HandleIf => ExecInv'
<1> SUFFICES ASSUME CursorInv, HandleIf PROVE ExecInv'
  OBVIOUS
<1> DEFINE e == table[cur + 1]
<1>1. /\ Exec("if") /\ verdict = "accepted" /\ OnCourse(ip, cur) /\ code[ip].op = "if"
  BY Executing DEF HandleIf
<1>2. Entries(code[ip]) = 1
  BY <1>1 DEF Entries
<1>3. CASE Pass(Without(1), 1)
  BY <1>1, <1>2, <1>3, PassOnCourse
<1>4. CASE /\ Goto(Without(1), e.ip, e.idx)
           /\ defect' = IF IntoElse(e) THEN {"else_cursor"} ELSE {}
  <2>1. CASE IntoElse(e)
    BY <1>1, <1>4, <2>1, StepOff
  <2>2. CASE ~IntoElse(e)
    <3>1. OnCourse(e.ip, e.idx)
      BY <1>1, <1>2, <2>2, EntryLands DEF CursorInv
    <3> QED BY <1>1, <1>4, <3>1, StepOn DEF Goto
  <2> QED BY <2>1, <2>2
<1> QED BY <1>3, <1>4 DEF HandleIf

LEMMA ElseOnCourse == CursorInv /\ HandleElse => ExecInv'
<1> SUFFICES ASSUME CursorInv, HandleElse PROVE ExecInv'
  OBVIOUS
<1>1. /\ Exec("else") /\ verdict = "accepted" /\ OnCourse(ip, cur) /\ code[ip].op = "else"
  BY Executing DEF HandleElse
<1>2. Entries(code[ip]) = 1
  BY <1>1 DEF Entries
<1>3. OnCourse(table[cur + 1].ip, table[cur + 1].idx)
  BY <1>1, <1>2, EntryLands DEF CursorInv, IntoElse
<1> QED BY <1>1, <1>3, StepOn DEF HandleElse, Goto

LEMMA BranchesOnCourse == CursorInv /\ (HandleBr \/ HandleBrIf \/ HandleBrTable) => ExecInv'
<1> SUFFICES ASSUME CursorInv, HandleBr \/ HandleBrIf \/ HandleBrTable PROVE ExecInv'
  OBVIOUS
<1>1. CASE HandleBr
  <2>1. Exec("br") /\ Transfer(table[cur + 1], Len(vs)) /\ Entries(code[ip]) = 1
    BY <1>1, Executing DEF HandleBr, Entries
  <2> QED BY <2>1, TransferOnCourse
<1>2. CASE HandleBrIf
  <2>1. Exec("br_if") /\ Entries(code[ip]) = 1
    BY <1>2, Executing DEF HandleBrIf, Entries
  <2>2. CASE Transfer(table[cur + 1], Len(vs) - 1)
    BY <2>1, <2>2, TransferOnCourse
  <2>3. CASE Pass(Without(1), 1)
    BY <2>1, <2>3, PassOnCourse
  <2> QED BY <1>2, <2>2, <2>3 DEF HandleBrIf
<1>3. CASE HandleBrTable
  <2>1. /\ Exec("br_table") /\ code[ip].op = "br_table" /\ ip \in 1 .. Len(code)
        /\ Entries(code[ip]) = code[ip].count + 1
    BY <1>3, Domains, Executing DEF HandleBrTable, Entries, OnCourse, CursorInv, IInv, TypeInv
  <2>2. code[ip] \in InstrSet
    BY <2>1 DEF CursorInv, IInv, TypeInv, TypeOK
  <2>3. code[ip].count \in Nat
    BY <2>1, <2>2 DEF InstrSet
  <2>4. PICK lidx \in 0 .. code[ip].count : Transfer(table[cur + lidx + 1], Len(vs) - 1)
    BY <1>3 DEF HandleBrTable
  <2>5. cur \in Nat
    BY <2>1, SeenType, Executing DEF OnCourse, CursorInv, IInv, TypeInv
  <2>6. lidx + 1 \in 1 .. Entries(code[ip]) /\ cur + lidx + 1 = cur + (lidx + 1)
    BY <2>1, <2>3, <2>5
  <2> QED BY <2>1, <2>4, <2>6, TransferOnCourse
<1> QED BY <1>1, <1>2, <1>3

LEMMA EndOnCourse == CursorInv /\ (HandleEnd \/ HandleReturn) => ExecInv'
<1> SUFFICES ASSUME CursorInv, HandleEnd \/ HandleReturn PROVE ExecInv'
  OBVIOUS
<1>1. CASE HandleReturn
  BY <1>1, ReturnOnCourse DEF HandleReturn
<1>2. CASE HandleEnd
  <2>1. Exec("end") /\ Entries(code[ip]) = 0
    BY <1>2, EmitsNone DEF HandleEnd, NoEntries
  <2>2. CASE ip = Len(code)
    BY <1>2, <2>1, <2>2, ReturnOnCourse DEF HandleEnd
  <2>3. CASE ip # Len(code)
    BY <1>2, <2>1, <2>3, ProceedOnCourse DEF HandleEnd
  <2> QED BY <2>2, <2>3
<1> QED BY <1>1, <1>2

LEMMA CallsOnCourse == CursorInv /\ (HandleCall \/ HandleCallIndirect) => ExecInv'
<1> SUFFICES ASSUME CursorInv, HandleCall \/ HandleCallIndirect PROVE ExecInv'
  OBVIOUS
<1>1. PICK op \in {"call", "call_indirect"} : Exec(op)
                    /\ (Trap \/ \E f, sp : CallFunction(f, sp))
  BY DEF HandleCall, HandleCallIndirect
<1>2. op \in NoEntries /\ op # "end" /\ Entries(code[ip]) = 0
  BY <1>1, EmitsNone DEF NoEntries
<1>3. ASSUME NEW f, NEW sp, CallFunction(f, sp) PROVE ExecInv'
  <2>1. CASE f < Self
    <3>1. Trap \/ \E st : Proceed(st)
      BY <1>3, <2>1 DEF CallFunction, CallNative
    <3> QED BY <1>1, <1>2, <3>1, Straight
  <2>2. CASE ~(f < Self)
    BY <1>1, <1>2, <1>3, <2>2, CallOnCourse DEF CallFunction
  <2> QED BY <2>1, <2>2
<1>4. CASE Trap
  BY <1>1, <1>2, <1>4, Straight
<1> QED BY <1>1, <1>3, <1>4

(* An execution starts at the first instruction, which no entry precedes.  *)
LEMMA StartOnCourse == CursorInv /\ Start => ExecInv'
<1> SUFFICES ASSUME CursorInv, Start PROVE ExecInv'
  OBVIOUS
<1>1. PICK sp : /\ verdict = "accepted" /\ verdict' = verdict /\ code' = code /\ seen' = seen
                /\ ip' = 1 /\ cur' = 0
                /\ frames' = <<[ip |-> 0, sp |-> sp, lp |-> 0, cur |-> 0]>>
  BY DEF Start, StartMain, StartCalled, Begin, vars
<1>2. OnCourse(1, 0)
  <2>1. code # <<>>
    BY <1>1 DEF CursorInv, CountInv, EndsInEnd
  <2>2. 1 \in DOMAIN code
    BY <2>1 DEF CursorInv, IInv, TypeInv, TypeOK
  <2> QED BY <2>1, <2>2 DEF CursorInv, CountInv, NoneAtStart, OnCourse
<1> DEFINE first == [ip |-> 0, sp |-> sp, lp |-> 0, cur |-> 0]
<1>3. frames' \in Seq({first}) /\ Len(frames') = 1 /\ frames' # <<>>
  <2> HIDE DEF first
  <2>1. frames' = <<first>>
    BY <1>1 DEF first
  <2> QED BY <2>1
<1>4. CallersOnCourse' /\ FramesSequence'
  BY <1>3 DEF CallersOnCourse, FramesSequence
<1> QED BY <1>1, <1>2, <1>4 DEF ExecInv, OnCourse

-----------------------------------------------------------------------------
LEMMA IInitCursor == IInit => CursorInv
<1> SUFFICES ASSUME IInit PROVE CursorInv
  OBVIOUS
<1>1. Init /\ status = "idle"
  BY DEF IInit
<1> QED BY <1>1, InitType, InitBranch, InitCounts DEF CursorInv, IInv, ExecInv, Running

(* The validator has nothing more to do once it has accepted a body.       *)
LEMMA NextRuns == Next => verdict = "running"
BY DEF Next, Control, Operands, Malformed, Reading, Unreachable, Nop, Else, End, Return,
       OpenBlock, Br, BrIf, BrTable, BrTableLabel, Call, CallIndirect, Drop, Select,
       GetLocal, SetLocal, TeeLocal, GetGlobal, SetGlobal, PlainOp

LEMMA HandleKeeps == Start \/ Handle => UNCHANGED vars
BY DEF Start, StartMain, StartCalled, Begin, Handle, Exec,
       HandleUnreachable, HandleNop, HandlePlain, HandleIf, HandleElse, HandleEnd, HandleBr,
       HandleBrIf, HandleBrTable, HandleReturn, HandleCall, HandleCallIndirect, HandleDrop,
       HandleSelect, HandleGetLocal, HandleSetLocal, HandleTeeLocal, HandleGetGlobal,
       HandleSetGlobal

LEMMA INextCursor == CursorInv /\ [INext]_ivars => CursorInv'
<1> SUFFICES ASSUME CursorInv, [INext]_ivars PROVE CursorInv'
  OBVIOUS
<1>1. [Next]_vars
  BY HandleKeeps DEF INext, ivars
<1>2. IInv' /\ CountInv'
  BY <1>1, NextType, NextBranch, NextCounts DEF CursorInv, IInv
<1>3. CASE Next /\ UNCHANGED evars
  <2>1. status = "idle" /\ status' = status
    BY <1>3, NextRuns DEF CursorInv, ExecInv, evars
  <2> QED BY <1>2, <2>1 DEF CursorInv, ExecInv, Running
<1>4. CASE Start
  BY <1>2, <1>4, StartOnCourse DEF CursorInv
<1>5. CASE Handle
  <2>1. ExecInv'
    BY <1>5, StraightHandlers, IfOnCourse, ElseOnCourse, BranchesOnCourse, EndOnCourse,
       CallsOnCourse DEF Handle
  <2> QED BY <1>2, <2>1 DEF CursorInv
<1>6. CASE UNCHANGED ivars
  BY <1>2, <1>6 DEF CursorInv, ExecInv, Running, OnCourse, CallersOnCourse, FramesSequence,
                    ivars, evars, vars
<1> QED BY <1>3, <1>4, <1>5, <1>6 DEF INext

(* Whichever way control reached an instruction, through taken and untaken *)
(* branches, loops, calls and returns, the cursor has passed exactly the   *)
(* entries of the branching instructions that precede it.                  *)
THEOREM CursorInStep == ISpec => []CursorSync
<1>1. CursorInv => CursorSync
  BY DEF CursorInv, ExecInv, CursorSync, OnCourse
<1> QED BY <1>1, IInitCursor, INextCursor, PTL DEF ISpec

----------------------------------------------------------------------------
(* The types of the operands                                               *)

Stacks == Seq(ValueType)

Size(t) == (IF t \in ValueType THEN 1 ELSE 0) + (IF t \in Wide THEN 1 ELSE 0)

(* No values, no cells.                                                    *)
LEMMA NoCells == CellNum(<<>>) = 0
<1>1. {i \in DOMAIN <<>> : <<>>[i] \in ValueType} = {} /\ {i \in DOMAIN <<>> : <<>>[i] \in Wide} = {}
  OBVIOUS
<1> QED BY <1>1, FS_EmptySet DEF CellNum

(* A value adds its own cells.                                             *)
LEMMA CellNumAppend ==
  ASSUME NEW S, NEW s \in Seq(S), NEW t \in S
  PROVE  CellNum(Append(s, t)) = CellNum(s) + Size(t)
<1> DEFINE r == Append(s, t)
           n == Len(s)
           In(q, T) == {i \in DOMAIN q : q[i] \in T}
<1>1. /\ n \in Nat /\ DOMAIN r = 1 .. n + 1 /\ DOMAIN s = 1 .. n /\ r[n + 1] = t
      /\ \A i \in 1 .. n : r[i] = s[i]
  OBVIOUS
<1> HIDE DEF r
<1>2. ASSUME NEW T
      PROVE  /\ Cardinality(In(r, T)) = Cardinality(In(s, T)) + (IF t \in T THEN 1 ELSE 0)
             /\ Cardinality(In(s, T)) \in Nat
  <2>1. IsFiniteSet(1 .. n)
    BY <1>1, FS_Interval
  <2>2. In(s, T) \in SUBSET (1 .. n)
    BY <1>1
  <2>3. IsFiniteSet(In(s, T))
    BY <2>1, <2>2, FS_Subset
  <2>4. In(r, T) = IF t \in T THEN In(s, T) \cup {n + 1} ELSE In(s, T)
    BY <1>1
  <2>5. n + 1 \notin In(s, T)
    BY <1>1
  <2> HIDE DEF In
  <2>6. Cardinality(In(s, T)) \in Nat /\ Cardinality(In(s, T) \cup {n + 1}) = Cardinality(In(s, T)) + 1
    BY <2>3, <2>5, FS_AddElement, FS_CardinalityType
  <2> QED BY <2>4, <2>6
<1>3. /\ CellNum(r) = Cardinality(In(r, ValueType)) + Cardinality(In(r, Wide))
      /\ CellNum(s) = Cardinality(In(s, ValueType)) + Cardinality(In(s, Wide))
  BY DEF CellNum
<1> HIDE DEF In
<1>4. /\ Cardinality(In(r, ValueType)) = Cardinality(In(s, ValueType)) + (IF t \in ValueType THEN 1 ELSE 0)
      /\ Cardinality(In(r, Wide)) = Cardinality(In(s, Wide)) + (IF t \in Wide THEN 1 ELSE 0)
      /\ Cardinality(In(s, ValueType)) \in Nat /\ Cardinality(In(s, Wide)) \in Nat
  BY <1>2
<1> QED BY <1>3, <1>4 DEF Size, r

(* The cells of two sequences of values add up.                            *)
LEMMA CellNumConcat ==
  ASSUME NEW S, NEW s \in Seq(S), NEW t \in Seq(S)
  PROVE  CellNum(s \o t) = CellNum(s) + CellNum(t)
<1> DEFINE P == {r \in Seq(S) : CellNum(s \o r) = CellNum(s) + CellNum(r)}
<1>1. <<>> \in P
  BY NoCells, CellNumNat, ConcatEmptySeq
<1>2. ASSUME NEW r \in Seq(S), NEW x \in S, r \in P
      PROVE  Append(r, x) \in P
  <2>1. s \o Append(r, x) = Append(s \o r, x) /\ s \o r \in Seq(S) /\ Append(r, x) \in Seq(S)
    OBVIOUS
  <2>2. CellNum(Append(s \o r, x)) = CellNum(s \o r) + Size(x)
        /\ CellNum(Append(r, x)) = CellNum(r) + Size(x)
    BY <2>1, CellNumAppend
  <2>3. CellNum(s \o r) = CellNum(s) + CellNum(r)
    BY <1>2
  <2>4. CellNum(s) \in Nat /\ CellNum(r) \in Nat
    BY CellNumNat
  <2>5. Size(x) \in Nat
    BY DEF Size
  <2>6. CellNum(s \o Append(r, x)) = CellNum(s) + CellNum(Append(r, x))
    BY <2>1, <2>2, <2>3, <2>4, <2>5
  <2> QED BY <2>1, <2>6
<1> HIDE DEF P
<1>3. t \in P
  BY <1>1, <1>2, SequenceInduction
<1> QED BY <1>3 DEF P

(* A sequence is a prefix of it and a rest.                                *)
LEMMA Splits ==
  ASSUME NEW S, NEW s \in Seq(S), NEW n \in 0 .. Len(s)
  PROVE  \E t \in Seq(S) : s = SubSeq(s, 1, n) \o t /\ Len(t) = Len(s) - n
<1> DEFINE t == SubSeq(s, n + 1, Len(s))
<1>1. t \in Seq(S) /\ Len(t) = Len(s) - n
  OBVIOUS
<1>2. SubSeq(s, 1, n) \o t = SubSeq(s, 1, Len(s))
  <2>1. 1 \in 1 .. Len(s) + 1 /\ n \in 1 - 1 .. Len(s) /\ Len(s) \in n .. Len(s)
    OBVIOUS
  <2> QED BY <2>1, ConcatAdjacentSubSeq
<1>3. SubSeq(s, 1, Len(s)) = s
  BY SubSeqFull
<1> QED BY <1>1, <1>2, <1>3

(* A prefix has no more cells.                                             *)
LEMMA CellNumPrefix ==
  ASSUME NEW S, NEW s \in Seq(S), NEW n \in 0 .. Len(s)
  PROVE  CellNum(SubSeq(s, 1, n)) <= CellNum(s)
<1>1. SubSeq(s, 1, n) \in Seq(S)
  OBVIOUS
<1>2. PICK t \in Seq(S) : s = SubSeq(s, 1, n) \o t /\ Len(t) = Len(s) - n
  BY Splits
<1>3. CellNum(SubSeq(s, 1, n) \o t) = CellNum(SubSeq(s, 1, n)) + CellNum(t)
  BY <1>1, CellNumConcat
<1>4. CellNum(SubSeq(s, 1, n)) \in Nat /\ CellNum(t) \in Nat
  BY <1>1, CellNumNat
<1>5. CellNum(s) = CellNum(SubSeq(s, 1, n)) + CellNum(t)
  BY <1>2, <1>3, Zenon
<1> QED BY <1>4, <1>5

(* Every value takes at least one cell.                                    *)
LEMMA CellNumLen ==
  ASSUME NEW s \in Stacks
  PROVE  CellNum(s) \in Nat /\ Len(s) <= CellNum(s)
<1> DEFINE P == {r \in Stacks : Len(r) <= CellNum(r)}
<1>1. <<>> \in P
  BY NoCells DEF Stacks
<1>2. ASSUME NEW r \in Stacks, NEW x \in ValueType, r \in P
      PROVE  Append(r, x) \in P
  <2>1. CellNum(Append(r, x)) = CellNum(r) + Size(x) /\ Append(r, x) \in Stacks
    BY CellNumAppend DEF Stacks
  <2>2. Len(Append(r, x)) = Len(r) + 1 /\ Len(r) \in Nat /\ CellNum(r) \in Nat
    BY CellNumNat DEF Stacks
  <2>3. Size(x) \in Nat \ {0}
    BY DEF Size
  <2> QED BY <1>2, <2>1, <2>2, <2>3
<1> HIDE DEF P
<1>3. s \in P
  BY <1>1, <1>2, SequenceInduction DEF Stacks
<1> QED BY <1>3, CellNumNat DEF P, Stacks

-----------------------------------------------------------------------------
(* The cells of a sequence of values.                                      *)
LEMMA CellsOfType ==
  ASSUME NEW t \in ValueType
  PROVE  CellsOf(t) \in Seq(CellSet) /\ Len(CellsOf(t)) = Size(t)
<1>1. Cell(t, 0) \in CellSet /\ Cell(t, 1) \in CellSet /\ Cell(t, 2) \in CellSet
  BY DEF Cell, CellSet
<1> QED BY <1>1 DEF CellsOf, Size

(* A value adds its cells behind those of the others.                      *)
LEMMA CellsAppend ==
  ASSUME NEW s \in Stacks, NEW t \in ValueType
  PROVE  Cells(Append(s, t)) = Cells(s) \o CellsOf(t)
<1> DEFINE of(r) == [i \in DOMAIN r |-> CellsOf(r[i])]
           r == Append(s, t)
           n == Len(s)
<1>1. /\ n \in Nat /\ DOMAIN r = 1 .. n + 1 /\ DOMAIN s = 1 .. n /\ r[n + 1] = t
      /\ r \in Stacks /\ \A i \in 1 .. n : r[i] = s[i]
  BY DEF Stacks
<1> HIDE DEF r
<1>2. ASSUME NEW q \in Stacks PROVE of(q) \in Seq(Seq(CellSet)) /\ Len(of(q)) = Len(q)
  <2>1. DOMAIN q = 1 .. Len(q) /\ Len(q) \in Nat /\ \A i \in 1 .. Len(q) : q[i] \in ValueType
    BY DEF Stacks
  <2>2. \A i \in 1 .. Len(q) : CellsOf(q[i]) \in Seq(CellSet)
    BY <2>1, CellsOfType
  <2> QED BY <2>1, <2>2
<1>3. of(r) = Append(of(s), CellsOf(t))
  <2>1. of(r) \in Seq(Seq(CellSet)) /\ of(s) \in Seq(Seq(CellSet)) /\ Len(of(r)) = n + 1 /\ Len(of(s)) = n
    <3>1. Len(r) = n + 1
      BY DEF Stacks, r
    <3> HIDE DEF of
    <3> QED BY <1>1, <1>2, <3>1
  <2>2. \A i \in 1 .. n + 1 : of(r)[i] = CellsOf(r[i])
    BY <1>1
  <2>3. \A i \in 1 .. n : of(s)[i] = CellsOf(s[i])
    BY <1>1
  <2> DEFINE a == of(r)
             b == of(s)
             c == Append(b, CellsOf(t))
  <2>4. CellsOf(t) \in Seq(CellSet)
    BY CellsOfType
  <2> HIDE DEF of
  <2>5. c \in Seq(Seq(CellSet)) /\ Len(c) = n + 1 /\ c[n + 1] = CellsOf(t) /\ \A i \in 1 .. n : c[i] = b[i]
    BY <2>1, <2>4
  <2> HIDE DEF c
  <2>6. \A i \in 1 .. n + 1 : a[i] = c[i]
    <3> SUFFICES ASSUME NEW i \in 1 .. n + 1 PROVE a[i] = c[i]
      OBVIOUS
    <3>1. CASE i = n + 1
      BY <1>1, <2>2, <2>5, <3>1
    <3>2. CASE i # n + 1
      <4>1. i \in 1 .. n
        BY <1>1, <3>2
      <4> QED BY <1>1, <2>2, <2>3, <2>5, <4>1
    <3> QED BY <3>1, <3>2
  <2>7. a = c
    BY <1>1, <2>1, <2>5, <2>6, SeqEqual
  <2> QED BY <2>7 DEF c
<1>4. of(s) \in Seq(Seq(CellSet)) /\ CellsOf(t) \in Seq(CellSet)
  BY <1>2, CellsOfType
<1> HIDE DEF of
<1>5. FlattenSeq(of(r)) = FlattenSeq(of(s)) \o CellsOf(t)
  BY <1>3, <1>4, FlattenAppend
<1> QED BY <1>5 DEF of, Cells, r

(* No values, no cells.                                                    *)
LEMMA CellsNone == Cells(<<>>) = <<>>
<1>1. [i \in DOMAIN <<>> |-> CellsOf(<<>>[i])] = <<>>
  OBVIOUS
<1> QED BY <1>1, FlattenEmpty, Zenon DEF Cells

(* CellNum counts the cells that Cells lays out.                           *)
LEMMA CellsType ==
  ASSUME NEW s \in Stacks
  PROVE  Cells(s) \in Seq(CellSet) /\ Len(Cells(s)) = CellNum(s)
<1> DEFINE P == {r \in Stacks : Cells(r) \in Seq(CellSet) /\ Len(Cells(r)) = CellNum(r)}
<1>1. <<>> \in P
  <2>1. <<>> \in Stacks /\ <<>> \in Seq(CellSet) /\ Len(<<>>) = 0
    BY DEF Stacks
  <2> QED BY <2>1, NoCells, CellsNone
<1>2. ASSUME NEW r \in Stacks, NEW x \in ValueType, r \in P
      PROVE  Append(r, x) \in P
  <2>1. CellNum(Append(r, x)) = CellNum(r) + Size(x) /\ Append(r, x) \in Stacks
    BY CellNumAppend DEF Stacks
  <2>2. Cells(Append(r, x)) = Cells(r) \o CellsOf(x)
    BY CellsAppend
  <2>3. CellsOf(x) \in Seq(CellSet) /\ Len(CellsOf(x)) = Size(x)
    BY CellsOfType
  <2>4. Cells(r) \in Seq(CellSet) /\ Len(Cells(r)) = CellNum(r)
    BY <1>2
  <2> DEFINE a == Cells(r)
             b == CellsOf(x)
  <2>5. a \o b \in Seq(CellSet) /\ Len(a \o b) = Len(a) + Len(b)
    BY <2>3, <2>4
  <2> QED BY <2>1, <2>2, <2>3, <2>4, <2>5
<1> HIDE DEF P
<1>3. s \in P
  BY <1>1, <1>2, SequenceInduction DEF Stacks
<1> QED BY <1>3 DEF P

(* The cells of two sequences of values lie one behind the other.          *)
LEMMA CellsConcat ==
  ASSUME NEW s \in Stacks, NEW t \in Stacks
  PROVE  Cells(s \o t) = Cells(s) \o Cells(t)
<1> DEFINE P == {r \in Stacks : Cells(s \o r) = Cells(s) \o Cells(r)}
<1>1. <<>> \in P
  BY CellsNone, CellsType, ConcatEmptySeq DEF Stacks
<1>2. ASSUME NEW r \in Stacks, NEW x \in ValueType, r \in P
      PROVE  Append(r, x) \in P
  <2>1. s \o Append(r, x) = Append(s \o r, x) /\ s \o r \in Stacks /\ Append(r, x) \in Stacks
    BY DEF Stacks
  <2>2. Cells(Append(s \o r, x)) = Cells(s \o r) \o CellsOf(x)
        /\ Cells(Append(r, x)) = Cells(r) \o CellsOf(x)
    BY <2>1, CellsAppend
  <2>3. Cells(s \o r) = Cells(s) \o Cells(r)
    BY <1>2
  <2>4. Cells(s) \in Seq(CellSet) /\ Cells(r) \in Seq(CellSet) /\ CellsOf(x) \in Seq(CellSet)
    BY CellsType, CellsOfType
  <2>5. (Cells(s) \o Cells(r)) \o CellsOf(x) = Cells(s) \o (Cells(r) \o CellsOf(x))
    BY <2>4
  <2> QED BY <2>1, <2>2, <2>3, <2>5
<1> HIDE DEF P
<1>3. t \in P
  BY <1>1, <1>2, SequenceInduction DEF Stacks
<1> QED BY <1>3 DEF P

(* An instruction that the validator did not read in dead code.            *)
Live(i) == i \in DOMAIN code /\ ~seen[i].dead

(* Instructions after which the next one is not executed.                  *)
FlowEnders == {"unreachable", "else", "br", "br_table", "return"}

(* What an executed instruction takes from the operands and leaves on them.*)
Moves(instr, pop, push) ==
  CASE instr.op \in {"nop", "block", "loop", "end"} -> pop = <<>> /\ push = <<>>
    [] instr.op \in {"if", "br_if"} -> pop = <<"I32">> /\ push = <<>>
    [] instr.op = "plain" -> pop = instr.sig.pop /\ push = instr.sig.push
    [] instr.op = "call" ->
         /\ instr.func \in 0 .. Len(Imports)
         /\ pop = Funcs[instr.func + 1].param /\ push = Funcs[instr.func + 1].result
    [] instr.op = "call_indirect" ->
         pop = Append(instr.type.param, "I32") /\ push = instr.type.result
    [] instr.op = "drop" ->
         push = <<>> /\ \E t \in ValueType : pop = <<t>> /\ instr.wide = (t \in Wide)
    [] instr.op = "select" ->
         \E t \in ValueType :
           pop = <<t, t, "I32">> /\ push = <<t>> /\ instr.wide = (t \in Wide)
    [] instr.op \in {"get_local", "set_local", "tee_local"} ->
         \E l \in 0 .. Len(Locals) - 1 :
           /\ instr = LocalInstr(instr.op, l)
           /\ pop = IF instr.op = "get_local" THEN <<>> ELSE <<Locals[l + 1]>>
           /\ push = IF instr.op = "set_local" THEN <<>> ELSE <<Locals[l + 1]>>
    [] instr.op = "get_global" -> pop = <<>> /\ push = <<instr.value>>
    [] instr.op = "set_global" -> pop = <<instr.value>> /\ push = <<>>
    [] OTHER -> FALSE

Effect(instr, before, after) ==
  \E r \in Stacks, pop \in Stacks, push \in Stacks :
    Moves(instr, pop, push) /\ before = r \o pop /\ after = r \o push

(* s is what remains of the operands once the condition is popped.         *)
AtBranch(instr, found, s) ==
  found = IF instr.op \in {"if", "br_if", "br_table"} THEN Append(s, "I32") ELSE s

(* The types a branch to the block's label carries.                        *)
Arity(b) == IF b.label = "loop" THEN b.type.param ELSE b.type.result

(* Entry e of an instruction that finds these operands will carry those    *)
(* that its block b, on the operands p, expects.                           *)
Carried(instr, found, e, p, b) ==
  \E s \in Stacks : AtBranch(instr, found, s) /\
    CASE e.op = "if"   -> s = p \o b.type.param
      [] e.op = "else" -> b.label = "if" /\ s = p \o b.type.result
      [] OTHER ->
           /\ \E q \in Stacks : s = (p \o q) \o Arity(b) /\ e.pop = CellNum(q \o Arity(b))
           /\ e.push = CellNum(b.type.result)

(* Entry e turns the operands found into those at its target, unless it is *)
(* one that counts the results of a loop.                                  *)
Fitting(instr, found, e, arrival, looping) ==
  \E s \in Stacks : AtBranch(instr, found, s) /\
    IF e.op \in {"if", "else"} THEN arrival = s
    ELSE \E p \in Stacks, q \in Stacks, w \in Stacks :
           /\ s = (p \o q) \o w /\ arrival = p \o w
           /\ e.pop = CellNum(q \o w)
           /\ e.push = CellNum(w) \/ looping

Landed(i, e) ==
  Live(e.ip) /\ Fitting(code[i], seen[i].stack, e, seen[e.ip].stack, e.ip > 1 /\ LoopResults(e))

(* Entry k of the branch table belongs to instruction i.                   *)
EntryOf(k, i) ==
  i \in DOMAIN code /\ k \in DOMAIN table /\ seen[i].emitted < k /\ k <= EntriesBy(i)

(* The operands below a block.                                             *)
Prefix(d) == SubSeq(stack, 1, blocks[d].base)

-----------------------------------------------------------------------------
(* What is known before anything is read, and of the first instruction.    *)
FirstLive ==
  IF code = <<>> THEN stack = <<>> /\ ~Dead(Depth)
  ELSE Live(1) /\ seen[1].stack = <<>>

(* Where a live instruction goes on, the next one is live and finds the    *)
(* operands that it leaves; the last one leaves the current ones.          *)
FlowTyped ==
  \A i \in 1 .. Len(code) : Live(i) /\ code[i].op \notin FlowEnders =>
    IF i = Len(code) THEN ~Dead(Depth) /\ Effect(code[i], seen[i].stack, stack)
    ELSE Live(i + 1) /\ Effect(code[i], seen[i].stack, seen[i + 1].stack)

(* A BR_TABLE whose labels are being read.                                 *)
LabelsTyped ==
  labels # <<>> /\ Live(Len(code)) => ~Dead(Depth) /\ seen[Len(code)].stack = Append(stack, "I32")

QueuedTyped ==
  \A d \in 1 .. Depth : \A k \in blocks[d].queue : \A i \in 1 .. Len(code) :
    EntryOf(k, i) /\ Live(i) =>
      ~Dead(d - 1) /\ Carried(code[i], seen[i].stack, table[k], Prefix(d), blocks[d])

(* The false branch of an IF with an ELSE is the known exception.          *)
ElseTarget(e) == e.op = "if" /\ AfterElse(e.ip)

ResolvedTyped ==
  \A k \in DOMAIN table : \A i \in 1 .. Len(code) :
    table[k].resolved /\ EntryOf(k, i) /\ Live(i) => ElseTarget(table[k]) \/ Landed(i, table[k])

(* The first instruction of an open LOOP.                                  *)
LoopAt(d) ==
  LET b == blocks[d] IN
  b.label = "loop" =>
    /\ b.start - 1 \in DOMAIN code
    /\ code[b.start - 1].op = "loop" /\ code[b.start - 1].type = b.type
    /\ IF b.start = Len(code) + 1
       THEN d = Depth /\ ~own[d] /\ stack = Prefix(d) \o b.type.param
       ELSE ~Dead(d - 1) => Live(b.start) /\ seen[b.start].stack = Prefix(d) \o b.type.param

(* A block stands on the operands below it.                                *)
BlockAt(d) ==
  /\ blocks[d].cells = CellNum(Prefix(d))
  /\ ~Dead(d - 1) => Prefix(d) \in Stacks
  /\ own[d] => poly[d]
  /\ d = 1 <=> blocks[d].label = "function"

LoopTyped   == \A d \in 1 .. Depth : LoopAt(d)
BlocksTyped == \A d \in 1 .. Depth : BlockAt(d)

StackTyped ==
  /\ ~Dead(Depth) => stack \in Stacks
  /\ Depth > 0 => blocks[1].type = FuncType /\ blocks[1].base = 0
  /\ Depth <= MaxBlocks

ReturnTyped ==
  \A i \in 1 .. Len(code) : Live(i) =>
    /\ code[i].op = "return" => \E r \in Stacks : seen[i].stack = r \o FuncType.result
    /\ verdict = "accepted" /\ i = Len(code) => seen[i].stack = FuncType.result

CellsBounded ==
  /\ CellNum(stack) <= maxCells
  /\ \A i \in 1 .. Len(code) : CellNum(seen[i].stack) <= maxCells

Sound ==
  /\ FirstLive /\ FlowTyped /\ LabelsTyped /\ QueuedTyped /\ ResolvedTyped
  /\ LoopTyped /\ BlocksTyped /\ StackTyped /\ ReturnTyped /\ CellsBounded

TypingInv == lapses = {} => Sound

-----------------------------------------------------------------------------
(* After the step, one more instruction has been read.                     *)
Adds(instr, found, dead) ==
  /\ Len(code) \in Nat /\ Len(code') = Len(code) + 1 /\ DOMAIN code' = 1 .. Len(code) + 1
  /\ code'[Len(code) + 1] = instr
  /\ seen'[Len(code) + 1].stack = found /\ seen'[Len(code) + 1].dead = dead
  /\ seen'[Len(code) + 1].emitted = Len(table)
  /\ \A i \in 1 .. Len(code) : code'[i] = code[i] /\ seen'[i] = seen[i]

(* Arriving at an instruction adds it to those read, and nothing else.     *)
LEMMA ArriveAdds ==
  ASSUME TypeOK, NEW instr, NEW found, NEW dead, NEW peak, NEW st,
         Arrive(instr, found, dead, peak, st)
  PROVE  Adds(instr, found, dead)
<1> DEFINE new == [stack |-> found, emitted |-> Len(table), dead |-> dead]
           n == Len(code)
<1>1. n \in Nat /\ Len(seen) = n
  BY Domains
<1>2. new.emitted = Len(table) /\ new.stack = found /\ new.dead = dead
  OBVIOUS
<1> HIDE DEF new
<1>3. code' = Append(code, instr) /\ seen' = Append(seen, new)
  BY DEF Arrive, new
<1>4. \E S : code \in Seq(S)
  BY DEF TypeOK
<1>5. \E S : seen \in Seq(S)
  BY DEF TypeOK
<1>6. Len(code') = n + 1 /\ code'[n + 1] = instr /\ (\A i \in 1 .. n : code'[i] = code[i])
      /\ DOMAIN code' = 1 .. n + 1
  BY <1>1, <1>3, <1>4
<1>7. seen'[n + 1] = new /\ \A i \in 1 .. n : seen'[i] = seen[i]
  BY <1>1, <1>3, <1>5
<1> QED BY <1>1, <1>2, <1>6, <1>7 DEF Adds

(* Instructions that have been read stay live or dead.                     *)
LEMMA LiveKept ==
  ASSUME TypeOK, NEW instr, NEW found, NEW dead, Adds(instr, found, dead), NEW i \in 1 .. Len(code)
  PROVE  Live(i)' <=> Live(i)
<1>1. i \in DOMAIN code /\ i \in DOMAIN code' /\ seen'[i] = seen[i]
  BY Domains DEF Adds
<1> QED BY <1>1 DEF Live

(* The instruction that is read is live outside dead code.                 *)
LEMMA LiveNext ==
  ASSUME NEW instr, NEW found, NEW dead, Adds(instr, found, dead), NEW i, i = Len(code) + 1
  PROVE  (Live(i)' <=> ~dead) /\ code'[i] = instr /\ seen'[i].stack = found
<1>1. i \in DOMAIN code' /\ seen'[i].dead = dead
  BY DEF Adds
<1> QED BY <1>1 DEF Live, Adds

(* An instruction is read where control stands, or in dead code.           *)
Aligned(found, dead) == ~Dead(Depth) => ~dead /\ found = stack

(* Control goes on behind an instruction that does not end it.             *)
Lasts(instr, found, dead) ==
  ~dead /\ instr.op \notin FlowEnders => ~Dead(Depth)' /\ Effect(instr, found, stack')

(* An instruction that is read finds what the one before has left.         *)
LEMMA FlowKept ==
  ASSUME TypeOK, FirstLive, FlowTyped, NEW instr, NEW found, NEW dead, Adds(instr, found, dead),
         Aligned(found, dead), Lasts(instr, found, dead)
  PROVE  FirstLive' /\ FlowTyped'
<1> DEFINE n == Len(code)
<1>0. n \in Nat /\ Len(code') = n + 1
  BY Domains DEF Adds
<1>1. FirstLive'
  <2>1. code' # <<>>
    BY <1>0
  <2>2. CASE n = 0
    <3>1. stack = <<>> /\ ~Dead(Depth)
      BY <2>2 DEF FirstLive, TypeOK
    <3>2. ~dead /\ found = <<>>
      BY <3>1 DEF Aligned
    <3>3. Live(1)' /\ seen'[1].stack = <<>>
      BY <2>2, <3>2, LiveNext
    <3> QED BY <2>1, <3>3 DEF FirstLive
  <2>3. CASE n # 0
    <3>1. code # <<>> /\ 1 \in 1 .. n
      BY <1>0, <2>3
    <3>2. Live(1) /\ seen[1].stack = <<>>
      BY <3>1 DEF FirstLive
    <3>3. Live(1)' /\ seen'[1] = seen[1]
      BY <3>1, <3>2, LiveKept DEF Adds
    <3> QED BY <2>1, <3>2, <3>3 DEF FirstLive
  <2> QED BY <2>2, <2>3
<1>2. ASSUME NEW i \in 1 .. n + 1, Live(i)', code'[i].op \notin FlowEnders
      PROVE  IF i = n + 1 THEN ~Dead(Depth)' /\ Effect(code'[i], seen'[i].stack, stack')
             ELSE Live(i + 1)' /\ Effect(code'[i], seen'[i].stack, seen'[i + 1].stack)
  <2>1. CASE i = n + 1
    <3>1. ~dead /\ code'[i] = instr /\ seen'[i].stack = found
      BY <1>2, <2>1, LiveNext
    <3> QED BY <1>2, <2>1, <3>1 DEF Lasts
  <2>2. CASE i # n + 1
    <3>1. i \in 1 .. n
      BY <1>0, <2>2
    <3>2. code'[i] = code[i] /\ seen'[i] = seen[i] /\ Live(i)
      BY <1>2, <3>1, LiveKept DEF Adds
    <3>3. CASE i = n
      <4>1. ~Dead(Depth) /\ Effect(code[i], seen[i].stack, stack)
        BY <1>2, <3>1, <3>2, <3>3 DEF FlowTyped
      <4>2. ~dead /\ found = stack
        BY <4>1 DEF Aligned
      <4>3. Live(i + 1)' /\ seen'[i + 1].stack = stack
        BY <3>3, <4>2, LiveNext
      <4> QED BY <2>2, <3>2, <4>1, <4>3
    <3>4. CASE i # n
      <4>1. Live(i + 1) /\ Effect(code[i], seen[i].stack, seen[i + 1].stack)
        BY <1>2, <3>1, <3>2, <3>4 DEF FlowTyped
      <4>2. i + 1 \in 1 .. n
        BY <1>0, <3>1, <3>4
      <4>3. Live(i + 1)' /\ seen'[i + 1] = seen[i + 1]
        BY <4>1, <4>2, LiveKept DEF Adds
      <4> QED BY <2>2, <3>2, <4>1, <4>3
    <3> QED BY <3>3, <3>4
  <2> QED BY <2>1, <2>2
<1>3. FlowTyped'
  BY <1>0, <1>2 DEF FlowTyped
<1> QED BY <1>1, <1>3

(* After the step, what was read is as before, and at most one instruction *)
(* and one entry have been added.                                          *)
Longer ==
  /\ \/ UNCHANGED <<code, seen>>
     \/ \E instr, found, dead : Adds(instr, found, dead)
  /\ Len(table') \in Nat /\ DOMAIN table' = 1 .. Len(table')
  /\ Len(table) <= Len(table') /\ Len(table') <= Len(table) + 1

(* What has been read stays when one more instruction may be read.         *)
LEMMA LongerKeeps ==
  ASSUME TypeOK, Longer
  PROVE  /\ Len(code') \in Nat /\ DOMAIN code' = 1 .. Len(code')
         /\ Len(code) <= Len(code')
         /\ \A i \in 1 .. Len(code) : code'[i] = code[i] /\ seen'[i] = seen[i] /\ (Live(i)' <=> Live(i))
<1>1. CASE UNCHANGED <<code, seen>>
  BY <1>1, Domains DEF Live
<1>2. ASSUME NEW instr, NEW found, NEW dead, Adds(instr, found, dead)
      PROVE  /\ Len(code') \in Nat /\ DOMAIN code' = 1 .. Len(code')
             /\ Len(code) <= Len(code')
             /\ \A i \in 1 .. Len(code) : code'[i] = code[i] /\ seen'[i] = seen[i]
                                          /\ (Live(i)' <=> Live(i))
  <2>1. \A i \in 1 .. Len(code) : (Live(i)' <=> Live(i))
    BY <1>2, LiveKept
  <2> QED BY <1>2, <2>1 DEF Adds
<1> QED BY <1>1, <1>2 DEF Longer

(* An entry that was there belongs to the instruction it belonged to.      *)
LEMMA EntryKept ==
  ASSUME TypeOK, Longer, NEW k \in 1 .. Len(table), NEW i \in 1 .. Len(code'), EntryOf(k, i)'
  PROVE  i \in 1 .. Len(code) /\ EntryOf(k, i)
<1> DEFINE n == Len(code)
           t == Len(table)
<1>1. n \in Nat /\ DOMAIN code = 1 .. n /\ t \in Nat /\ DOMAIN table = 1 .. t
  BY Domains
<1>2. seen'[i].emitted < k /\ k <= EntriesBy(i)'
  BY DEF EntryOf
<1>3. CASE UNCHANGED <<code, seen>>
  <2>1. i \in 1 .. n /\ seen'[i] = seen[i]
    BY <1>1, <1>3
  <2>2. k <= EntriesBy(i)
    <3>1. code' = code /\ seen' = seen
      BY <1>3
    <3>2. CASE i = n
      BY <1>1, <3>2 DEF EntriesBy
    <3>3. CASE i # n
      BY <1>2, <3>1, <3>3 DEF EntriesBy
    <3> QED BY <3>2, <3>3
  <2> QED BY <1>1, <1>2, <2>1, <2>2 DEF EntryOf
<1>4. ASSUME NEW instr, NEW found, NEW dead, Adds(instr, found, dead)
      PROVE  i \in 1 .. n /\ EntryOf(k, i)
  <2>1. Len(code') = n + 1 /\ seen'[n + 1].emitted = t /\ \A j \in 1 .. n : seen'[j] = seen[j]
    BY <1>4 DEF Adds
  <2>2. i # n + 1
    BY <1>1, <1>2, <2>1
  <2>3. i \in 1 .. n
    BY <1>1, <2>1, <2>2
  <2>4. EntriesBy(i)' = seen'[i + 1].emitted
    BY <1>1, <2>1, <2>3 DEF EntriesBy
  <2>5. k <= EntriesBy(i)
    <3>1. CASE i = n
      BY <1>1, <3>1 DEF EntriesBy
    <3>2. CASE i # n
      <4>1. i + 1 \in 1 .. n
        BY <1>1, <2>3, <3>2, Successor
      <4> QED BY <1>2, <2>1, <2>4, <3>2, <4>1 DEF EntriesBy
    <3> QED BY <3>1, <3>2
  <2> QED BY <1>1, <1>2, <2>1, <2>3, <2>5 DEF EntryOf
<1> QED BY <1>3, <1>4 DEF Longer

(* A new entry belongs to the instruction read last.                       *)
LEMMA EntryNext ==
  ASSUME TypeOK, CountInv, Longer, NEW k, k = Len(table) + 1,
         NEW i \in 1 .. Len(code'), EntryOf(k, i)'
  PROVE  i = Len(code')
<1> DEFINE n == Len(code)
           t == Len(table)
<1>1. n \in Nat /\ DOMAIN code = 1 .. n /\ t \in Nat /\ DOMAIN table = 1 .. t
  BY Domains
<1>2. k <= EntriesBy(i)' /\ \A j \in 1 .. n : EntriesBy(j) <= t
  BY DEF EntryOf, CountInv, EntriesMarked
<1> SUFFICES ASSUME i # Len(code') PROVE FALSE
  OBVIOUS
<1>3. EntriesBy(i)' = seen'[i + 1].emitted
  BY DEF EntriesBy
<1>4. CASE UNCHANGED <<code, seen>>
  <2>0. i \in 1 .. n /\ i # n
    BY <1>1, <1>4
  <2>1. i + 1 \in 1 .. n
    BY <1>1, <2>0, Successor
  <2>2. EntriesBy(i) = seen[i + 1].emitted /\ seen' = seen
    BY <1>4, <2>0 DEF EntriesBy
  <2>3. seen[i + 1].emitted \in Nat
    BY <2>1, SeenType
  <2>4. seen[i + 1].emitted <= t
    BY <1>2, <2>0, <2>2
  <2> QED BY <1>1, <1>2, <1>3, <2>2, <2>3, <2>4
<1>5. ASSUME NEW instr, NEW found, NEW dead, Adds(instr, found, dead)
      PROVE  FALSE
  <2>1. Len(code') = n + 1 /\ seen'[n + 1].emitted = t /\ \A j \in 1 .. n : seen'[j] = seen[j]
    BY <1>5 DEF Adds
  <2>2. i \in 1 .. n
    BY <1>1, <2>1
  <2>3. CASE i = n
    <3>1. EntriesBy(i)' = t /\ k <= EntriesBy(i)'
      BY <1>2, <1>3, <2>1, <2>3
    <3> QED BY <1>1, <3>1
  <2>4. CASE i # n
    <3>1. i + 1 \in 1 .. n
      BY <1>1, <2>2, <2>4, Successor
    <3>2. EntriesBy(i) = seen[i + 1].emitted /\ EntriesBy(i) <= t /\ seen[i + 1].emitted \in Nat
      BY <1>2, <2>2, <2>4, <3>1, SeenType DEF EntriesBy
    <3> QED BY <1>1, <1>2, <1>3, <2>1, <3>1, <3>2
  <2> QED BY <2>3, <2>4
<1> QED BY <1>4, <1>5 DEF Longer

-----------------------------------------------------------------------------
(* Block d stays open and stays as it is, but for its queue and its ELSE.  *)
Stays(d) ==
  /\ d \in 1 .. Depth
  /\ blocks'[d].label = blocks[d].label /\ blocks'[d].type = blocks[d].type
  /\ blocks'[d].cells = blocks[d].cells /\ blocks'[d].start = blocks[d].start
  /\ Prefix(d)' = Prefix(d)
  /\ Dead(d - 1)' <=> Dead(d - 1)

(* What an entry carries to a block depends on its label and type alone.   *)
LEMMA SameCarried ==
  ASSUME NEW instr, NEW found, NEW e, NEW p, NEW b, NEW c, b.label = c.label, b.type = c.type,
         Carried(instr, found, e, p, b)
  PROVE  Carried(instr, found, e, p, c)
<1>1. Arity(b) = Arity(c)
  BY DEF Arity
<1> QED BY <1>1 DEF Carried

(* Every entry queued after the step was queued before, or is the new one. *)
LEMMA QueuedKept ==
  ASSUME TypeOK, CountInv, Longer, QueuedTyped, EntriesOwned,
         \A d \in 1 .. Depth' : \A k \in blocks'[d].queue :
           \/ Stays(d) /\ k \in blocks[d].queue /\ table'[k] = table[k]
           \/ /\ k = Len(table) + 1
              /\ \A i : i = Len(code') /\ Live(i)' =>
                   ~Dead(d - 1)' /\ Carried(code'[i], seen'[i].stack, table'[k], Prefix(d)', blocks'[d])
  PROVE  QueuedTyped'
<1> SUFFICES ASSUME NEW d \in 1 .. Depth', NEW k \in blocks'[d].queue, NEW i \in 1 .. Len(code'),
                    EntryOf(k, i)', Live(i)'
             PROVE  ~Dead(d - 1)' /\ Carried(code'[i], seen'[i].stack, table'[k], Prefix(d)', blocks'[d])
  BY DEF QueuedTyped
<1>1. CASE Stays(d) /\ k \in blocks[d].queue /\ table'[k] = table[k]
  <2>1. d \in 1 .. Depth
    BY <1>1 DEF Stays
  <2>2. k \in 1 .. Len(table)
    BY <1>1, <2>1, Domains DEF EntriesOwned
  <2>3. i \in 1 .. Len(code) /\ EntryOf(k, i)
    BY <2>2, EntryKept
  <2>4. code'[i] = code[i] /\ seen'[i] = seen[i] /\ Live(i)
    BY <2>3, LongerKeeps
  <2>5. ~Dead(d - 1) /\ Carried(code[i], seen[i].stack, table[k], Prefix(d), blocks[d])
    BY <1>1, <2>1, <2>3, <2>4 DEF QueuedTyped
  <2>6. ~Dead(d - 1)' /\ Prefix(d)' = Prefix(d)
    BY <1>1, <2>5 DEF Stays
  <2>7. Carried(code[i], seen[i].stack, table[k], Prefix(d), blocks'[d])
    BY <1>1, <2>5, SameCarried DEF Stays
  <2> QED BY <1>1, <2>4, <2>6, <2>7
<1>2. CASE /\ k = Len(table) + 1
           /\ \A j : j = Len(code') /\ Live(j)' =>
                ~Dead(d - 1)' /\ Carried(code'[j], seen'[j].stack, table'[k], Prefix(d)', blocks'[d])
  <2>1. i = Len(code')
    BY <1>2, EntryNext
  <2> QED BY <1>2, <2>1
<1> QED BY <1>1, <1>2

(* An entry that leads to a live instruction still does.                   *)
LEMMA LandedKept ==
  ASSUME TypeOK, Longer, NEW i \in 1 .. Len(code), NEW e, e.ip \in Nat, Landed(i, e)
  PROVE  Landed(i, e)'
<1>1. e.ip \in 1 .. Len(code) /\ Live(e.ip)
  BY Domains DEF Landed, Live
<1>2. /\ code'[i] = code[i] /\ seen'[i] = seen[i] /\ seen'[e.ip] = seen[e.ip] /\ Live(e.ip)'
  BY <1>1, LongerKeeps
<1>3. e.ip > 1 => (LoopResults(e)' <=> LoopResults(e))
  <2> SUFFICES ASSUME e.ip > 1 PROVE code'[e.ip - 1] = code[e.ip - 1]
    BY DEF LoopResults
  <2>1. e.ip - 1 \in 1 .. Len(code)
    BY <1>1, Domains
  <2> QED BY <2>1, LongerKeeps
<1>4. (e.ip > 1 /\ LoopResults(e)') = (e.ip > 1 /\ LoopResults(e))
  BY <1>3
<1>5. Fitting(code[i], seen[i].stack, e, seen[e.ip].stack, e.ip > 1 /\ LoopResults(e))
  BY DEF Landed
<1>6. Fitting(code'[i], seen'[i].stack, e, seen'[e.ip].stack, e.ip > 1 /\ LoopResults(e)')
  BY <1>2, <1>4, <1>5
<1> QED BY <1>2, <1>6 DEF Landed

(* Every entry resolved after the step was so before, or its target is     *)
(* found now.                                                              *)
LEMMA ResolvedKept ==
  ASSUME TypeOK, Longer, ResolvedTyped,
         \A k \in 1 .. Len(table') : table'[k].resolved =>
           \/ k \in 1 .. Len(table) /\ table'[k] = table[k]
           \/ \A i : i \in 1 .. Len(code') /\ EntryOf(k, i)' /\ Live(i)' =>
                ElseTarget(table[k])' \/ Landed(i, table[k])'
  PROVE  ResolvedTyped'
<1> SUFFICES ASSUME NEW k \in 1 .. Len(table'), NEW i \in 1 .. Len(code'),
                    table'[k].resolved, EntryOf(k, i)', Live(i)'
             PROVE  ElseTarget(table[k])' \/ Landed(i, table[k])'
  BY DEF ResolvedTyped, Longer
<1>1. CASE k \in 1 .. Len(table) /\ table'[k] = table[k]
  <2> DEFINE e == table[k]
  <2>1. i \in 1 .. Len(code) /\ EntryOf(k, i)
    BY <1>1, EntryKept
  <2>2. Live(i) /\ k \in DOMAIN table
    BY <1>1, <2>1, LongerKeeps, Domains
  <2>3. ElseTarget(e) \/ Landed(i, e)
    BY <1>1, <2>1, <2>2 DEF ResolvedTyped
  <2>4. e.ip \in Nat
    BY <1>1, Domains DEF EntrySet
  <2>5. CASE Landed(i, e)
    <3>1. PICK f : f = e
      OBVIOUS
    <3>2. f.ip \in Nat /\ Landed(i, f) /\ table'[k] = f
      BY <1>1, <2>4, <2>5, <3>1
    <3>3. Landed(i, f)'
      BY <2>1, <3>2, LandedKept
    <3> QED BY <3>2, <3>3 DEF Landed, Live, LoopResults
  <2>6. CASE ElseTarget(e)
    <3>1. e.ip - 1 \in 1 .. Len(code) /\ code[e.ip - 1].op = "else" /\ e.op = "if"
      BY <2>6, Domains DEF ElseTarget, AfterElse
    <3>2. code'[e.ip - 1] = code[e.ip - 1] /\ e.ip - 1 \in DOMAIN code'
      BY <3>1, Domains, LongerKeeps
    <3>3. table'[k].ip = e.ip /\ table'[k].op = e.op
      BY <1>1
    <3> HIDE DEF e
    <3> QED BY <3>1, <3>2, <3>3 DEF ElseTarget, AfterElse
  <2> QED BY <2>3, <2>5, <2>6
<1>2. CASE \A j : j \in 1 .. Len(code') /\ EntryOf(k, j)' /\ Live(j)' =>
                ElseTarget(table[k])' \/ Landed(j, table[k])'
  BY <1>2
<1> QED BY <1>1, <1>2

-----------------------------------------------------------------------------
(* An open block that is not new.                                          *)
LEMMA BlockKept ==
  ASSUME NEW d, d \in 1 .. Depth, Stays(d), BlockAt(d), own'[d] => poly'[d]
  PROVE  BlockAt(d)'
BY DEF Stays, BlockAt

(* The first instruction in an open LOOP finds the parameters of the loop. *)
LEMMA LoopFirst ==
  ASSUME TypeOK, NEW instr, NEW found, NEW dead, Adds(instr, found, dead), Aligned(found, dead),
         NEW d \in 1 .. Depth, LoopAt(d), blocks[d].label = "loop", NEW s, s = blocks[d].start
  PROVE  /\ s \in Nat /\ s - 1 \in 1 .. Len(code) /\ s \in 1 .. Len(code) + 1
         /\ code[s - 1].op = "loop" /\ code[s - 1].type = blocks[d].type
         /\ code'[s - 1] = code[s - 1]
         /\ ~Dead(d - 1) => Live(s)' /\ seen'[s].stack = Prefix(d) \o blocks[d].type.param
<1> DEFINE b == blocks[d]
           n == Len(code)
<1>1. /\ n \in Nat /\ Len(code') = n + 1 /\ DOMAIN code = 1 .. n /\ DOMAIN code' = 1 .. n + 1
      /\ Depth \in Nat /\ s \in Nat
  BY Domains DEF Adds, BlockSet
<1>2. s - 1 \in 1 .. n /\ code[s - 1].op = "loop" /\ code[s - 1].type = b.type
  BY <1>1 DEF LoopAt
<1>3. code'[s - 1] = code[s - 1] /\ s \in 1 .. n + 1
  BY <1>1, <1>2 DEF Adds
<1>4. ASSUME ~Dead(d - 1)
      PROVE  Live(s)' /\ seen'[s].stack = Prefix(d) \o b.type.param
  <2>1. CASE s = n + 1
    <3>1. d = Depth /\ ~own[d] /\ stack = Prefix(d) \o b.type.param
      BY <2>1 DEF LoopAt
    <3>2. ~Dead(Depth)
      BY <1>1, <1>4, <3>1 DEF Dead
    <3>3. ~dead /\ found = stack
      BY <3>2 DEF Aligned
    <3>4. (Live(s)' <=> ~dead) /\ seen'[s].stack = found
      BY <2>1, LiveNext
    <3> QED BY <3>1, <3>3, <3>4
  <2>2. CASE s # n + 1
    <3>1. Live(s) /\ seen[s].stack = Prefix(d) \o b.type.param
      BY <1>4, <2>2 DEF LoopAt
    <3>2. s \in 1 .. n
      BY <1>1, <1>3, <2>2
    <3> QED BY <3>1, <3>2, LiveKept DEF Adds
  <2> QED BY <2>1, <2>2
<1> QED BY <1>1, <1>2, <1>3, <1>4

(* An open LOOP keeps its first instruction.                               *)
LEMMA LoopKept ==
  ASSUME TypeOK, NEW instr, NEW found, NEW dead, Adds(instr, found, dead), Aligned(found, dead),
         NEW d \in 1 .. Depth, Stays(d), LoopAt(d)
  PROVE  LoopAt(d)'
<1> DEFINE b == blocks[d]
           n == Len(code)
<1>1. n \in Nat /\ Len(code') = n + 1 /\ DOMAIN code' = 1 .. n + 1
  BY DEF Adds
<1>2. /\ blocks'[d].label = b.label /\ blocks'[d].type = b.type /\ blocks'[d].start = b.start
      /\ Prefix(d)' = Prefix(d) /\ (Dead(d - 1)' <=> Dead(d - 1))
  BY DEF Stays
<1>3. CASE b.label # "loop"
  BY <1>2, <1>3 DEF LoopAt
<1>4. CASE b.label = "loop"
  <2>1. PICK s : s = b.start
    OBVIOUS
  <2>2. /\ s \in Nat /\ s - 1 \in 1 .. n /\ s \in 1 .. n + 1
        /\ code[s - 1].op = "loop" /\ code[s - 1].type = b.type
        /\ code'[s - 1] = code[s - 1]
        /\ ~Dead(d - 1) => Live(s)' /\ seen'[s].stack = Prefix(d) \o b.type.param
    BY <1>4, <2>1, LoopFirst
  <2>3. blocks'[d].start = s /\ blocks'[d].start # Len(code') + 1
    BY <1>1, <1>2, <2>1, <2>2
  <2>4. ~Dead(d - 1)' => Live(blocks[d].start)'
    BY <1>2, <2>2, <2>3 DEF Live
  <2>5. ~Dead(d - 1)' => seen'[blocks'[d].start].stack = Prefix(d)' \o blocks'[d].type.param
    BY <1>2, <2>2, <2>3
  <2>6. /\ blocks'[d].start - 1 \in DOMAIN code'
        /\ code'[blocks'[d].start - 1].op = "loop"
        /\ code'[blocks'[d].start - 1].type = blocks'[d].type
    BY <1>1, <1>2, <2>2, <2>3
  <2> QED BY <2>3, <2>4, <2>5, <2>6 DEF LoopAt
<1> QED BY <1>3, <1>4

(* The bases of the open blocks grow.                                      *)
LEMMA BasesGrow ==
  ASSUME TypeOK, BlocksNested, NEW d \in 1 .. Depth
  PROVE  blocks[d].base \in Nat /\ blocks[d].base <= Top.base /\ Top.base <= Len(stack)
<1> DEFINE P == {j \in Nat : j < Depth => blocks[Depth - j].base <= blocks[Depth].base}
<1>1. Depth \in Nat /\ \A e \in 1 .. Depth : blocks[e].base \in Nat
  BY Domains DEF BlockSet
<1>2. 0 \in P
  BY <1>1
<1>3. ASSUME NEW j \in Nat, j \in P
      PROVE  j + 1 \in P
  <2> SUFFICES ASSUME j + 1 < Depth PROVE blocks[Depth - (j + 1)].base <= blocks[Depth].base
    OBVIOUS
  <2>1. Depth - (j + 1) \in 1 .. Depth /\ Depth - j \in 1 .. Depth /\ j < Depth
        /\ Depth - (j + 1) # Depth
    BY <1>1
  <2>2. blocks[Depth - j].base <= blocks[Depth].base
    BY <1>3, <2>1
  <2>3. blocks[Depth - (j + 1)].base <= blocks[Depth - (j + 1) + 1].base
    BY <2>1 DEF BlocksNested
  <2>4. Depth - (j + 1) + 1 = Depth - j
    BY <1>1
  <2> QED BY <1>1, <2>1, <2>2, <2>3, <2>4
<1> HIDE DEF P
<1>4. Depth - d \in P
  BY <1>1, <1>2, <1>3, Induction
<1>5. Depth - (Depth - d) = d /\ Depth - d < Depth /\ Depth \in 1 .. Depth
  BY <1>1
<1> QED BY <1>1, <1>4, <1>5 DEF P, Top, BlocksNested

(* A prefix of a prefix is a prefix.                                       *)
LEMMA PrefixOfPrefix ==
  ASSUME NEW S, NEW s \in Seq(S), NEW m \in 0 .. Len(s), NEW n \in 0 .. m
  PROVE  SubSeq(SubSeq(s, 1, m), 1, n) = SubSeq(s, 1, n)
<1>1. CASE n = 0
  BY <1>1
<1>2. CASE n # 0
  <2>1. 1 \in 1 .. Len(s) /\ m \in 1 .. Len(s) /\ 1 \in 1 .. m - 1 + 1 /\ n \in 1 .. m - 1 + 1
    BY <1>2
  <2> QED BY <2>1, SubSeqOfSubSeq
<1> QED BY <1>1, <1>2

(* A prefix of the first of two sequences is one of both together.         *)
LEMMA PrefixOfConcat ==
  ASSUME NEW S, NEW s \in Seq(S), NEW t \in Seq(S), NEW n \in 0 .. Len(s)
  PROVE  SubSeq(s \o t, 1, n) = SubSeq(s, 1, n)
<1>1. CASE n = 0
  BY <1>1
<1>2. CASE n # 0
  <2>1. 1 \in 1 .. Len(s) /\ n \in 1 .. Len(s)
    BY <1>2
  <2> QED BY <2>1, SubSeqOfConcat1
<1> QED BY <1>1, <1>2

(* Operands that leave those below the current block alone.                *)
OnBase(st) ==
  st \in Seq(StackType) /\ Top.base \in 0 .. Len(st) /\ SubSeq(st, 1, Top.base) = BlockBase

(* The operands stand on those below the current block.                    *)
LEMMA StackOnBase ==
  ASSUME TypeOK, BlocksNested, blocks # <<>>
  PROVE  OnBase(stack) /\ OnBase(BlockBase) /\ Based(stack) /\ Len(BlockBase) = Top.base
<1>0. Based(stack) /\ stack \in Seq(StackType) /\ Top \in BlockSet /\ Top.base <= Len(stack)
  BY ReadingBased DEF TypeOK, Based
<1>1. Based(stack) /\ stack \in Seq(StackType) /\ Top.base \in 0 .. Len(stack)
  BY <1>0 DEF BlockSet
<1>2. BlockBase \in Seq(StackType) /\ Len(BlockBase) = Top.base
  BY <1>1, BlockBaseType
<1>3. SubSeq(BlockBase, 1, Top.base) = BlockBase
  BY <1>2, SubSeqFull
<1> QED BY <1>1, <1>2, <1>3 DEF OnBase, BlockBase

(* A pop takes nothing from below the current block.                       *)
LEMMA PopOnBase ==
  ASSUME NEW st, OnBase(st), NEW types \in Seq(StackType)
  PROVE  OnBase(AfterPop(st, types))
<1> DEFINE n == IF Waived(st, types) THEN Top.base ELSE Len(st) - Len(types)
<1>1. n \in 0 .. Len(st) /\ Top.base \in 0 .. n
  BY DEF OnBase, Waived, Available
<1>2. AfterPop(st, types) = SubSeq(st, 1, n)
  BY DEF AfterPop
<1> HIDE DEF n
<1>3. SubSeq(st, 1, n) \in Seq(StackType) /\ Len(SubSeq(st, 1, n)) = n
  BY <1>1, PrefixType DEF OnBase
<1>4. SubSeq(SubSeq(st, 1, n), 1, Top.base) = SubSeq(st, 1, Top.base)
  BY <1>1, PrefixOfPrefix DEF OnBase
<1> QED BY <1>1, <1>2, <1>3, <1>4 DEF OnBase

(* Nor does a push change anything there.                                  *)
LEMMA PushOnBase ==
  ASSUME NEW st, OnBase(st), NEW types \in Seq(StackType)
  PROVE  OnBase(st \o types)
<1>1. /\ st \in Seq(StackType) /\ Top.base \in 0 .. Len(st)
      /\ st \o types \in Seq(StackType) /\ Top.base \in 0 .. Len(st \o types)
  BY DEF OnBase
<1>2. SubSeq(st \o types, 1, Top.base) = SubSeq(st, 1, Top.base)
  BY <1>1, PrefixOfConcat
<1> QED BY <1>1, <1>2 DEF OnBase

(* Nor does the check of a branch.                                         *)
LEMMA CheckBrOnBase ==
  ASSUME TypeOK, NEW st, OnBase(st), NEW depth \in Nat, depth < Depth
  PROVE  OnBase(AfterCheckBr(st, depth))
<1>1. LabelTypes(depth) \in Seq(StackType)
  BY LabelType, ValueStack
<1> QED BY <1>1, PopOnBase, PushOnBase DEF AfterCheckBr

(* A pop that is not waived finds the operands that it expects.            *)
LEMMA LivePop ==
  ASSUME NEW st, OnBase(st), NEW types \in Seq(StackType), PopOk(st, types), ~Waived(st, types)
  PROVE  st = AfterPop(st, types) \o types /\ AfterPop(st, types) \in Seq(StackType)
<1> DEFINE m == Len(st)
           n == Len(types)
           r == AfterPop(st, types)
           t == r \o types
<1>1. /\ st \in Seq(StackType) /\ m \in Nat /\ n \in Nat /\ n <= Available(st)
      /\ Available(st) <= m /\ Available(st) \in Nat
  BY DEF OnBase, Waived, Available
<1>2. r = SubSeq(st, 1, m - n) /\ r \in Seq(StackType) /\ Len(r) = m - n
  <2>1. r = SubSeq(st, 1, m - n)
    BY DEF AfterPop
  <2>2. m - n \in 0 .. m
    BY <1>1
  <2> QED BY <1>1, <2>1, <2>2, PrefixType
<1>3. \A i \in 1 .. m - n : r[i] = st[i]
  BY <1>1, <1>2
<1>4. ASSUME NEW j \in 1 .. n PROVE st[m - n + j] = types[j]
  <2>1. n + 1 - j \in 1 .. n /\ n + 1 - j <= Available(st)
    BY <1>1
  <2>2. st[m + 1 - (n + 1 - j)] = types[n + 1 - (n + 1 - j)]
    BY <2>1 DEF PopOk
  <2>3. m + 1 - (n + 1 - j) = m - n + j /\ n + 1 - (n + 1 - j) = j
    BY <1>1
  <2> QED BY <2>2, <2>3
<1> HIDE DEF r
<1>5. /\ t \in Seq(StackType) /\ Len(t) = Len(r) + n
      /\ \A i \in 1 .. Len(r) + n : t[i] = IF i <= Len(r) THEN r[i] ELSE types[i - Len(r)]
  BY <1>2, ConcatProperties
<1>6. Len(t) = m
  BY <1>1, <1>2, <1>5
<1>7. ASSUME NEW i \in 1 .. m PROVE st[i] = t[i]
  <2>1. CASE i <= m - n
    BY <1>1, <1>2, <1>3, <1>5, <2>1
  <2>2. CASE ~ (i <= m - n)
    <3>1. i - (m - n) \in 1 .. n /\ m - n + (i - (m - n)) = i
      BY <1>1, <2>2
    <3>2. st[i] = types[i - (m - n)]
      BY <1>4, <3>1
    <3>3. t[i] = types[i - (m - n)]
      BY <1>1, <1>2, <1>5, <2>2
    <3> QED BY <3>2, <3>3
  <2> QED BY <2>1, <2>2
<1> HIDE DEF t
<1>8. st = t
  BY <1>1, <1>5, <1>6, <1>7, SeqEqual
<1> QED BY <1>2, <1>8 DEF t, r

(* Values below or above values.                                           *)
LEMMA PartsOfValues ==
  ASSUME NEW s \in Seq(StackType), NEW t \in Seq(StackType), s \o t \in Stacks
  PROVE  s \in Stacks /\ t \in Stacks
<1> DEFINE u == s \o t
<1>1. /\ Len(u) = Len(s) + Len(t) /\ Len(s) \in Nat /\ Len(t) \in Nat
      /\ \A i \in 1 .. Len(s) + Len(t) : u[i] = IF i <= Len(s) THEN s[i] ELSE t[i - Len(s)]
  BY ConcatProperties
<1> HIDE DEF u
<1>2. \A i \in 1 .. Len(u) : u[i] \in ValueType
  BY DEF Stacks, u
<1>3. ASSUME NEW i \in 1 .. Len(s) PROVE s[i] \in ValueType
  BY <1>1, <1>2
<1>4. ASSUME NEW i \in 1 .. Len(t) PROVE t[i] \in ValueType
  <2>1. Len(s) + i \in 1 .. Len(u) /\ ~ (Len(s) + i <= Len(s)) /\ Len(s) + i - Len(s) = i
    BY <1>1
  <2>2. u[Len(s) + i] = t[Len(s) + i - Len(s)]
    BY <1>1, <2>1
  <2> QED BY <1>2, <2>1, <2>2
<1> QED BY <1>3, <1>4 DEF Stacks

(* The operands below an open block remain while the stack stands on them. *)
LEMMA PrefixKept ==
  ASSUME TypeOK, BlocksNested, blocks # <<>>, OnBase(stack'), NEW d \in 1 .. Depth,
         blocks'[d].base = blocks[d].base
  PROVE  Prefix(d)' = Prefix(d)
<1>1. blocks[d].base \in 0 .. Top.base
  BY BasesGrow, StackOnBase DEF OnBase
<1>2. SubSeq(SubSeq(stack, 1, Top.base), 1, blocks[d].base) = SubSeq(stack, 1, blocks[d].base)
  BY <1>1, StackOnBase, PrefixOfPrefix DEF OnBase
<1>3. SubSeq(SubSeq(stack', 1, Top.base), 1, blocks[d].base) = SubSeq(stack', 1, blocks[d].base)
  BY <1>1, PrefixOfPrefix DEF OnBase
<1> QED BY <1>2, <1>3 DEF OnBase, BlockBase, Prefix

Checked == TypeInv /\ BranchInv /\ CountInv /\ Sound

(* The same blocks are open, but for their queues and their ELSE.          *)
SameBlocks ==
  /\ Depth' = Depth
  /\ \A d \in 1 .. Depth :
       /\ blocks'[d].label = blocks[d].label /\ blocks'[d].type = blocks[d].type
       /\ blocks'[d].cells = blocks[d].cells /\ blocks'[d].start = blocks[d].start
       /\ blocks'[d].base = blocks[d].base
  /\ \A d \in 1 .. Depth - 1 : own'[d] = own[d] /\ poly'[d] = poly[d]
  /\ own'[Depth] => poly'[Depth]

(* A step that opens and closes no block keeps what stands below them.     *)
LEMMA SameBlocksStay ==
  ASSUME Checked, blocks # <<>>, SameBlocks, OnBase(stack')
  PROVE  \A d \in 1 .. Depth : Stays(d) /\ BlockAt(d)'
<1> SUFFICES ASSUME NEW d \in 1 .. Depth PROVE Stays(d) /\ BlockAt(d)'
  OBVIOUS
<1>0. TypeOK /\ BlocksNested /\ Depth \in Nat /\ BlockAt(d)
  BY Domains DEF Checked, TypeInv, Sound, BlocksTyped
<1>1. Prefix(d)' = Prefix(d)
  BY <1>0, PrefixKept DEF SameBlocks
<1>2. Dead(d - 1)' <=> Dead(d - 1)
  <2>1. \A e \in 1 .. d - 1 : own'[e] = own[e]
    BY <1>0 DEF SameBlocks
  <2> QED BY <2>1 DEF Dead
<1>3. Stays(d)
  BY <1>1, <1>2 DEF Stays, SameBlocks
<1>4. own'[d] => poly'[d]
  <2>1. CASE d = Depth
    BY <2>1 DEF SameBlocks
  <2>2. CASE d # Depth
    BY <1>0, <2>2 DEF SameBlocks, BlockAt
  <2> QED BY <2>1, <2>2
<1> QED BY <1>0, <1>3, <1>4, BlockKept

(* No entry is emitted.                                                    *)
EmitsNothing ==
  table' = table /\ \A d \in 1 .. Depth : blocks'[d].queue = blocks[d].queue

(* Entry e is emitted and queued on block k.                               *)
EmitsOn(e, k) ==
  /\ table' = Append(table, e) /\ e \in EntrySet /\ ~e.resolved /\ k \in 1 .. Depth
  /\ \A d \in 1 .. Depth :
       blocks'[d].queue = IF d = k THEN blocks[d].queue \cup {Len(table) + 1}
                          ELSE blocks[d].queue

(* What is known of the entries remains when none is added.                *)
LEMMA EmitsNothingTyped ==
  ASSUME Checked, blocks # <<>>, SameBlocks, OnBase(stack'), EmitsNothing,
         UNCHANGED <<code, seen>> \/ \E instr, found, dead : Adds(instr, found, dead)
  PROVE  QueuedTyped' /\ ResolvedTyped'
<1>1. TypeOK /\ CountInv /\ QueuedTyped /\ ResolvedTyped /\ EntriesOwned
  BY DEF Checked, TypeInv, BranchInv, Sound
<1>2. Longer
  BY <1>1, Domains DEF Longer, EmitsNothing
<1>3. QueuedTyped'
  <2>1. \A d \in 1 .. Depth' : \A k \in blocks'[d].queue :
          Stays(d) /\ k \in blocks[d].queue /\ table'[k] = table[k]
    BY SameBlocksStay DEF EmitsNothing, SameBlocks
  <2> QED BY <1>1, <1>2, <2>1, QueuedKept
<1>4. ResolvedTyped'
  <2>1. \A k \in 1 .. Len(table') : k \in 1 .. Len(table) /\ table'[k] = table[k]
    BY DEF EmitsNothing
  <2> QED BY <1>1, <1>2, <2>1, ResolvedKept
<1> QED BY <1>3, <1>4

(* It extends to an entry that carries what its block expects.             *)
LEMMA EmitsOnTyped ==
  ASSUME Checked, blocks # <<>>, SameBlocks, OnBase(stack'), NEW e, NEW k, EmitsOn(e, k),
         UNCHANGED <<code, seen>> \/ \E instr, found, dead : Adds(instr, found, dead),
         \A i : i = Len(code') /\ Live(i)' =>
           ~Dead(k - 1) /\ Carried(code'[i], seen'[i].stack, e, Prefix(k), blocks[k])
  PROVE  QueuedTyped' /\ ResolvedTyped'
<1> DEFINE t == Len(table)
<1>1. TypeOK /\ CountInv /\ QueuedTyped /\ ResolvedTyped /\ EntriesOwned
  BY DEF Checked, TypeInv, BranchInv, Sound
<1>2. /\ t \in Nat /\ Len(table') = t + 1 /\ DOMAIN table' = 1 .. t + 1
      /\ table'[t + 1] = e /\ \A j \in 1 .. t : table'[j] = table[j]
  BY <1>1, Domains DEF EmitsOn, TypeOK
<1>3. Longer
  BY <1>2 DEF Longer
<1>4. QueuedTyped'
  <2>1. ASSUME NEW d \in 1 .. Depth', NEW j \in blocks'[d].queue
        PROVE  \/ Stays(d) /\ j \in blocks[d].queue /\ table'[j] = table[j]
               \/ /\ j = t + 1
                  /\ \A i : i = Len(code') /\ Live(i)' =>
                       ~Dead(d - 1)' /\ Carried(code'[i], seen'[i].stack, table'[j], Prefix(d)', blocks'[d])
    <3>1. d \in 1 .. Depth /\ Stays(d)
      BY SameBlocksStay DEF SameBlocks
    <3>2. CASE j \in blocks[d].queue
      <4>1. j \in 1 .. t
        BY <1>1, <3>1, <3>2, Domains DEF EntriesOwned
      <4> QED BY <1>2, <3>1, <3>2, <4>1
    <3>3. CASE j \notin blocks[d].queue
      <4>1. d = k /\ j = t + 1
        BY <3>1, <3>3 DEF EmitsOn
      <4>2. ASSUME NEW i, i = Len(code'), Live(i)'
            PROVE  ~Dead(d - 1)' /\ Carried(code'[i], seen'[i].stack, table'[j], Prefix(d)', blocks'[d])
        <5>1. ~Dead(k - 1) /\ Carried(code'[i], seen'[i].stack, e, Prefix(k), blocks[k])
          BY <4>2
        <5>2. Carried(code'[i], seen'[i].stack, e, Prefix(k), blocks'[k])
          BY <3>1, <4>1, <5>1, SameCarried DEF Stays
        <5> QED BY <1>2, <3>1, <4>1, <5>1, <5>2 DEF Stays
      <4> QED BY <4>1, <4>2
    <3> QED BY <3>2, <3>3
  <2> QED BY <1>1, <1>3, <2>1, QueuedKept
<1>5. ResolvedTyped'
  <2>1. \A j \in 1 .. Len(table') : table'[j].resolved => j \in 1 .. Len(table) /\ table'[j] = table[j]
    BY <1>2 DEF EmitsOn
  <2> QED BY <1>1, <1>3, <2>1, ResolvedKept
<1> QED BY <1>4, <1>5

-----------------------------------------------------------------------------
(* The cells that the operands have taken at most.                         *)
LEMMA CellsKept ==
  ASSUME Checked, NEW instr, NEW found, NEW dead, NEW peak \in Seq(StackType), NEW st,
         Arrive(instr, found, dead, peak, st),
         CellNum(found) <= CellNum(peak) \/ found = stack, CellNum(st) <= CellNum(peak),
         found \in Seq(StackType), st \in Seq(StackType)
  PROVE  CellsBounded'
<1> DEFINE n == Len(code)
           c == CellNum(peak)
<1>0. TypeOK /\ CellsBounded
  BY DEF Checked, TypeInv, Sound
<1>1. Adds(instr, found, dead) /\ stack' = st /\ Peak(peak)
  BY <1>0, ArriveAdds DEF Arrive
<1>2. c \in Nat /\ maxCells \in Nat /\ CellNum(found) \in Nat /\ CellNum(st) \in Nat
  BY <1>0, CellNumNat DEF TypeOK
<1>3. maxCells' \in Nat /\ maxCells <= maxCells' /\ c <= maxCells'
  BY <1>1, <1>2 DEF Peak
<1>4. CellNum(stack) <= maxCells /\ CellNum(stack) \in Nat
  BY <1>0, CellNumNat DEF CellsBounded, TypeOK
<1>5. CellNum(found) <= maxCells' /\ CellNum(st) <= maxCells'
  BY <1>2, <1>3, <1>4
<1>6. ASSUME NEW i \in 1 .. n + 1 PROVE CellNum(seen'[i].stack) <= maxCells'
  <2>1. CASE i = n + 1
    BY <1>1, <1>5, <2>1 DEF Adds
  <2>2. CASE i # n + 1
    <3>1. i \in 1 .. n /\ seen'[i] = seen[i]
      BY <1>0, <1>1, <2>2, Domains DEF Adds
    <3>2. CellNum(seen[i].stack) <= maxCells /\ CellNum(seen[i].stack) \in Nat
      BY <1>0, <3>1, SeenType, CellNumNat DEF CellsBounded
    <3> QED BY <1>2, <1>3, <3>1, <3>2
  <2> QED BY <2>1, <2>2
<1>7. Len(code') = n + 1
  BY <1>1 DEF Adds
<1> QED BY <1>1, <1>5, <1>6, <1>7 DEF CellsBounded

(* A RETURN that is read finds the results of the function.                *)
LEMMA ReturnKept ==
  ASSUME TypeOK, ReturnTyped, NEW instr, NEW found, NEW dead, Adds(instr, found, dead),
         ~dead /\ instr.op = "return" => \E r \in Stacks : found = r \o FuncType.result,
         ~dead /\ verdict' = "accepted" => found = FuncType.result,
         verdict = "running"
  PROVE  ReturnTyped'
<1> DEFINE n == Len(code)
<1>1. n \in Nat /\ Len(code') = n + 1
  BY DEF Adds
<1>2. ASSUME NEW i \in 1 .. n + 1, Live(i)'
      PROVE  /\ code'[i].op = "return" => \E r \in Stacks : seen'[i].stack = r \o FuncType.result
             /\ verdict' = "accepted" /\ i = n + 1 => seen'[i].stack = FuncType.result
  <2>1. CASE i = n + 1
    <3>1. ~dead /\ code'[i] = instr /\ seen'[i].stack = found
      BY <1>2, <2>1, LiveNext
    <3> QED BY <3>1
  <2>2. CASE i # n + 1
    <3>1. i \in 1 .. n
      BY <1>1, <2>2
    <3>2. Live(i) /\ code'[i] = code[i] /\ seen'[i] = seen[i]
      BY <1>2, <3>1, LiveKept DEF Adds
    <3> QED BY <2>2, <3>1, <3>2 DEF ReturnTyped
  <2> QED BY <2>1, <2>2
<1> QED BY <1>1, <1>2 DEF ReturnTyped

(* A step that reads an instruction and stays in the block.                *)
LEMMA StayTyped ==
  ASSUME Checked, blocks # <<>>, verdict = "running", verdict' = "running",
         NEW instr, NEW peak \in Seq(StackType), NEW st,
         ReadPeak(instr, peak, st), CellNum(st) <= CellNum(peak),
         SameBlocks, OnBase(st), QueuedTyped', ResolvedTyped',
         Lasts(instr, stack, Dead(Depth)),
         ~Dead(Depth)' => st \in Stacks,
         labels' # <<>> /\ ~Dead(Depth) => ~Dead(Depth)' /\ stack = Append(st, "I32"),
         ~Dead(Depth) /\ instr.op = "return" => \E r \in Stacks : stack = r \o FuncType.result
  PROVE  Sound'
<1> DEFINE n == Len(code)
<1>0. TypeOK /\ Sound /\ stack \in Seq(StackType) /\ Depth \in Nat
  BY Domains DEF Checked, TypeInv, TypeOK
<1>1. Arrive(instr, stack, Dead(Depth), peak, st)
  BY DEF ReadPeak
<1>2. Adds(instr, stack, Dead(Depth)) /\ stack' = st
  BY <1>0, <1>1, ArriveAdds DEF Arrive
<1>3. Aligned(stack, Dead(Depth))
  BY DEF Aligned
<1>4. \A d \in 1 .. Depth : Stays(d) /\ BlockAt(d)'
  BY <1>2, SameBlocksStay
<1>5. FirstLive' /\ FlowTyped'
  BY <1>0, <1>2, <1>3, FlowKept DEF Sound
<1>6. LabelsTyped'
  <2> SUFFICES ASSUME labels' # <<>>, NEW i, i = Len(code'), Live(i)'
               PROVE  ~Dead(Depth)' /\ seen'[i].stack = Append(stack', "I32")
    BY DEF LabelsTyped, Live
  <2>1. i = n + 1
    BY <1>2 DEF Adds
  <2>2. ~Dead(Depth) /\ seen'[i].stack = stack
    BY <1>2, <2>1, LiveNext
  <2> QED BY <1>2, <2>2
<1>7. LoopTyped'
  BY <1>0, <1>2, <1>3, <1>4, LoopKept DEF LoopTyped, Sound, SameBlocks
<1>8. BlocksTyped'
  BY <1>4 DEF BlocksTyped, SameBlocks
<1>9. StackTyped'
  <2>1. 1 \in 1 .. Depth \/ ~ (Depth > 0)
    BY <1>0
  <2> QED BY <1>0, <1>2, <2>1 DEF StackTyped, Sound, SameBlocks
<1>10. ReturnTyped'
  BY <1>0, <1>2, ReturnKept DEF Sound
<1>11. CellsBounded'
  BY <1>0, <1>1, CellsKept DEF OnBase
<1> QED BY <1>5, <1>6, <1>7, <1>8, <1>9, <1>10, <1>11 DEF Sound

(* Live code has pops that are not waived, or the step is a lapse.         *)
LEMMA LivePops ==
  ASSUME Checked, blocks # <<>>, ~Dead(Depth), NEW st, OnBase(st),
         NEW types \in Seq(StackType), PopOk(st, types), Stale(st, types) = {}
  PROVE  /\ st = AfterPop(st, types) \o types /\ AfterPop(st, types) \in Seq(StackType)
         /\ OnBase(AfterPop(st, types))
<1>1. ~own[Depth]
  <2>1. Depth \in 1 .. Depth
    BY StackOnBase DEF Checked, TypeInv, Based
  <2> QED BY <2>1 DEF Dead
<1>2. ~Waived(st, types)
  BY <1>1 DEF Stale
<1> QED BY <1>2, LivePop, PopOnBase

(* A step that ends without a lapse began without one and notes none.      *)
LEMMA NoLapse ==
  ASSUME TypeOK, NEW found, Note(found), lapses' = {}
  PROVE  lapses = {} /\ found = {}
BY DEF Note

(* The facts every step starts from.                                       *)
LEMMA OpenFacts ==
  ASSUME Checked, blocks # <<>>
  PROVE  /\ TypeOK /\ BlocksNested /\ stack \in Seq(StackType) /\ Depth \in Nat \ {0}
         /\ Depth \in 1 .. Depth /\ OnBase(stack) /\ OnBase(BlockBase)
         /\ Top \in BlockSet /\ (~Dead(Depth) => stack \in Stacks /\ ~Dead(Depth - 1))
         /\ (~Dead(Depth - 1) => BlockBase \in Stacks)
<1>1. TypeOK /\ BlocksNested /\ stack \in Seq(StackType)
  BY DEF Checked, TypeInv, TypeOK
<1>2. OnBase(stack) /\ OnBase(BlockBase) /\ Based(stack)
  BY <1>1, StackOnBase
<1>3. Depth \in Nat \ {0} /\ Depth \in 1 .. Depth /\ Top \in BlockSet
  BY <1>2 DEF Based
<1>4. ~Dead(Depth) => stack \in Stacks /\ ~Dead(Depth - 1)
  BY <1>3 DEF Checked, Sound, StackTyped, Dead
<1>5. ~Dead(Depth - 1) => BlockBase \in Stacks
  BY <1>3 DEF Checked, Sound, BlocksTyped, BlockAt, Prefix, BlockBase, Top
<1> QED BY <1>1, <1>2, <1>3, <1>4, <1>5

(* An instruction that pops and pushes operands, as the interpreter will.  *)
LEMMA OperateTyped ==
  ASSUME Checked, blocks # <<>>, verdict = "running", labels = <<>>,
         NEW instr, NEW pop \in Seq(StackType), NEW push \in Seq(StackType),
         Operate(instr, pop, push), lapses' = {}, PopOk(stack, pop),
         instr.op \notin FlowEnders,
         pop \in Stacks => push \in Stacks /\ Moves(instr, pop, push)
  PROVE  Sound'
<1> DEFINE r  == AfterPop(stack, pop)
           st == r \o push
<1>1. /\ TypeOK /\ stack \in Seq(StackType) /\ Depth \in Nat \ {0} /\ Depth \in 1 .. Depth
      /\ OnBase(stack) /\ (~Dead(Depth) => stack \in Stacks)
  BY OpenFacts
<1>2. /\ ReadPeak(instr, st, st) /\ Note(Stale(stack, pop))
      /\ UNCHANGED <<blocks, poly, own, table, brt, verdict>>
  BY DEF Operate, Read
<1>3. OnBase(r) /\ OnBase(st) /\ st \in Seq(StackType)
  BY <1>1, PopOnBase, PushOnBase DEF OnBase
<1> HIDE DEF r, st
<1>4. Adds(instr, stack, Dead(Depth)) /\ stack' = st
  BY <1>1, <1>2, ArriveAdds DEF ReadPeak, Arrive
<1>5. SameBlocks /\ EmitsNothing
  <2>1. own[Depth] => poly[Depth]
    BY <1>1 DEF Checked, Sound, BlocksTyped, BlockAt
  <2> QED BY <1>2, <2>1 DEF SameBlocks, EmitsNothing, Depth
<1>6. QueuedTyped' /\ ResolvedTyped'
  BY <1>3, <1>4, <1>5, EmitsNothingTyped
<1>7. Dead(Depth)' <=> Dead(Depth)
  BY <1>2 DEF Dead, Depth
<1>8. ASSUME ~Dead(Depth)
      PROVE  Effect(instr, stack, st) /\ st \in Stacks
  <2>1. Stale(stack, pop) = {}
    BY <1>1, <1>2, NoLapse
  <2>2. stack = r \o pop /\ r \in Seq(StackType)
    BY <1>1, <1>8, <2>1, LivePops DEF r
  <2>3. r \in Stacks /\ pop \in Stacks
    BY <1>1, <1>8, <2>2, PartsOfValues
  <2>4. push \in Stacks /\ Moves(instr, pop, push)
    BY <2>3
  <2>5. st \in Stacks
    BY <2>3, <2>4 DEF st, Stacks
  <2> QED BY <2>2, <2>3, <2>4, <2>5 DEF Effect, st
<1>9. Lasts(instr, stack, Dead(Depth))
  BY <1>4, <1>7, <1>8 DEF Lasts
<1>10. labels' = <<>> /\ verdict' = "running" /\ instr.op # "return" /\ CellNum(st) <= CellNum(st)
  <2>1. CellNum(st) \in Nat
    BY <1>3, CellNumNat
  <2> QED BY <1>2, <2>1 DEF brt, FlowEnders
<1> QED BY <1>2, <1>3, <1>5, <1>6, <1>7, <1>8, <1>9, <1>10, StayTyped

-----------------------------------------------------------------------------
(* Rejecting forgets everything.                                           *)
LEMMA RejectTyped == ASSUME Reject PROVE Sound'
<1>1. /\ code' = <<>> /\ stack' = <<>> /\ blocks' = <<>> /\ table' = <<>> /\ labels' = <<>>
      /\ maxCells' = 0 /\ Depth' = 0
  BY DEF Reject, Depth
<1>2. Len(code') = 0 /\ DOMAIN table' = {}
  BY <1>1
<1>3. ~Dead(Depth)'
  BY <1>1 DEF Dead
<1>4. FirstLive' /\ FlowTyped' /\ LabelsTyped' /\ QueuedTyped' /\ ResolvedTyped'
  BY <1>1, <1>2, <1>3 DEF FirstLive, FlowTyped, LabelsTyped, QueuedTyped, ResolvedTyped
<1>5. LoopTyped' /\ BlocksTyped' /\ ReturnTyped'
  BY <1>1, <1>2 DEF LoopTyped, BlocksTyped, ReturnTyped
<1>6. StackTyped'
  <2>1. stack' \in Stacks /\ 0 <= MaxBlocks
    BY <1>1, ValidatorAssumption DEF Stacks
  <2> QED BY <1>1, <2>1 DEF StackTyped
<1>7. CellsBounded'
  BY <1>1, <1>2, NoCells DEF CellsBounded
<1> QED BY <1>4, <1>5, <1>6, <1>7 DEF Sound

(* Instructions that only pop and push operands.                           *)
LEMMA OperateStaysTyped ==
  ASSUME Checked, NEW op, Reading(op), lapses' = {},
         NEW instr, NEW pop \in Seq(StackType), NEW push \in Seq(StackType),
         Operate(instr, pop, push), instr.op \notin FlowEnders,
         pop \in Stacks => push \in Stacks /\ Moves(instr, pop, push)
  PROVE  Sound'
<1>1. CASE PopOk(stack, pop)
  BY <1>1, OperateTyped DEF Reading
<1>2. CASE ~PopOk(stack, pop)
  BY <1>2, RejectTyped DEF Operate
<1> QED BY <1>1, <1>2

(* NOP.                                                                    *)
LEMMA NopTyped == Checked /\ Nop /\ lapses' = {} => Sound'
<1> SUFFICES ASSUME Checked, Nop, lapses' = {} PROVE Sound'
  OBVIOUS
<1> DEFINE instr == [op |-> "nop"]
<1>1. <<>> \in Seq(StackType) /\ <<>> \in Stacks
  BY DEF Stacks
<1>2. instr.op \notin FlowEnders /\ Moves(instr, <<>>, <<>>)
  BY DEF FlowEnders, Moves
<1>3. Reading("nop") /\ Operate(instr, <<>>, <<>>)
  BY DEF Nop
<1> HIDE DEF instr
<1> QED BY <1>1, <1>2, <1>3, OperateStaysTyped

(* CALL pops the parameters and pushes the results of the function.        *)
LEMMA CallTyped == ASSUME NEW f \in Nat PROVE Checked /\ Call(f) /\ lapses' = {} => Sound'
<1> SUFFICES ASSUME Checked, Call(f), lapses' = {} PROVE Sound'
  OBVIOUS
<1>1. CASE f < Len(Funcs)
  <2> DEFINE instr == [op |-> "call", func |-> f]
             type  == Funcs[f + 1]
  <2>1. type \in FuncTypeSet /\ f \in 0 .. Len(Imports)
    <3>1. Len(Funcs) = Len(Imports) + 1 /\ Len(Imports) \in Nat
      BY ValidatorAssumption DEF Funcs
    <3> QED BY <1>1, <3>1, FuncsType
  <2>2. type.param \in Stacks /\ type.result \in Stacks
    BY <2>1 DEF FuncTypeSet, Stacks
  <2>3. type.param \in Seq(StackType) /\ type.result \in Seq(StackType)
    BY <2>2, ValueStack DEF Stacks
  <2>4. instr.op \notin FlowEnders /\ instr.op = "call" /\ instr.func = f
    BY DEF FlowEnders
  <2>5. Reading("call") /\ Operate(instr, type.param, type.result)
    BY <1>1 DEF Call
  <2> HIDE DEF instr
  <2>6. Moves(instr, type.param, type.result)
    BY <2>1, <2>4 DEF Moves
  <2> HIDE DEF type
  <2> QED BY <2>2, <2>3, <2>4, <2>5, <2>6, OperateStaysTyped
<1>2. CASE ~ (f < Len(Funcs))
  BY <1>2, RejectTyped DEF Call
<1> QED BY <1>1, <1>2

(* CALL_INDIRECT pops the index of the element too.                        *)
LEMMA CallIndirectTyped ==
  ASSUME NEW t \in Nat
  PROVE  Checked /\ CallIndirect(t) /\ lapses' = {} => Sound'
<1> SUFFICES ASSUME Checked, CallIndirect(t), lapses' = {} PROVE Sound'
  OBVIOUS
<1>1. CASE HasTable /\ t < Len(Types)
  <2> DEFINE type  == Types[t + 1]
             instr == [op |-> "call_indirect", type |-> type]
             pop   == Append(type.param, "I32")
  <2>1. type \in FuncTypeSet
    BY <1>1, ValidatorAssumption
  <2>2. type.param \in Seq(ValueType) /\ type.result \in Seq(ValueType)
    BY <2>1 DEF FuncTypeSet
  <2>3. pop \in Seq(ValueType)
    BY <2>2 DEF ValueType
  <2>4. pop \in Seq(StackType) /\ type.result \in Seq(StackType) /\ type.result \in Stacks
    BY <2>2, <2>3, ValueStack DEF Stacks
  <2>5. instr.op \notin FlowEnders /\ instr.op = "call_indirect" /\ instr.type = type
    BY DEF FlowEnders
  <2>6. Reading("call_indirect") /\ Operate(instr, pop, type.result)
    BY <1>1 DEF CallIndirect
  <2> HIDE DEF instr
  <2>7. Moves(instr, pop, type.result)
    BY <2>5 DEF Moves
  <2> HIDE DEF type, pop
  <2> QED BY <2>4, <2>5, <2>6, <2>7, OperateStaysTyped
<1>2. CASE ~ (HasTable /\ t < Len(Types))
  BY <1>2, RejectTyped DEF CallIndirect
<1> QED BY <1>1, <1>2

(* DROP notes the width of the operand it pops.                            *)
LEMMA DropTyped == Checked /\ Drop /\ lapses' = {} => Sound'
<1> SUFFICES ASSUME Checked, Drop, lapses' = {} PROVE Sound'
  OBVIOUS
<1> DEFINE t == TopType(stack)
           instr == [op |-> "drop", wide |-> t \in Wide]
<1>1. t \in StackType
  BY TopTypeType DEF Checked, TypeInv, TypeOK
<1>2. <<t>> \in Seq(StackType) /\ <<>> \in Seq(StackType) /\ <<>> \in Stacks
  BY <1>1 DEF Stacks
<1>3. instr.op \notin FlowEnders /\ instr.op = "drop" /\ instr.wide = (t \in Wide)
  BY DEF FlowEnders
<1>4. Reading("drop") /\ Operate(instr, <<t>>, <<>>)
  BY DEF Drop
<1> HIDE DEF instr, t
<1>5. <<t>> \in Stacks => Moves(instr, <<t>>, <<>>)
  <2> SUFFICES ASSUME <<t>> \in Stacks PROVE \E u \in ValueType : <<t>> = <<u>> /\ instr.wide = (u \in Wide)
    BY <1>3 DEF Moves
  <2>1. t \in ValueType
    BY DEF Stacks
  <2> QED BY <1>3, <2>1
<1> QED BY <1>2, <1>3, <1>4, <1>5, OperateStaysTyped

(* SELECT notes the width of the two operands it chooses from.             *)
LEMMA SelectTyped == Checked /\ Select /\ lapses' = {} => Sound'
<1> SUFFICES ASSUME Checked, Select, lapses' = {} PROVE Sound'
  OBVIOUS
<1> DEFINE st == AfterPop(stack, <<"I32">>)
           t == TopType(st)
           instr == [op |-> "select", wide |-> t \in Wide]
<1>1. t \in StackType
  <2>1. blocks # <<>>
    BY DEF Select, Reading
  <2>2. st \in Seq(StackType)
    BY <2>1, OpenFacts, PopOnBase, I32Stack DEF OnBase
  <2> QED BY <2>2, TopTypeType
<1>2. Reading("select") /\ Operate(instr, <<t, t, "I32">>, <<t>>)
  BY DEF Select
<1>3. instr.op \notin FlowEnders /\ instr.op = "select" /\ instr.wide = (t \in Wide)
  BY DEF FlowEnders
<1> HIDE DEF instr, t
<1>4. <<t, t, "I32">> \in Seq(StackType) /\ <<t>> \in Seq(StackType)
  BY <1>1 DEF StackType, ValueType
<1>5. <<t, t, "I32">> \in Stacks => <<t>> \in Stacks /\ Moves(instr, <<t, t, "I32">>, <<t>>)
  <2> SUFFICES ASSUME <<t, t, "I32">> \in Stacks
               PROVE  /\ <<t>> \in Stacks
                      /\ \E u \in ValueType :
                           <<t, t, "I32">> = <<u, u, "I32">> /\ <<t>> = <<u>> /\ instr.wide = (u \in Wide)
    BY <1>3 DEF Moves
  <2>1. t \in ValueType
    BY DEF Stacks
  <2> QED BY <1>3, <2>1 DEF Stacks
<1> QED BY <1>2, <1>3, <1>4, <1>5, OperateStaysTyped

(* The instructions of a local move an operand of its type.                *)
LEMMA LocalTyped ==
  ASSUME NEW l \in Nat
  PROVE  Checked /\ (GetLocal(l) \/ SetLocal(l) \/ TeeLocal(l)) /\ lapses' = {} => Sound'
<1> SUFFICES ASSUME Checked, GetLocal(l) \/ SetLocal(l) \/ TeeLocal(l), lapses' = {} PROVE Sound'
  OBVIOUS
<1>1. CASE l < Len(Locals)
  <2> DEFINE t == <<Locals[l + 1]>>
  <2>1. l \in 0 .. Len(Locals) - 1 /\ Locals[l + 1] \in ValueType
    BY <1>1, ValidatorAssumption
  <2>2. t \in Stacks /\ <<>> \in Stacks /\ t \in Seq(StackType) /\ <<>> \in Seq(StackType)
    BY <2>1 DEF Stacks, StackType
  <2>3. ASSUME NEW op \in {"get_local", "set_local", "tee_local"}
        PROVE  LocalInstr(op, l).op = op
    BY DEF LocalInstr
  <2>4. CASE GetLocal(l)
    <3>1. Reading("get_local") /\ Operate(LocalInstr("get_local", l), <<>>, t)
      BY <1>1, <2>4 DEF GetLocal
    <3> DEFINE instr == LocalInstr("get_local", l)
    <3>2. instr.op = "get_local" /\ instr.op \notin FlowEnders
      BY <2>3 DEF FlowEnders
    <3>3. instr = LocalInstr(instr.op, l)
      BY <3>2
    <3> HIDE DEF instr
    <3>4. Moves(instr, <<>>, t)
      BY <2>1, <3>2, <3>3 DEF Moves
    <3> HIDE DEF t
    <3> QED BY <2>2, <3>1, <3>2, <3>4, OperateStaysTyped DEF instr
  <2>5. CASE SetLocal(l)
    <3>1. Reading("set_local") /\ Operate(LocalInstr("set_local", l), t, <<>>)
      BY <1>1, <2>5 DEF SetLocal
    <3> DEFINE instr == LocalInstr("set_local", l)
    <3>2. instr.op = "set_local" /\ instr.op \notin FlowEnders
      BY <2>3 DEF FlowEnders
    <3>3. instr = LocalInstr(instr.op, l)
      BY <3>2
    <3> HIDE DEF instr
    <3>4. Moves(instr, t, <<>>)
      BY <2>1, <3>2, <3>3 DEF Moves
    <3> HIDE DEF t
    <3> QED BY <2>2, <3>1, <3>2, <3>4, OperateStaysTyped DEF instr
  <2>6. CASE TeeLocal(l)
    <3>1. Reading("tee_local") /\ Operate(LocalInstr("tee_local", l), t, t)
      BY <1>1, <2>6 DEF TeeLocal
    <3> DEFINE instr == LocalInstr("tee_local", l)
    <3>2. instr.op = "tee_local" /\ instr.op \notin FlowEnders
      BY <2>3 DEF FlowEnders
    <3>3. instr = LocalInstr(instr.op, l)
      BY <3>2
    <3> HIDE DEF instr
    <3>4. Moves(instr, t, t)
      BY <2>1, <3>2, <3>3 DEF Moves
    <3> HIDE DEF t
    <3> QED BY <2>2, <3>1, <3>2, <3>4, OperateStaysTyped DEF instr
  <2> QED BY <2>4, <2>5, <2>6
<1>2. CASE ~ (l < Len(Locals))
  BY <1>2, RejectTyped DEF GetLocal, SetLocal, TeeLocal
<1> QED BY <1>1, <1>2

(* Those of a global move an operand of its type.                          *)
LEMMA GlobalTyped ==
  ASSUME NEW g \in Nat
  PROVE  Checked /\ (GetGlobal(g) \/ SetGlobal(g)) /\ lapses' = {} => Sound'
<1> SUFFICES ASSUME Checked, GetGlobal(g) \/ SetGlobal(g), lapses' = {} PROVE Sound'
  OBVIOUS
<1>1. CASE g < Len(Globals)
  <2> DEFINE v == Globals[g + 1].type
             t == <<v>>
  <2>1. v \in ValueType
    <3> DEFINE R == [type : ValueType, mutable : BOOLEAN]
    <3>1. Globals \in Seq(R) /\ g + 1 \in 1 .. Len(Globals)
      BY <1>1, ValidatorAssumption
    <3> HIDE DEF R
    <3>2. Globals[g + 1] \in R
      BY <3>1
    <3> QED BY <3>2 DEF R
  <2> HIDE DEF v
  <2>2. t \in Stacks /\ <<>> \in Stacks /\ t \in Seq(StackType) /\ <<>> \in Seq(StackType)
    BY <2>1 DEF Stacks, StackType
  <2>3. CASE GetGlobal(g)
    <3> DEFINE instr == [op |-> "get_global", value |-> v]
    <3>1. Reading("get_global") /\ Operate(instr, <<>>, t)
      BY <1>1, <2>3 DEF GetGlobal, v
    <3>2. instr.op = "get_global" /\ instr.op \notin FlowEnders /\ instr.value = v
      BY DEF FlowEnders
    <3> HIDE DEF instr
    <3>3. Moves(instr, <<>>, t)
      BY <3>2 DEF Moves
    <3> HIDE DEF t
    <3> QED BY <2>2, <3>1, <3>2, <3>3, OperateStaysTyped
  <2>4. CASE SetGlobal(g) /\ Globals[g + 1].mutable
    <3> DEFINE instr == [op |-> "set_global", value |-> v]
    <3>1. Reading("set_global") /\ Operate(instr, t, <<>>)
      BY <1>1, <2>4 DEF SetGlobal, v
    <3>2. instr.op = "set_global" /\ instr.op \notin FlowEnders /\ instr.value = v
      BY DEF FlowEnders
    <3> HIDE DEF instr
    <3>3. Moves(instr, t, <<>>)
      BY <3>2 DEF Moves
    <3> HIDE DEF t
    <3> QED BY <2>2, <3>1, <3>2, <3>3, OperateStaysTyped
  <2>5. CASE SetGlobal(g) /\ ~Globals[g + 1].mutable
    BY <2>5, RejectTyped DEF SetGlobal
  <2> QED BY <2>3, <2>4, <2>5
<1>2. CASE ~ (g < Len(Globals))
  BY <1>2, RejectTyped DEF GetGlobal, SetGlobal
<1> QED BY <1>1, <1>2

(* A plain instruction pops and pushes what its signature says.            *)
LEMMA PlainTyped ==
  ASSUME NEW sig \in Plain
  PROVE  Checked /\ PlainOp(sig) /\ lapses' = {} => Sound'
<1> SUFFICES ASSUME Checked, PlainOp(sig), lapses' = {} PROVE Sound'
  OBVIOUS
<1> DEFINE instr == [op |-> "plain", sig |-> sig]
<1>1. sig.pop \in Seq(ValueType) /\ sig.push \in Seq(ValueType)
  BY ValidatorAssumption
<1>2. sig.pop \in Seq(StackType) /\ sig.push \in Seq(StackType) /\ sig.push \in Stacks
  BY <1>1, ValueStack DEF Stacks
<1>3. Reading("plain") /\ Operate(instr, sig.pop, sig.push)
  BY DEF PlainOp
<1>4. instr.op = "plain" /\ instr.op \notin FlowEnders /\ instr.sig = sig
  BY DEF FlowEnders
<1> HIDE DEF instr
<1>5. Moves(instr, sig.pop, sig.push)
  BY <1>4 DEF Moves
<1> QED BY <1>2, <1>3, <1>4, <1>5, OperateStaysTyped

(* The blocks, but for their queues and their ELSE.                        *)
SameShapes ==
  /\ Depth' = Depth
  /\ \A d \in 1 .. Depth :
       /\ blocks'[d].label = blocks[d].label /\ blocks'[d].type = blocks[d].type
       /\ blocks'[d].cells = blocks[d].cells /\ blocks'[d].start = blocks[d].start
       /\ blocks'[d].base = blocks[d].base

(* The flag of the current block tells whether its code is dead from here  *)
(* on.                                                                     *)
LEMMA SetPolySame ==
  ASSUME Checked, blocks # <<>>, NEW flag \in BOOLEAN, SetPoly(flag), SameShapes
  PROVE  /\ SameBlocks
         /\ (Dead(Depth)' <=> flag \/ Dead(Depth - 1))
<1>1. /\ Depth \in 1 .. Depth /\ Depth \in Nat \ {0} /\ Depth <= MaxBlocks /\ MaxBlocks \in Nat
      /\ own \in [1 .. MaxBlocks -> BOOLEAN] /\ poly \in [1 .. MaxBlocks -> BOOLEAN]
  BY OpenFacts, ValidatorAssumption DEF Checked, Sound, StackTyped, TypeOK
<1>2. own'[Depth] = flag /\ poly'[Depth] = flag
      /\ \A d \in 1 .. Depth - 1 : own'[d] = own[d] /\ poly'[d] = poly[d]
  BY <1>1 DEF SetPoly
<1>3. SameBlocks
  BY <1>2 DEF SameBlocks, SameShapes
<1>4. Dead(Depth)' <=> \E e \in 1 .. Depth : own'[e]
  BY DEF Dead, SameShapes
<1>5. (\E e \in 1 .. Depth : own'[e]) <=> flag \/ Dead(Depth - 1)
  <2>1. 1 .. Depth = (1 .. Depth - 1) \cup {Depth}
    BY <1>1
  <2> QED BY <1>2, <2>1 DEF Dead
<1> QED BY <1>3, <1>4, <1>5

(* A step that reads an instruction behind which control does not go on.   *)
LEMMA EndsFlow ==
  ASSUME Checked, blocks # <<>>, verdict = "running", verdict' = "running", labels' = <<>>,
         NEW instr, instr.op \in FlowEnders, NEW peak \in Seq(StackType),
         ReadPeak(instr, peak, BlockBase), CellNum(BlockBase) <= CellNum(peak),
         SetPoly(TRUE), SameShapes, QueuedTyped', ResolvedTyped',
         ~Dead(Depth) /\ instr.op = "return" => \E r \in Stacks : stack = r \o FuncType.result
  PROVE  Sound'
<1>1. OnBase(BlockBase)
  BY OpenFacts
<1>2. SameBlocks /\ Dead(Depth)'
  BY SetPolySame
<1>3. Lasts(instr, stack, Dead(Depth))
  BY DEF Lasts
<1> QED BY <1>1, <1>2, <1>3, StayTyped

(* The operands below the current block have no more cells than all of     *)
(* them.                                                                   *)
LEMMA BaseCells ==
  ASSUME NEW st, OnBase(st)
  PROVE  CellNum(BlockBase) <= CellNum(st)
BY CellNumPrefix DEF OnBase

(* Without a change to blocks and table, nothing is emitted.               *)
LEMMA SameNothing ==
  ASSUME UNCHANGED <<blocks, table>>
  PROVE  SameShapes /\ EmitsNothing
BY DEF SameShapes, EmitsNothing, Depth

(* UNREACHABLE.                                                            *)
LEMMA UnreachableTyped == Checked /\ Unreachable /\ lapses' = {} => Sound'
<1> SUFFICES ASSUME Checked, Unreachable, lapses' = {} PROVE Sound'
  OBVIOUS
<1> DEFINE instr == [op |-> "unreachable"]
<1>1. /\ blocks # <<>> /\ verdict = "running" /\ verdict' = "running" /\ labels' = <<>>
      /\ ReadPeak(instr, BlockBase, BlockBase) /\ SetPoly(TRUE)
      /\ UNCHANGED <<blocks, table>>
  BY DEF Unreachable, Reading, Read, brt
<1>2. instr.op = "unreachable"
  OBVIOUS
<1> HIDE DEF instr
<1>3. OnBase(BlockBase) /\ BlockBase \in Seq(StackType) /\ TypeOK
  BY <1>1, OpenFacts DEF OnBase
<1>4. CellNum(BlockBase) <= CellNum(BlockBase)
  BY <1>3, CellNumNat
<1>5. SameShapes /\ EmitsNothing /\ SameBlocks
  BY <1>1, SameNothing, SetPolySame
<1>6. Adds(instr, stack, Dead(Depth)) /\ stack' = BlockBase
  BY <1>1, <1>3, ArriveAdds DEF ReadPeak, Arrive
<1>7. QueuedTyped' /\ ResolvedTyped'
  BY <1>1, <1>3, <1>5, <1>6, EmitsNothingTyped
<1>8. instr.op \in FlowEnders /\ instr.op # "return"
  BY <1>2 DEF FlowEnders
<1> QED BY <1>1, <1>3, <1>4, <1>5, <1>7, <1>8, EndsFlow

(* RETURN.                                                                 *)
LEMMA ReturnOpTyped == Checked /\ Return /\ lapses' = {} => Sound'
<1> SUFFICES ASSUME Checked, Return, lapses' = {} PROVE Sound'
  OBVIOUS
<1>1. CASE PopOk(stack, FuncType.result)
  <2> DEFINE instr == [op |-> "return"]
             want == FuncType.result
  <2>1. /\ blocks # <<>> /\ verdict = "running" /\ verdict' = "running" /\ labels' = <<>>
        /\ ReadPeak(instr, BlockBase, BlockBase) /\ SetPoly(TRUE)
        /\ UNCHANGED <<blocks, table>> /\ Note(Stale(stack, want))
    BY <1>1 DEF Return, Reading, Read, brt
  <2>2. instr.op = "return"
    OBVIOUS
  <2> HIDE DEF instr
  <2>3. /\ OnBase(BlockBase) /\ BlockBase \in Seq(StackType) /\ TypeOK /\ OnBase(stack)
        /\ stack \in Seq(StackType) /\ (~Dead(Depth) => stack \in Stacks)
    BY <2>1, OpenFacts DEF OnBase
  <2>4. CellNum(BlockBase) <= CellNum(BlockBase)
    BY <2>3, CellNumNat
  <2>5. SameShapes /\ EmitsNothing /\ SameBlocks
    BY <2>1, SameNothing, SetPolySame
  <2>6. Adds(instr, stack, Dead(Depth)) /\ stack' = BlockBase
    BY <2>1, <2>3, ArriveAdds DEF ReadPeak, Arrive
  <2>7. QueuedTyped' /\ ResolvedTyped'
    BY <2>1, <2>3, <2>5, <2>6, EmitsNothingTyped
  <2>8. instr.op \in FlowEnders
    BY <2>2 DEF FlowEnders
  <2>9. ASSUME ~Dead(Depth) PROVE \E r \in Stacks : stack = r \o want
    <3>1. want \in Seq(StackType)
      BY ValidatorAssumption, ValueStack DEF FuncTypeSet
    <3>2. Stale(stack, want) = {}
      BY <2>1, <2>3, NoLapse
    <3>3. stack = AfterPop(stack, want) \o want /\ AfterPop(stack, want) \in Seq(StackType)
      BY <1>1, <2>1, <2>3, <2>9, <3>1, <3>2, LivePops
    <3>4. AfterPop(stack, want) \in Stacks
      BY <2>3, <2>9, <3>1, <3>3, PartsOfValues
    <3> QED BY <3>3, <3>4
  <2> QED BY <2>1, <2>3, <2>4, <2>5, <2>7, <2>8, <2>9, EndsFlow
<1>2. CASE ~PopOk(stack, FuncType.result)
  BY <1>2, RejectTyped DEF Return
<1> QED BY <1>1, <1>2

(* Operands above the base of the current block stand on every prefix.     *)
LEMMA OnPrefix ==
  ASSUME Checked, blocks # <<>>, NEW st, OnBase(st), NEW k \in 1 .. Depth
  PROVE  /\ Prefix(k) \in Seq(StackType) /\ blocks[k].base \in Nat
         /\ \E q \in Seq(StackType) : st = Prefix(k) \o q
<1> DEFINE m == blocks[k].base
<1>1. /\ st \in Seq(StackType) /\ Top.base \in 0 .. Len(st) /\ SubSeq(st, 1, Top.base) = BlockBase
      /\ m \in 0 .. Top.base /\ stack \in Seq(StackType) /\ Top.base \in 0 .. Len(stack)
  BY OpenFacts, BasesGrow DEF OnBase
<1>2. SubSeq(BlockBase, 1, m) = SubSeq(stack, 1, m)
  BY <1>1, PrefixOfPrefix DEF BlockBase
<1>3. SubSeq(SubSeq(st, 1, Top.base), 1, m) = SubSeq(st, 1, m)
  BY <1>1, PrefixOfPrefix
<1>4. Prefix(k) = SubSeq(st, 1, m)
  BY <1>1, <1>2, <1>3 DEF Prefix
<1>5. m \in 0 .. Len(st)
  BY <1>1
<1>6. \E q \in Seq(StackType) : st = SubSeq(st, 1, m) \o q
  BY <1>1, <1>5, Splits
<1>7. SubSeq(st, 1, m) \in Seq(StackType) /\ m \in Nat
  BY <1>1, <1>5, PrefixType
<1>8. Prefix(k) \in Seq(StackType) /\ \E q \in Seq(StackType) : st = Prefix(k) \o q
  BY <1>4, <1>6, <1>7
<1> QED BY <1>7, <1>8

(* Branching from live code without a lapse: the operands of the label are *)
(* on top, and below them those that the branch drops.                     *)
LEMMA BranchOperands ==
  ASSUME Checked, blocks # <<>>, ~Dead(Depth), NEW st \in Stacks, OnBase(st),
         NEW depth \in Nat, CheckBr(st, depth), BranchLapse(st, depth) = {}
  PROVE  /\ AfterCheckBr(st, depth) = st
         /\ LabelTypes(depth) \in Stacks
         /\ \E r \in Stacks : st = r \o LabelTypes(depth) /\ OnBase(r)
<1> DEFINE want == LabelTypes(depth)
           r    == AfterPop(st, want)
<1>1. /\ TypeOK /\ Depth \in 1 .. Depth /\ ~own[Depth]
  BY OpenFacts DEF Dead
<1>2. depth < Depth
  BY DEF CheckBr
<1>3. want \in Stacks /\ want \in Seq(StackType)
  BY <1>1, <1>2, LabelType, ValueStack DEF Stacks
<1>4. PopOk(st, want) /\ ~Waived(st, want)
  <2>1. CASE poly[Depth]
    BY <1>1, <2>1 DEF CheckBr, BranchLapse, Stale
  <2>2. CASE ~poly[Depth]
    BY <2>2 DEF CheckBr, BranchLapse, PopOk
  <2> QED BY <2>1, <2>2
<1>5. st = r \o want /\ r \in Seq(StackType) /\ OnBase(r)
  BY <1>3, <1>4, LivePop, PopOnBase
<1>6. r \in Stacks
  BY <1>3, <1>5, PartsOfValues
<1>7. AfterCheckBr(st, depth) = st
  BY <1>5 DEF AfterCheckBr
<1> QED BY <1>3, <1>5, <1>6, <1>7

(* The entry of a live branch carries what the label of its block takes.   *)
LEMMA BranchCarried ==
  ASSUME Checked, blocks # <<>>, ~Dead(Depth), NEW st \in Stacks, OnBase(st),
         NEW depth \in Nat, CheckBr(st, depth), BranchLapse(st, depth) = {},
         NEW op \in {"br", "br_if", "br_table"}, NEW instr, NEW found, AtBranch(instr, found, st),
         NEW e, e = Entry(op, CellNum(AfterCheckBr(st, depth)) - blocks[Depth - depth].cells,
                          CellNum(blocks[Depth - depth].type.result))
  PROVE  /\ ~Dead(Depth - depth - 1)
         /\ Carried(instr, found, e, Prefix(Depth - depth), blocks[Depth - depth])
<1> DEFINE want == LabelTypes(depth)
           k    == Depth - depth
           b    == blocks[k]
           p    == Prefix(k)
<1>1. /\ TypeOK /\ Depth \in Nat \ {0} /\ k \in 1 .. Depth /\ b \in BlockSet
  BY OpenFacts, LabelType DEF CheckBr
<1>2. ~Dead(k - 1)
  BY <1>1 DEF Dead
<1>3. PICK r \in Stacks : st = r \o want /\ OnBase(r)
  BY BranchOperands
<1>4. AfterCheckBr(st, depth) = st /\ want \in Stacks
  BY BranchOperands
<1>5. PICK q \in Seq(StackType) : r = p \o q /\ p \in Seq(StackType)
  BY <1>1, <1>3, OnPrefix
<1>6. p \in Stacks /\ q \in Stacks
  BY <1>3, <1>5, PartsOfValues
<1>7. b.cells = CellNum(p)
  BY <1>1 DEF Checked, Sound, BlocksTyped, BlockAt
<1>8. want = Arity(b)
  BY DEF LabelTypes, Arity
<1> HIDE DEF want, p, b, k
<1>9. CellNum(st) - CellNum(p) = CellNum(q \o want)
  <2>1. CellNum(r) = CellNum(p) + CellNum(q) /\ CellNum(q \o want) = CellNum(q) + CellNum(want)
    BY <1>4, <1>5, <1>6, CellNumConcat DEF Stacks
  <2>2. CellNum(st) = CellNum(r) + CellNum(want)
    BY <1>3, <1>4, CellNumConcat DEF Stacks
  <2>3. CellNum(p) \in Nat /\ CellNum(q) \in Nat /\ CellNum(want) \in Nat
    BY <1>4, <1>6, CellNumLen
  <2> QED BY <2>1, <2>2, <2>3
<1>10. e = Entry(op, CellNum(q \o want), CellNum(b.type.result))
  BY <1>4, <1>7, <1>9 DEF b, k
<1>11. e.op = op /\ e.pop = CellNum(q \o want) /\ e.push = CellNum(b.type.result)
  BY <1>10 DEF Entry
<1>12. op # "if" /\ op # "else" /\ st = (p \o q) \o want
  BY <1>3, <1>5
<1>13. Carried(instr, found, e, p, b)
  <2>1. /\ \E u \in Stacks : st = (p \o u) \o Arity(b) /\ e.pop = CellNum(u \o Arity(b))
        /\ e.push = CellNum(b.type.result)
    BY <1>6, <1>8, <1>11, <1>12
  <2> QED BY <1>11, <1>12, <2>1 DEF Carried
<1> QED BY <1>2, <1>13 DEF k, b, p

(* What emitting the entry of a branch does.                               *)
LEMMA EmitsBranch ==
  ASSUME Checked, blocks # <<>>, NEW st \in Seq(StackType), NEW depth \in Nat, depth < Depth,
         NEW op \in {"br", "br_if", "br_table"}, Emit(op, depth, st)
  PROVE  /\ SameShapes
         /\ \A e : e = Entry(op, CellNum(st) - blocks[Depth - depth].cells,
                             CellNum(blocks[Depth - depth].type.result))
                   => EmitsOn(e, Depth - depth)
<1> DEFINE k == Depth - depth
           b == blocks[k]
<1>1. /\ TypeOK /\ k \in 1 .. Depth /\ b \in BlockSet /\ Depth \in Nat /\ DOMAIN blocks = 1 .. Depth
  BY OpenFacts, LabelType, Domains
<1>2. blocks' = [blocks EXCEPT ![k].queue = @ \cup {Len(table) + 1}]
      /\ table' = Append(table, Entry(op, CellNum(st) - b.cells, CellNum(b.type.result)))
  BY DEF Emit
<1>3. Depth' = Depth
  BY <1>1, EmitType DEF Depth
<1>4. ASSUME NEW d \in 1 .. Depth
      PROVE  /\ blocks'[d].label = blocks[d].label /\ blocks'[d].type = blocks[d].type
             /\ blocks'[d].cells = blocks[d].cells /\ blocks'[d].start = blocks[d].start
             /\ blocks'[d].base = blocks[d].base
             /\ blocks'[d].queue = IF d = k THEN blocks[d].queue \cup {Len(table) + 1}
                                   ELSE blocks[d].queue
  <2>1. blocks[d] \in BlockSet
    BY <1>1, Domains
  <2>2. blocks'[d] = IF d = k THEN [blocks[d] EXCEPT !.queue = @ \cup {Len(table) + 1}] ELSE blocks[d]
    BY <1>1, <1>2
  <2> HIDE DEF k
  <2> QED BY <2>1, <2>2 DEF BlockSet
<1>5. Entry(op, CellNum(st) - b.cells, CellNum(b.type.result)) \in EntrySet
  <2>1. CellNum(st) \in Nat /\ b.cells \in Nat /\ b.type.result \in Seq(ValueType)
    BY <1>1, CellNumNat DEF BlockSet, FuncTypeSet
  <2>2. CellNum(b.type.result) \in Nat /\ CellNum(st) - b.cells \in Int
    BY <2>1, CellNumNat
  <2> HIDE DEF b
  <2> QED BY <2>2, EntryType
<1>6. ~Entry(op, CellNum(st) - b.cells, CellNum(b.type.result)).resolved
  BY DEF Entry
<1> HIDE DEF k, b
<1>7. \A e : e = Entry(op, CellNum(st) - b.cells, CellNum(b.type.result)) => EmitsOn(e, k)
  BY <1>1, <1>2, <1>4, <1>5, <1>6 DEF EmitsOn
<1> QED BY <1>3, <1>4, <1>7 DEF SameShapes, k, b

(* BR.                                                                     *)
LEMMA BrTyped == ASSUME NEW depth \in Nat PROVE Checked /\ Br(depth) /\ lapses' = {} => Sound'
<1> SUFFICES ASSUME Checked, Br(depth), lapses' = {} PROVE Sound'
  OBVIOUS
<1>1. CASE CheckBr(stack, depth)
  <2> DEFINE instr == [op |-> "br"]
             st == AfterCheckBr(stack, depth)
             k  == Depth - depth
  <2>1. /\ blocks # <<>> /\ verdict = "running" /\ verdict' = "running" /\ labels' = <<>>
        /\ ReadPeak(instr, st, BlockBase) /\ SetPoly(TRUE)
        /\ Emit("br", depth, st) /\ Note(BranchLapse(stack, depth))
    BY <1>1 DEF Br, Reading, brt
  <2>2. instr.op = "br"
    OBVIOUS
  <2> HIDE DEF instr
  <2>3. /\ OnBase(BlockBase) /\ TypeOK /\ OnBase(stack) /\ (~Dead(Depth) => stack \in Stacks)
        /\ depth < Depth /\ Depth \in Nat
    BY <1>1, <2>1, OpenFacts DEF CheckBr
  <2>4. OnBase(st) /\ st \in Seq(StackType)
    BY <2>3, CheckBrOnBase DEF OnBase
  <2>5. CellNum(BlockBase) <= CellNum(st)
    BY <2>4, BaseCells
  <2> DEFINE entry == Entry("br", CellNum(st) - blocks[k].cells, CellNum(blocks[k].type.result))
  <2>6. PICK e : e = entry
    OBVIOUS
  <2> HIDE DEF st
  <2>7. SameShapes /\ EmitsOn(e, k)
    BY <2>1, <2>3, <2>4, <2>6, EmitsBranch
  <2>8. SameBlocks
    BY <2>1, <2>7, SetPolySame
  <2>9. Adds(instr, stack, Dead(Depth)) /\ stack' = BlockBase
    BY <2>1, <2>3, ArriveAdds DEF ReadPeak, Arrive
  <2>10. ASSUME NEW i, i = Len(code'), Live(i)'
         PROVE  ~Dead(k - 1) /\ Carried(code'[i], seen'[i].stack, e, Prefix(k), blocks[k])
    <3>1. i = Len(code) + 1
      BY <2>9, <2>10 DEF Adds
    <3>2. ~Dead(Depth) /\ code'[i] = instr /\ seen'[i].stack = stack
      BY <2>9, <2>10, <3>1, LiveNext
    <3>3. BranchLapse(stack, depth) = {}
      BY <2>1, <2>3, NoLapse
    <3>4. AtBranch(instr, stack, stack)
      BY <2>2 DEF AtBranch
    <3>5. "br" \in {"br", "br_if", "br_table"}
      OBVIOUS
    <3> HIDE DEF k
    <3>6. ~Dead(Depth - depth - 1)
          /\ Carried(instr, stack, e, Prefix(Depth - depth), blocks[Depth - depth])
      BY <1>1, <2>1, <2>3, <2>6, <3>2, <3>3, <3>4, <3>5, BranchCarried DEF k, st
    <3> QED BY <3>2, <3>6 DEF k
  <2> HIDE DEF k, entry
  <2>11. QueuedTyped' /\ ResolvedTyped'
    BY <2>1, <2>3, <2>7, <2>8, <2>9, <2>10, EmitsOnTyped
  <2>12. instr.op \in FlowEnders /\ instr.op # "return"
    BY <2>2 DEF FlowEnders
  <2> QED BY <2>1, <2>4, <2>5, <2>7, <2>11, <2>12, EndsFlow
<1>2. CASE ~CheckBr(stack, depth)
  BY <1>2, RejectTyped DEF Br
<1> QED BY <1>1, <1>2

(* Code stays live or dead while the flags do.                             *)
LEMMA SamePoly ==
  ASSUME Checked, blocks # <<>>, UNCHANGED <<poly, own>>, SameShapes
  PROVE  SameBlocks /\ (Dead(Depth)' <=> Dead(Depth))
<1>1. Depth \in 1 .. Depth
  BY OpenFacts
<1>2. own[Depth] => poly[Depth]
  BY <1>1 DEF Checked, Sound, BlocksTyped, BlockAt
<1>3. own'[Depth] => poly'[Depth]
  BY <1>2
<1>4. SameBlocks
  BY <1>3 DEF SameShapes, SameBlocks
<1>5. Dead(Depth)' <=> Dead(Depth)
  BY DEF Dead, SameShapes
<1> QED BY <1>4, <1>5

(* The condition of a branch, in live code and without a lapse.            *)
LEMMA Condition ==
  ASSUME Checked, blocks # <<>>, ~Dead(Depth), PopOk(stack, <<"I32">>), Stale(stack, <<"I32">>) = {},
         NEW st, st = AfterPop(stack, <<"I32">>)
  PROVE  stack = Append(st, "I32") /\ st \in Stacks /\ OnBase(st)
<1>1. TypeOK /\ OnBase(stack) /\ stack \in Stacks /\ <<"I32">> \in Seq(StackType)
  BY OpenFacts, I32Stack
<1>2. stack = st \o <<"I32">> /\ st \in Seq(StackType) /\ OnBase(st)
  BY <1>1, LivePops
<1>3. st \in Stacks
  BY <1>1, <1>2, PartsOfValues
<1>4. st \o <<"I32">> = Append(st, "I32")
  BY <1>2
<1> QED BY <1>2, <1>3, <1>4

(* An instruction with a condition pops it.                                *)
LEMMA PopsI32 ==
  ASSUME NEW instr, instr.op \in {"if", "br_if"}, NEW st \in Stacks
  PROVE  Effect(instr, Append(st, "I32"), st)
<1>1. <<>> \in Stacks /\ <<"I32">> \in Stacks
  BY DEF Stacks, ValueType
<1>2. Moves(instr, <<"I32">>, <<>>)
  BY DEF Moves
<1>3. Append(st, "I32") = st \o <<"I32">> /\ st = st \o <<>>
  BY DEF Stacks
<1> QED BY <1>1, <1>2, <1>3 DEF Effect

(* BR_IF.                                                                  *)
LEMMA BrIfTyped == ASSUME NEW depth \in Nat PROVE Checked /\ BrIf(depth) /\ lapses' = {} => Sound'
<1> SUFFICES ASSUME Checked, BrIf(depth), lapses' = {} PROVE Sound'
  OBVIOUS
<1> DEFINE below == AfterPop(stack, <<"I32">>)
<1>1. CASE PopOk(stack, <<"I32">>) /\ CheckBr(below, depth)
  <2> DEFINE instr == [op |-> "br_if"]
             st == AfterCheckBr(below, depth)
             k  == Depth - depth
  <2>1. /\ blocks # <<>> /\ verdict = "running" /\ verdict' = "running" /\ labels' = <<>>
        /\ Read(instr, st) /\ UNCHANGED <<poly, own>>
        /\ Emit("br_if", depth, st) /\ Note(Stale(stack, <<"I32">>) \cup BranchLapse(below, depth))
    BY <1>1 DEF BrIf, Reading, brt
  <2>2. instr.op = "br_if"
    OBVIOUS
  <2> HIDE DEF instr
  <2>3. /\ OnBase(BlockBase) /\ TypeOK /\ OnBase(stack) /\ (~Dead(Depth) => stack \in Stacks)
        /\ depth < Depth /\ Depth \in Nat /\ <<"I32">> \in Seq(StackType)
    BY <1>1, <2>1, OpenFacts, I32Stack DEF CheckBr
  <2>4. OnBase(below)
    BY <2>3, PopOnBase
  <2>5. OnBase(st) /\ st \in Seq(StackType)
    BY <2>3, <2>4, CheckBrOnBase DEF OnBase
  <2> DEFINE entry == Entry("br_if", CellNum(st) - blocks[k].cells, CellNum(blocks[k].type.result))
  <2>6. PICK e : e = entry
    OBVIOUS
  <2>7. CheckBr(below, depth)
    BY <1>1
  <2>8. ASSUME ~Dead(Depth)
        PROVE  /\ stack = Append(below, "I32") /\ below \in Stacks /\ st = below
               /\ BranchLapse(below, depth) = {}
    <3>1. Stale(stack, <<"I32">>) = {} /\ BranchLapse(below, depth) = {}
      BY <2>1, <2>3, NoLapse
    <3>2. stack = Append(below, "I32") /\ below \in Stacks
      BY <1>1, <2>1, <2>8, <3>1, Condition
    <3>3. AfterCheckBr(below, depth) = below
      BY <2>1, <2>4, <2>7, <2>8, <3>1, <3>2, BranchOperands
    <3> QED BY <3>1, <3>2, <3>3
  <2> HIDE DEF st, below
  <2>9. SameShapes /\ EmitsOn(e, k)
    BY <2>1, <2>3, <2>5, <2>6, EmitsBranch
  <2>10. SameBlocks /\ (Dead(Depth)' <=> Dead(Depth))
    BY <2>1, <2>9, SamePoly
  <2>11. Adds(instr, stack, Dead(Depth)) /\ stack' = st
    BY <2>1, <2>3, ArriveAdds DEF Read, ReadPeak, Arrive
  <2>12. ASSUME NEW i, i = Len(code'), Live(i)'
         PROVE  ~Dead(k - 1) /\ Carried(code'[i], seen'[i].stack, e, Prefix(k), blocks[k])
    <3>1. i = Len(code) + 1
      BY <2>11, <2>12 DEF Adds
    <3>2. ~Dead(Depth) /\ code'[i] = instr /\ seen'[i].stack = stack
      BY <2>11, <2>12, <3>1, LiveNext
    <3>3. below \in Stacks /\ BranchLapse(below, depth) = {}
      BY <2>8, <3>2
    <3>4. AtBranch(instr, stack, below)
      BY <2>2, <2>8, <3>2 DEF AtBranch
    <3>5. "br_if" \in {"br", "br_if", "br_table"}
      OBVIOUS
    <3> HIDE DEF k
    <3>6. e = Entry("br_if", CellNum(AfterCheckBr(below, depth)) - blocks[Depth - depth].cells,
                    CellNum(blocks[Depth - depth].type.result))
      BY <2>6 DEF k, st
    <3> HIDE DEF entry
    <3>7. ~Dead(Depth - depth - 1)
          /\ Carried(instr, stack, e, Prefix(Depth - depth), blocks[Depth - depth])
      BY <2>1, <2>4, <2>7, <3>2, <3>3, <3>4, <3>5, <3>6, BranchCarried
    <3> QED BY <3>2, <3>7 DEF k
  <2> HIDE DEF k, entry
  <2>13. QueuedTyped' /\ ResolvedTyped'
    BY <2>1, <2>5, <2>9, <2>10, <2>11, <2>12, EmitsOnTyped
  <2>14. Lasts(instr, stack, Dead(Depth))
    <3> SUFFICES ASSUME ~Dead(Depth) PROVE ~Dead(Depth)' /\ Effect(instr, stack, stack')
      BY DEF Lasts
    <3>1. Effect(instr, Append(below, "I32"), below)
      BY <2>2, <2>8, PopsI32
    <3> QED BY <2>8, <2>10, <2>11, <3>1
  <2>15. /\ ~Dead(Depth)' => st \in Stacks
         /\ instr.op # "return" /\ ReadPeak(instr, st, st) /\ CellNum(st) <= CellNum(st)
    <3>1. CellNum(st) \in Nat
      BY <2>5, CellNumNat
    <3> QED BY <2>1, <2>2, <2>8, <2>10, <3>1 DEF Read
  <2> QED BY <2>1, <2>5, <2>10, <2>13, <2>14, <2>15, StayTyped
<1>2. CASE ~(PopOk(stack, <<"I32">>) /\ CheckBr(below, depth))
  BY <1>2, RejectTyped DEF BrIf
<1> QED BY <1>1, <1>2

(* BR_TABLE, before its labels are read.                                   *)
LEMMA BrTableTyped ==
  ASSUME NEW targets \in JumpTables PROVE Checked /\ BrTable(targets) /\ lapses' = {} => Sound'
<1> SUFFICES ASSUME Checked, BrTable(targets), lapses' = {} PROVE Sound'
  OBVIOUS
<1> DEFINE st == AfterPop(stack, <<"I32">>)
<1>1. CASE PopOk(stack, <<"I32">>)
  <2> DEFINE instr == [op |-> "br_table", count |-> Len(targets) - 1]
  <2>1. /\ blocks # <<>> /\ verdict = "running" /\ verdict' = "running"
        /\ Read(instr, st) /\ UNCHANGED <<poly, own, blocks, table>>
        /\ Note(Stale(stack, <<"I32">>))
    BY <1>1 DEF BrTable, Reading
  <2>2. instr.op = "br_table"
    OBVIOUS
  <2> HIDE DEF instr
  <2>3. TypeOK /\ OnBase(stack) /\ <<"I32">> \in Seq(StackType)
    BY <2>1, OpenFacts, I32Stack
  <2>4. OnBase(st) /\ st \in Seq(StackType)
    BY <2>3, PopOnBase DEF OnBase
  <2>5. ~Dead(Depth) => stack = Append(st, "I32") /\ st \in Stacks
    <3> SUFFICES ASSUME ~Dead(Depth) PROVE stack = Append(st, "I32") /\ st \in Stacks
      OBVIOUS
    <3>1. Stale(stack, <<"I32">>) = {}
      BY <2>1, <2>3, NoLapse
    <3> QED BY <1>1, <2>1, <3>1, Condition
  <2> HIDE DEF st
  <2>6. SameShapes /\ EmitsNothing
    BY <2>1, SameNothing
  <2>7. SameBlocks /\ (Dead(Depth)' <=> Dead(Depth))
    BY <2>1, <2>6, SamePoly
  <2>8. Adds(instr, stack, Dead(Depth)) /\ stack' = st
    BY <2>1, <2>3, ArriveAdds DEF Read, ReadPeak, Arrive
  <2>9. QueuedTyped' /\ ResolvedTyped'
    BY <2>1, <2>4, <2>6, <2>7, <2>8, EmitsNothingTyped
  <2>10. Lasts(instr, stack, Dead(Depth))
    BY <2>2 DEF Lasts, FlowEnders
  <2>11. ReadPeak(instr, st, st) /\ CellNum(st) <= CellNum(st) /\ instr.op # "return"
    <3>1. CellNum(st) \in Nat
      BY <2>4, CellNumNat
    <3> QED BY <2>1, <2>2, <3>1 DEF Read
  <2> QED BY <2>1, <2>4, <2>5, <2>7, <2>9, <2>10, <2>11, StayTyped
<1>2. CASE ~PopOk(stack, <<"I32">>)
  BY <1>2, RejectTyped DEF BrTable
<1> QED BY <1>1, <1>2

(* Each label of a BR_TABLE.                                               *)
LEMMA BrTableLabelTyped == Checked /\ BrTableLabel /\ lapses' = {} => Sound'
<1> SUFFICES ASSUME Checked, BrTableLabel, lapses' = {} PROVE Sound'
  OBVIOUS
<1> DEFINE depth == labels[1]
           types == TableTypes(blocks[Depth - depth])
           n == Len(code)
<1>1. CASE CheckBr(stack, depth) /\ retTypes \in {<<>>, <<types>>}
  <2> DEFINE st == AfterCheckBr(stack, depth)
             k  == Depth - depth
  <2>1. /\ blocks # <<>> /\ verdict = "running" /\ verdict' = "running" /\ labels # <<>>
        /\ Emit("br_table", depth, st) /\ Note(BranchLapse(stack, depth))
        /\ \/ labels' = <<>> /\ stack' = BlockBase /\ SetPoly(TRUE)
           \/ stack' = st /\ UNCHANGED <<poly, own>>
        /\ Peak(st) /\ UNCHANGED <<code, seen>>
    BY <1>1 DEF BrTableLabel
  <2>2. /\ OnBase(BlockBase) /\ TypeOK /\ Sound /\ OnBase(stack) /\ (~Dead(Depth) => stack \in Stacks)
        /\ depth < Depth /\ Depth \in Nat
    BY <1>1, <2>1, OpenFacts DEF CheckBr, Checked
  <2>3. depth \in Nat
    BY <2>1, <2>2 DEF TypeOK
  <2>4. n \in 1 .. n /\ code[n].op = "br_table" /\ n \in Nat /\ DOMAIN code = 1 .. n
    BY <2>1, <2>2, Domains DEF Checked, CountInv, LabelsOfBrTable
  <2>5. CheckBr(stack, depth)
    BY <1>1
  <2> HIDE DEF depth
  <2>6. OnBase(st) /\ st \in Seq(StackType)
    BY <2>2, <2>3, CheckBrOnBase DEF OnBase
  <2>7. CellNum(BlockBase) <= CellNum(st)
    BY <2>6, BaseCells
  <2>8. BranchLapse(stack, depth) = {}
    BY <2>1, <2>2, NoLapse
  <2>9. ~Dead(Depth) => st = stack
    BY <2>1, <2>2, <2>3, <2>5, <2>8, BranchOperands
  <2> DEFINE entry == Entry("br_table", CellNum(st) - blocks[k].cells, CellNum(blocks[k].type.result))
  <2>10. PICK e : e = entry
    OBVIOUS
  <2> HIDE DEF st
  <2>11. SameShapes /\ EmitsOn(e, k)
    BY <2>1, <2>2, <2>3, <2>6, <2>10, EmitsBranch
  <2>12. SameBlocks /\ OnBase(stack')
         /\ (~Dead(Depth)' => stack' = stack /\ ~Dead(Depth))
         /\ (labels' # <<>> /\ ~Dead(Depth) => stack' = stack /\ ~Dead(Depth)')
    <3>1. CASE labels' = <<>> /\ stack' = BlockBase /\ SetPoly(TRUE)
      <4>1. SameBlocks /\ Dead(Depth)'
        BY <2>1, <2>11, <3>1, SetPolySame
      <4> QED BY <2>2, <3>1, <4>1
    <3>2. CASE stack' = st /\ UNCHANGED <<poly, own>>
      <4>1. SameBlocks /\ (Dead(Depth)' <=> Dead(Depth))
        BY <2>1, <2>11, <3>2, SamePoly
      <4> QED BY <2>6, <2>9, <3>2, <4>1
    <3> QED BY <2>1, <3>1, <3>2
  <2>13. ASSUME NEW i, i = Len(code'), Live(i)'
         PROVE  ~Dead(k - 1) /\ Carried(code'[i], seen'[i].stack, e, Prefix(k), blocks[k])
    <3>1. i = n /\ Live(n) /\ code'[i] = code[n] /\ seen'[i].stack = seen[n].stack
      BY <2>1, <2>13 DEF Live
    <3>2. ~Dead(Depth) /\ seen[n].stack = Append(stack, "I32")
      BY <2>1, <2>2, <3>1 DEF Sound, LabelsTyped
    <3>3. AtBranch(code[n], seen[n].stack, stack)
      BY <2>4, <3>2 DEF AtBranch
    <3>4. "br_table" \in {"br", "br_if", "br_table"}
      OBVIOUS
    <3> HIDE DEF k
    <3>5. e = Entry("br_table", CellNum(AfterCheckBr(stack, depth)) - blocks[Depth - depth].cells,
                    CellNum(blocks[Depth - depth].type.result))
      BY <2>10 DEF k, st
    <3> HIDE DEF entry
    <3>6. ~Dead(Depth - depth - 1)
          /\ Carried(code[n], seen[n].stack, e, Prefix(Depth - depth), blocks[Depth - depth])
      BY <2>1, <2>2, <2>3, <2>5, <2>8, <3>2, <3>3, <3>4, <3>5, BranchCarried
    <3> QED BY <3>1, <3>6 DEF k
  <2> HIDE DEF k, entry
  <2>14. QueuedTyped' /\ ResolvedTyped'
    BY <2>1, <2>11, <2>12, <2>13, EmitsOnTyped
  <2>15. \A d \in 1 .. Depth : Stays(d) /\ BlockAt(d)'
    BY <2>1, <2>12, SameBlocksStay
  <2>16. Len(code') = n /\ \A i : (Live(i)' <=> Live(i))
    BY <2>1 DEF Live
  <2>17. FirstLive'
    <3>1. code' # <<>> /\ Live(1) /\ seen[1].stack = <<>>
      BY <2>1, <2>2, <2>4 DEF Sound, FirstLive
    <3> QED BY <2>1, <2>16, <3>1 DEF FirstLive
  <2>18. FlowTyped'
    <3>1. ASSUME NEW i \in 1 .. n, Live(i), code[i].op \notin FlowEnders
          PROVE  i # n /\ Live(i + 1) /\ Effect(code[i], seen[i].stack, seen[i + 1].stack)
      <4>1. i # n
        BY <2>4, <3>1 DEF FlowEnders
      <4> QED BY <2>2, <3>1, <4>1 DEF Sound, FlowTyped
    <3> QED BY <2>1, <2>16, <3>1 DEF FlowTyped
  <2>19. LabelsTyped'
    <3> SUFFICES ASSUME labels' # <<>>, Live(n)
                 PROVE  ~Dead(Depth)' /\ seen[n].stack = Append(stack', "I32")
      BY <2>1, <2>16 DEF LabelsTyped
    <3> QED BY <2>1, <2>2, <2>12 DEF LabelsTyped, Sound
  <2>20. LoopTyped'
    <3>1. ASSUME NEW d \in 1 .. Depth PROVE LoopAt(d)'
      <4>1. LoopAt(d) /\ Stays(d)
        BY <2>2, <2>15, <3>1 DEF Sound, LoopTyped
      <4>2. CASE blocks[d].label = "loop"
        <5>1. blocks[d].start # n + 1
          <6>1. code[blocks[d].start - 1].op = "loop"
            BY <4>1, <4>2 DEF LoopAt
          <6> QED BY <2>4, <6>1
        <5> QED BY <2>1, <2>16, <4>1, <4>2, <5>1 DEF LoopAt, Stays
      <4>3. CASE blocks[d].label # "loop"
        BY <4>1, <4>3 DEF LoopAt, Stays
      <4> QED BY <4>2, <4>3
    <3> QED BY <2>12, <3>1 DEF LoopTyped, SameBlocks
  <2>21. BlocksTyped'
    BY <2>12, <2>15 DEF BlocksTyped, SameBlocks
  <2>22. StackTyped'
    <3>1. 1 \in 1 .. Depth \/ ~ (Depth > 0)
      BY <2>2
    <3> QED BY <2>2, <2>12, <3>1 DEF StackTyped, Sound, SameBlocks
  <2>23. ReturnTyped'
    BY <2>1, <2>2, <2>16 DEF ReturnTyped, Sound
  <2>24. CellsBounded'
    <3>1. /\ CellNum(st) \in Nat /\ CellNum(BlockBase) \in Nat /\ maxCells \in Nat
      BY <2>2, <2>6, CellNumNat DEF TypeOK, OnBase
    <3>2. maxCells' \in Nat /\ maxCells <= maxCells' /\ CellNum(st) <= maxCells'
      BY <2>1, <3>1 DEF Peak
    <3>3. CellNum(stack') <= maxCells'
      <4>1. CellNum(BlockBase) <= maxCells'
        BY <2>7, <3>1, <3>2
      <4> QED BY <2>1, <3>2, <4>1
    <3>4. ASSUME NEW i \in 1 .. n PROVE CellNum(seen[i].stack) <= maxCells'
      <4>1. CellNum(seen[i].stack) \in Nat /\ CellNum(seen[i].stack) <= maxCells
        BY <2>2, SeenType, CellNumNat DEF Sound, CellsBounded
      <4> QED BY <3>1, <3>2, <4>1
    <3> QED BY <2>1, <2>16, <3>3, <3>4 DEF CellsBounded
  <2> QED BY <2>14, <2>17, <2>18, <2>19, <2>20, <2>21, <2>22, <2>23, <2>24 DEF Sound
<1>2. CASE ~(CheckBr(stack, depth) /\ retTypes \in {<<>>, <<types>>})
  BY <1>2, RejectTyped DEF BrTableLabel
<1> QED BY <1>1, <1>2

(* Appending to the second of two sequences appends to both together.      *)
LEMMA ConcatAppend ==
  ASSUME NEW S, NEW s \in Seq(S), NEW t \in Seq(S), NEW x \in S
  PROVE  s \o Append(t, x) = Append(s \o t, x)
<1> DEFINE l == s \o Append(t, x)
           r == Append(s \o t, x)
<1>1. s \o t \in Seq(S) /\ Append(t, x) \in Seq(S) /\ Len(s \o t) = Len(s) + Len(t)
      /\ Len(Append(t, x)) = Len(t) + 1 /\ Len(s) \in Nat /\ Len(t) \in Nat
  OBVIOUS
<1>2. l \in Seq(S) /\ r \in Seq(S) /\ Len(l) = Len(s) + Len(t) + 1 /\ Len(r) = Len(s) + Len(t) + 1
  BY <1>1
<1>3. ASSUME NEW i \in 1 .. Len(s) + Len(t) + 1 PROVE l[i] = r[i]
  <2>1. CASE i = Len(s) + Len(t) + 1
    BY <1>1, <2>1
  <2>2. CASE i # Len(s) + Len(t) + 1
    BY <1>1, <2>2
  <2> QED BY <2>1, <2>2
<1> HIDE DEF l, r
<1> QED BY <1>2, <1>3 DEF l, r

LEMMA WholePrefix ==
  ASSUME NEW S, NEW s \in Seq(S), NEW t \in Seq(S)
  PROVE  SubSeq(s \o t, 1, Len(s)) = s
OBVIOUS

(* The operands below a new block.                                         *)
Below(label, type, pop, below) ==
  /\ type.param \in Stacks /\ pop \in Seq(StackType)
  /\ below \in Seq(StackType) /\ OnBase(below) /\ OnBase(below \o type.param)
  /\ SubSeq(below \o type.param, 1, Len(below)) = below
  /\ ~Dead(Depth) /\ Stale(stack, pop) = {} =>
       /\ below \in Stacks /\ below \o type.param \in Stacks
       /\ stack = IF label = "if" THEN Append(below \o type.param, "I32")
                  ELSE below \o type.param

(* A live block opens on the operands below its parameters.                *)
LEMMA BelowBlock ==
  ASSUME Checked, blocks # <<>>, NEW label \in {"block", "loop", "if"}, NEW type \in FuncTypeSet,
         NEW pop, pop = IF label = "if" THEN Append(type.param, "I32") ELSE type.param,
         NEW below, below = AfterPop(stack, pop), PopOk(stack, pop)
  PROVE  Below(label, type, pop, below)
<1>1. TypeOK /\ OnBase(stack) /\ (~Dead(Depth) => stack \in Stacks)
  BY OpenFacts
<1>2. type.param \in Stacks /\ type.param \in Seq(StackType)
  BY ValueStack DEF FuncTypeSet, Stacks
<1>3. pop \in Seq(StackType)
  BY <1>2 DEF StackType, ValueType
<1>4. below \in Seq(StackType) /\ OnBase(below)
  BY <1>1, <1>3, PopOnBase DEF OnBase
<1>5. OnBase(below \o type.param)
  BY <1>2, <1>4, PushOnBase
<1>6. SubSeq(below \o type.param, 1, Len(below)) = below
  <2>1. below \in Seq(StackType) /\ type.param \in Seq(StackType)
    BY <1>2, <1>4
  <2> QED BY <2>1, WholePrefix, Zenon
<1>7. ASSUME ~Dead(Depth), Stale(stack, pop) = {}
      PROVE  /\ below \in Stacks /\ below \o type.param \in Stacks
             /\ stack = IF label = "if" THEN Append(below \o type.param, "I32")
                        ELSE below \o type.param
  <2>1. stack = below \o pop
    BY <1>1, <1>3, <1>7, LivePops
  <2>2. below \in Stacks
    BY <1>1, <1>3, <1>4, <1>7, <2>1, PartsOfValues
  <2>3. below \o type.param \in Stacks
    BY <1>2, <2>2 DEF Stacks
  <2>4. below \o Append(type.param, "I32") = Append(below \o type.param, "I32")
    <3>1. "I32" \in ValueType
      BY DEF ValueType
    <3>2. below \in Seq(ValueType) /\ type.param \in Seq(ValueType)
      BY <1>2, <2>2 DEF Stacks
    <3> DEFINE w == type.param
    <3> HIDE DEF w
    <3>4. \A x \in ValueType : \A u, v \in Seq(ValueType) : u \o Append(v, x) = Append(u \o v, x)
      BY ConcatAppend
    <3>5. w \in Seq(ValueType)
      BY <3>2 DEF w
    <3>3. below \o Append(w, "I32") = Append(below \o w, "I32")
      BY <3>1, <3>2, <3>4, <3>5, Zenon
    <3> QED BY <3>3 DEF w
  <2> QED BY <2>1, <2>2, <2>3, <2>4
<1> QED BY <1>2, <1>3, <1>4, <1>5, <1>6, <1>7 DEF Below

(* What OpenBlock does to the open blocks.                                 *)
Opens(label, type, below) ==
  /\ Depth \in Nat \ {0} /\ Depth' = Depth + 1 /\ Depth' <= MaxBlocks
  /\ \A d \in 1 .. Depth : blocks'[d] = blocks[d] /\ own'[d] = own[d] /\ poly'[d] = poly[d]
  /\ ~own'[Depth + 1]
  /\ blocks'[Depth + 1].label = label /\ blocks'[Depth + 1].type = type
  /\ blocks'[Depth + 1].base = Len(below) /\ blocks'[Depth + 1].cells = CellNum(below)
  /\ blocks'[Depth + 1].start = Len(code) + 2
  /\ blocks'[Depth + 1].queue = IF label = "if" THEN {Len(table) + 1} ELSE {}
  /\ table' = IF label = "if" THEN Append(table, Entry("if", 0, 0)) ELSE table

(* BLOCK, LOOP and IF open a block.                                        *)
LEMMA OpenBlockOpens ==
  ASSUME Checked, blocks # <<>>, NEW label \in {"block", "loop", "if"}, NEW type,
         NEW pop, pop = IF label = "if" THEN Append(type.param, "I32") ELSE type.param,
         NEW below, below = AfterPop(stack, pop), PopOk(stack, pop), OpenBlock(label, type)
  PROVE  Opens(label, type, below)
<1> DEFINE block == NewBlock(label, type, below, Len(code) + 2)
           b == IF label = "if" THEN [block EXCEPT !.queue = {Len(table) + 1}] ELSE block
<1>1. TypeOK /\ Depth \in Nat \ {0}
  BY OpenFacts
<1>2. /\ Depth < MaxBlocks
      /\ own' = [own EXCEPT ![Depth + 1] = FALSE] /\ poly' = poly
      /\ table' = IF label = "if" THEN Append(table, Entry("if", 0, 0)) ELSE table
      /\ blocks' = Append(blocks, b)
  BY DEF OpenBlock
<1>3. /\ b.label = label /\ b.type = type /\ b.base = Len(below) /\ b.cells = CellNum(below)
      /\ b.start = Len(code) + 2 /\ b.queue = IF label = "if" THEN {Len(table) + 1} ELSE {}
  BY DEF NewBlock
<1> HIDE DEF b
<1>4. /\ Depth' = Depth + 1 /\ blocks'[Depth + 1] = b
      /\ \A d \in 1 .. Depth : blocks'[d] = blocks[d]
  BY <1>1, <1>2 DEF TypeOK, Depth
<1>5. MaxBlocks \in Nat /\ own \in [1 .. MaxBlocks -> BOOLEAN]
  BY <1>1, ValidatorAssumption DEF TypeOK
<1>6. Depth' <= MaxBlocks /\ Depth + 1 \in 1 .. MaxBlocks
  BY <1>1, <1>2, <1>4, <1>5
<1>7. ~own'[Depth + 1] /\ \A d \in 1 .. Depth : own'[d] = own[d]
  <2>1. ~own'[Depth + 1]
    BY <1>2, <1>5, <1>6
  <2>2. \A d \in 1 .. Depth : d # Depth + 1 /\ d \in 1 .. MaxBlocks
    BY <1>1, <1>5, <1>6
  <2>3. \A d \in 1 .. Depth : own'[d] = own[d]
    BY <1>2, <1>5, <2>2
  <2> QED BY <2>1, <2>3
<1> QED BY <1>1, <1>2, <1>3, <1>4, <1>6, <1>7 DEF Opens

(* The blocks around the one that opens remain.                            *)
LEMMA OpensStay ==
  ASSUME Checked, blocks # <<>>, NEW label, NEW type, NEW below, Opens(label, type, below),
         NEW f, f = Depth + 1, OnBase(stack'), SubSeq(stack', 1, Len(below)) = below
  PROVE  /\ \A d \in 1 .. Depth : Stays(d) /\ BlockAt(d)'
         /\ (Dead(Depth)' <=> Dead(Depth))
         /\ Prefix(f)' = below
<1>1. TypeOK /\ BlocksNested /\ Depth \in Nat
  BY OpenFacts
<1>2. ASSUME NEW m \in 0 .. Depth
      PROVE  (\E i \in 1 .. m : own'[i]) <=> Dead(m)
  <2>1. \A i \in 1 .. m : i \in 1 .. Depth
    BY <1>1
  <2> QED BY <2>1 DEF Dead, Opens
<1>3. ASSUME NEW d \in 1 .. Depth PROVE Stays(d) /\ BlockAt(d)'
  <2>1. blocks'[d] = blocks[d] /\ own'[d] = own[d] /\ poly'[d] = poly[d]
    BY DEF Opens
  <2>2. Prefix(d)' = Prefix(d)
    BY <1>1, <2>1, PrefixKept
  <2>3. Dead(d - 1)' <=> Dead(d - 1)
    <3>1. d - 1 \in 0 .. Depth
      BY <1>1
    <3> QED BY <1>2, <3>1 DEF Dead
  <2>4. Stays(d) /\ BlockAt(d)
    BY <2>1, <2>2, <2>3 DEF Stays, Checked, Sound, BlocksTyped
  <2>5. own'[d] => poly'[d]
    BY <2>1, <2>4 DEF BlockAt
  <2> QED BY <2>4, <2>5, BlockKept
<1>4. Dead(Depth)' <=> Dead(Depth)
  <2>1. Depth \in 0 .. Depth
    BY <1>1
  <2>2. (\E i \in 1 .. Depth : own'[i]) <=> Dead(Depth)
    BY <1>2, <2>1
  <2>3. Depth' = Depth + 1 /\ ~own'[Depth + 1] /\ Depth \in Nat
    BY <1>1 DEF Opens
  <2>4. \A i \in 1 .. Depth + 1 : i = Depth + 1 \/ i \in 1 .. Depth
    BY <2>3
  <2>5. \A i \in 1 .. Depth : i \in 1 .. Depth + 1
    BY <2>3
  <2>6. (\E i \in 1 .. Depth + 1 : own'[i]) <=> Dead(Depth)
    BY <2>2, <2>3, <2>4, <2>5
  <2> QED BY <2>3, <2>6 DEF Dead
<1>5. Prefix(f)' = below
  <2>1. blocks'[f].base = Len(below)
    BY DEF Opens
  <2> QED BY <2>1 DEF Prefix
<1> QED BY <1>3, <1>4, <1>5

(* Some instructions leave the operands alone.                             *)
LEMMA NothingMoves ==
  ASSUME NEW instr, instr.op \in {"nop", "block", "loop", "end"}, NEW st \in Stacks
  PROVE  Effect(instr, st, st)
<1>1. <<>> \in Stacks
  BY DEF Stacks
<1>2. Moves(instr, <<>>, <<>>)
  BY DEF Moves
<1>3. st = st \o <<>>
  BY DEF Stacks
<1> QED BY <1>1, <1>2, <1>3 DEF Effect

(* BLOCK, LOOP and IF.                                                     *)
LEMMA OpenBlockTyped ==
  ASSUME NEW label \in {"block", "loop", "if"}, NEW type \in BlockTypes
  PROVE  Checked /\ OpenBlock(label, type) /\ lapses' = {} => Sound'
<1> SUFFICES ASSUME Checked, OpenBlock(label, type), lapses' = {} PROVE Sound'
  OBVIOUS
<1>1. PICK pop : pop = IF label = "if" THEN Append(type.param, "I32") ELSE type.param
  OBVIOUS
<1>2. PICK below : below = AfterPop(stack, pop)
  OBVIOUS
<1>3. CASE PopOk(stack, pop)
  <2> DEFINE instr == [op |-> label, type |-> type]
             n == Len(code)
             t == Len(table)
  <2>1. PICK st : st = below \o type.param
    OBVIOUS
  <2>2. /\ blocks # <<>> /\ verdict = "running" /\ verdict' = "running" /\ labels' = <<>> /\ labels = <<>>
        /\ Read(instr, st) /\ Note(Stale(stack, pop))
    BY <1>1, <1>2, <1>3, <2>1 DEF OpenBlock, Reading, brt
  <2>3. instr.op = label /\ instr.type = type
    OBVIOUS
  <2> HIDE DEF instr
  <2>4. type \in FuncTypeSet
    BY ValidatorAssumption
  <2>5. TypeOK /\ Sound /\ CountInv /\ EntriesOwned /\ Depth \in Nat \ {0} /\ stack \in Seq(StackType)
    BY <2>2, OpenFacts DEF Checked, BranchInv
  <2>6. /\ type.param \in Stacks /\ below \in Seq(StackType) /\ OnBase(st)
        /\ SubSeq(st, 1, Len(below)) = below
        /\ ~Dead(Depth) /\ Stale(stack, pop) = {} =>
             /\ below \in Stacks /\ st \in Stacks
             /\ stack = IF label = "if" THEN Append(st, "I32") ELSE st
    <3>1. Below(label, type, pop, below)
      BY <1>1, <1>2, <1>3, <2>2, <2>4, BelowBlock
    <3> QED BY <2>1, <3>1, Zenon DEF Below
  <2>7. ~Dead(Depth) => /\ below \in Stacks /\ st \in Stacks
                        /\ stack = IF label = "if" THEN Append(st, "I32") ELSE st
    BY <2>2, <2>5, <2>6, NoLapse
  <2>8. Opens(label, type, below)
    BY <1>1, <1>2, <1>3, <2>2, OpenBlockOpens
  <2>9. Arrive(instr, stack, Dead(Depth), st, st)
    BY <2>2 DEF Read, ReadPeak
  <2>10. Adds(instr, stack, Dead(Depth)) /\ stack' = st /\ Aligned(stack, Dead(Depth))
    BY <2>5, <2>9, ArriveAdds DEF Arrive, Aligned
  <2>11. PICK f : f = Depth + 1
    OBVIOUS
  <2>12. /\ \A d \in 1 .. Depth : Stays(d) /\ BlockAt(d)'
         /\ (Dead(Depth)' <=> Dead(Depth))
         /\ Prefix(f)' = below
    BY <2>2, <2>6, <2>8, <2>10, <2>11, OpensStay
  <2>13. Depth' = f /\ f \in Nat /\ \A d \in 1 .. f : d = f \/ d \in 1 .. Depth
    BY <2>5, <2>8, <2>11 DEF Opens
  <2>14. Dead(f - 1)' <=> Dead(Depth)
    <3>1. f - 1 = Depth /\ f - 1 \in Nat
      BY <2>5, <2>11
    <3>2. \A i \in 1 .. Depth : own'[i] = own[i]
      BY <2>8 DEF Opens
    <3> QED BY <3>1, <3>2 DEF Dead
  <2>15. FirstLive' /\ FlowTyped'
    <3>1. Lasts(instr, stack, Dead(Depth))
      <4> SUFFICES ASSUME ~Dead(Depth) PROVE Effect(instr, stack, st)
        BY <2>10, <2>12 DEF Lasts
      <4>1. CASE label = "if"
        <5>1. stack = Append(st, "I32") /\ st \in Stacks /\ instr.op \in {"if", "br_if"}
          BY <2>3, <2>7, <4>1
        <5>2. Effect(instr, Append(st, "I32"), st)
          BY <5>1, PopsI32
        <5> QED BY <5>1, <5>2
      <4>2. CASE label # "if"
        <5>1. instr.op \in {"nop", "block", "loop", "end"}
          BY <2>3, <4>2
        <5> QED BY <2>7, <4>2, <5>1, NothingMoves
      <4> QED BY <4>1, <4>2
    <3> QED BY <2>5, <2>10, <3>1, FlowKept DEF Sound
  <2>16. LabelsTyped'
    BY <2>2 DEF LabelsTyped
  <2>17. /\ t \in Nat /\ \A k \in 1 .. t : table'[k] = table[k]
         /\ Longer
         /\ label = "if" => Len(table') = t + 1 /\ table'[t + 1] = Entry("if", 0, 0)
         /\ label # "if" => table' = table
    <3>0. t \in Nat /\ DOMAIN table = 1 .. t
      BY <2>5, Domains
    <3>1. CASE label = "if"
      <4>1. /\ Len(table') = t + 1 /\ table'[t + 1] = Entry("if", 0, 0)
            /\ DOMAIN table' = 1 .. t + 1 /\ \A k \in 1 .. t : table'[k] = table[k]
        BY <2>5, <2>8, <3>0, <3>1 DEF Opens, TypeOK
      <4> QED BY <2>10, <3>0, <3>1, <4>1 DEF Longer
    <3>2. CASE label # "if"
      <4>1. table' = table
        BY <2>8, <3>2 DEF Opens
      <4>2. /\ Len(table') = t /\ DOMAIN table' = 1 .. t /\ t <= t + 1
            /\ \A k \in 1 .. t : table'[k] = table[k]
        BY <3>0, <4>1
      <4>3. Longer
        BY <2>10, <3>0, <4>2 DEF Longer
      <4> QED BY <3>0, <3>2, <4>1, <4>2, <4>3
    <3> QED BY <3>1, <3>2
  <2>18. QueuedTyped'
    <3>1. ASSUME NEW d \in 1 .. Depth', NEW k \in blocks'[d].queue
          PROVE  \/ Stays(d) /\ k \in blocks[d].queue /\ table'[k] = table[k]
                 \/ /\ k = Len(table) + 1
                    /\ \A i : i = Len(code') /\ Live(i)' =>
                         ~Dead(d - 1)' /\ Carried(code'[i], seen'[i].stack, table'[k], Prefix(d)', blocks'[d])
      <4>1. CASE d \in 1 .. Depth
        <5>1. Stays(d) /\ k \in blocks[d].queue
          BY <2>8, <2>12, <4>1 DEF Opens
        <5>2. k \in 1 .. t
          BY <2>5, <4>1, <5>1, Domains DEF EntriesOwned
        <5> QED BY <2>17, <5>1, <5>2
      <4>2. CASE d = f
        <5>1. label = "if" /\ k = t + 1
          BY <2>8, <2>11, <4>2 DEF Opens
        <5>2. ASSUME NEW i, i = Len(code'), Live(i)'
              PROVE  ~Dead(d - 1)' /\ Carried(code'[i], seen'[i].stack, table'[k], Prefix(d)', blocks'[d])
          <6>1. i = Len(code) + 1
            BY <2>10, <5>2 DEF Adds
          <6>2. ~Dead(Depth) /\ code'[i] = instr /\ seen'[i].stack = stack
            BY <2>10, <5>2, <6>1, LiveNext
          <6>3. ~Dead(d - 1)' /\ Prefix(d)' = below
            BY <2>12, <2>14, <4>2, <6>2
          <6>4. blocks'[d].type = type
            BY <2>8, <2>11, <4>2 DEF Opens
          <6>5. table'[k].op = "if"
            BY <2>17, <5>1 DEF Entry
          <6>6. AtBranch(instr, stack, st)
            BY <2>3, <2>7, <5>1, <6>2 DEF AtBranch
          <6>7. st \in Stacks /\ st = below \o type.param
            BY <2>1, <2>7, <6>2
          <6>8. PICK e : e = table'[k]
            OBVIOUS
          <6>9. PICK b : b = blocks'[d]
            OBVIOUS
          <6>10. Carried(instr, stack, e, below, b)
            BY <6>4, <6>5, <6>6, <6>7, <6>8, <6>9 DEF Carried
          <6> QED BY <6>2, <6>3, <6>8, <6>9, <6>10
        <5> QED BY <5>1, <5>2
      <4> QED BY <2>13, <4>1, <4>2
    <3> QED BY <2>5, <2>17, <3>1, QueuedKept DEF Sound
  <2>19. ResolvedTyped'
    <3>1. \A k \in 1 .. Len(table') : table'[k].resolved => k \in 1 .. Len(table) /\ table'[k] = table[k]
      <4>1. ~Entry("if", 0, 0).resolved
        BY DEF Entry
      <4>2. CASE label = "if"
        BY <2>17, <4>1, <4>2
      <4>3. CASE label # "if"
        BY <2>17, <4>3
      <4> QED BY <4>2, <4>3
    <3> QED BY <2>5, <2>17, <3>1, ResolvedKept DEF Sound
  <2>20. LoopTyped'
    <3>1. ASSUME NEW d \in 1 .. Depth PROVE LoopAt(d)'
      BY <2>5, <2>10, <2>12, LoopKept DEF Sound, LoopTyped
    <3>2. LoopAt(f)'
      <4> SUFFICES ASSUME label = "loop" PROVE LoopAt(f)'
        BY <2>8, <2>11 DEF Opens, LoopAt
      <4>1. n \in Nat /\ Len(code') = n + 1 /\ DOMAIN code' = 1 .. n + 1 /\ code'[n + 1] = instr
        BY <2>10 DEF Adds
      <4>2. blocks'[f].start = n + 2 /\ blocks'[f].type = type
        BY <2>8, <2>11 DEF Opens
      <4>3. blocks'[f].start - 1 = n + 1 /\ n + 1 \in DOMAIN code' /\ blocks'[f].start = Len(code') + 1
        BY <4>1, <4>2
      <4>4. f = Depth' /\ ~own'[f] /\ stack' = Prefix(f)' \o blocks'[f].type.param
        BY <2>1, <2>8, <2>10, <2>11, <2>12, <2>13, <4>2 DEF Opens
      <4> QED BY <2>3, <4>1, <4>2, <4>3, <4>4 DEF LoopAt
    <3> QED BY <2>13, <3>1, <3>2 DEF LoopTyped
  <2>21. BlocksTyped'
    <3>1. BlockAt(f)'
      <4>1. /\ blocks'[f].cells = CellNum(below) /\ blocks'[f].label = label /\ ~own'[f]
        BY <2>8, <2>11 DEF Opens
      <4>2. f # 1
        BY <2>5, <2>11
      <4> QED BY <2>7, <2>12, <2>14, <4>1, <4>2 DEF BlockAt
    <3> QED BY <2>12, <2>13, <3>1 DEF BlocksTyped
  <2>22. StackTyped'
    <3>1. 1 \in 1 .. Depth /\ Depth > 0
      BY <2>5
    <3>2. blocks'[1] = blocks[1] /\ Depth' <= MaxBlocks
      BY <2>8, <3>1 DEF Opens
    <3> QED BY <2>5, <2>7, <2>10, <2>12, <3>1, <3>2 DEF StackTyped, Sound
  <2>23. ReturnTyped'
    <3>1. instr.op # "return" /\ verdict' # "accepted"
      BY <2>2, <2>3
    <3> QED BY <2>2, <2>5, <2>10, <3>1, ReturnKept DEF Sound
  <2>24. CellsBounded'
    <3>1. st \in Seq(StackType) /\ CellNum(st) <= CellNum(st)
      <4>1. st \in Seq(StackType)
        BY <2>6 DEF OnBase
      <4>2. CellNum(st) \in Nat
        BY <4>1, CellNumNat
      <4> QED BY <4>1, <4>2
    <3> QED BY <2>5, <2>9, <3>1, CellsKept
  <2> QED BY <2>15, <2>16, <2>18, <2>19, <2>20, <2>21, <2>22, <2>23, <2>24 DEF Sound
<1>4. CASE ~PopOk(stack, pop)
  BY <1>1, <1>4, RejectTyped DEF OpenBlock
<1> QED BY <1>3, <1>4

(* A block that ends leaves its results above its base, and in live code   *)
(* it does so without a change to the operands.                            *)
LEMMA BlockEnds ==
  ASSUME Checked, blocks # <<>>, CheckBlock
  PROVE  /\ BlockBase \in Seq(StackType) /\ Prefix(Depth) = BlockBase
         /\ AfterCheckBlock = BlockBase \o Top.type.result /\ OnBase(AfterCheckBlock)
         /\ Top.type.result \in Stacks /\ Top.type.param \in Stacks
         /\ OnBase(BlockBase \o Top.type.param)
         /\ ~Dead(Depth) /\ BlockLapse = {} => stack = AfterCheckBlock
         /\ ~Dead(Depth - 1) => /\ BlockBase \in Stacks /\ AfterCheckBlock \in Stacks
                                /\ BlockBase \o Top.type.param \in Stacks
<1> DEFINE want == Top.type.result
<1>1. /\ TypeOK /\ OnBase(stack) /\ OnBase(BlockBase) /\ stack \in Seq(StackType)
      /\ Top \in BlockSet /\ Depth \in 1 .. Depth
      /\ (~Dead(Depth) => stack \in Stacks /\ ~Dead(Depth - 1))
      /\ (~Dead(Depth - 1) => BlockBase \in Stacks)
  BY OpenFacts
<1>2. BlockBase \in Seq(StackType) /\ Prefix(Depth) = BlockBase /\ Top.base \in 0 .. Len(stack)
      /\ Len(BlockBase) = Top.base
  <2>1. BlockBase \in Seq(StackType) /\ Top.base \in 0 .. Len(stack)
    BY <1>1 DEF OnBase
  <2>2. Prefix(Depth) = BlockBase
    BY DEF Prefix, BlockBase, Top
  <2>3. Len(BlockBase) = Top.base
    BY <1>1, StackOnBase DEF Checked, TypeInv
  <2> QED BY <2>1, <2>2, <2>3
<1>3. /\ want \in Seq(ValueType) /\ Top.type.param \in Seq(ValueType)
      /\ want \in Stacks /\ Top.type.param \in Stacks
      /\ want \in Seq(StackType) /\ Top.type.param \in Seq(StackType)
  BY <1>1, ValueStack DEF BlockSet, FuncTypeSet, Stacks
<1> HIDE DEF want
<1>5. AfterCheckBlock = BlockBase \o want
  <2>1. CASE poly[Depth]
    BY <2>1 DEF AfterCheckBlock, want
  <2>2. CASE ~poly[Depth]
    <3>1. Available(stack) = Len(want) /\ PopOk(stack, want)
      BY <2>2 DEF CheckBlock, want
    <3>2. ~Waived(stack, want) /\ Len(stack) - Len(want) = Top.base
      <4>1. Len(stack) \in Nat /\ Len(want) \in Nat /\ Top.base \in Nat
        BY <1>1, <1>2, <1>3
      <4> QED BY <3>1, <4>1 DEF Waived, Available
    <3>3. stack = AfterPop(stack, want) \o want
      BY <1>1, <1>3, <3>1, <3>2, LivePop
    <3>4. AfterPop(stack, want) = BlockBase
      BY <3>2 DEF AfterPop, BlockBase
    <3> QED BY <2>2, <3>3, <3>4 DEF AfterCheckBlock
  <2> QED BY <2>1, <2>2
<1>6. OnBase(AfterCheckBlock) /\ OnBase(BlockBase \o Top.type.param)
  BY <1>1, <1>3, <1>5, PushOnBase
<1>7. ASSUME ~Dead(Depth), BlockLapse = {} PROVE stack = AfterCheckBlock
  <2>1. CASE ~poly[Depth]
    BY <2>1 DEF AfterCheckBlock
  <2>2. CASE poly[Depth]
    <3> DEFINE r == AfterPop(stack, want)
    <3>1. PopOk(stack, want) /\ CellNum(r) = Top.cells /\ Stale(stack, want) = {}
      BY <1>7, <2>2 DEF CheckBlock, BlockLapse, want
    <3>2. stack = r \o want /\ r \in Seq(StackType) /\ OnBase(r)
      BY <1>1, <1>3, <1>7, <3>1, LivePops
    <3>3. r \in Stacks
      BY <1>1, <1>3, <1>7, <3>2, PartsOfValues
    <3>4. SubSeq(r, 1, Top.base) = BlockBase /\ Top.base \in 0 .. Len(r)
      BY <3>2 DEF OnBase
    <3> HIDE DEF r
    <3>5. PICK q \in Seq(StackType) : r = BlockBase \o q
      <4>1. \E q \in Seq(StackType) : r = SubSeq(r, 1, Top.base) \o q
        BY <3>2, <3>4, Splits
      <4> QED BY <3>4, <4>1
    <3>6. q \in Stacks /\ BlockBase \in Stacks
      BY <1>2, <3>3, <3>5, PartsOfValues
    <3>7. CellNum(r) = CellNum(BlockBase) + CellNum(q)
      BY <3>5, <3>6, CellNumConcat DEF Stacks
    <3>8. Top.cells = CellNum(BlockBase)
      <4>1. BlockAt(Depth)
        BY <1>1 DEF Checked, Sound, BlocksTyped
      <4>2. Top.cells = CellNum(Prefix(Depth))
        BY <4>1 DEF BlockAt, Top
      <4> QED BY <1>2, <4>2
    <3>9. CellNum(q) \in Nat /\ CellNum(BlockBase) \in Nat /\ Len(q) <= CellNum(q) /\ Len(q) \in Nat
      BY <3>5, <3>6, CellNumLen
    <3>10. CellNum(r) = Top.cells
      BY <3>1 DEF r
    <3>11. Len(q) = 0
      BY <3>7, <3>8, <3>9, <3>10
    <3>12. r = BlockBase
      BY <1>2, <3>5, <3>11
    <3> QED BY <1>5, <3>2, <3>12
  <2> QED BY <2>1, <2>2
<1>8. ASSUME ~Dead(Depth - 1)
      PROVE  /\ BlockBase \in Stacks /\ AfterCheckBlock \in Stacks
             /\ BlockBase \o Top.type.param \in Stacks
  BY <1>1, <1>3, <1>5, <1>8 DEF Stacks
<1> QED BY <1>2, <1>3, <1>5, <1>6, <1>7, <1>8 DEF want

(* ELSE.                                                                   *)
LEMMA ElseTyped == Checked /\ Else /\ lapses' = {} => Sound'
<1> SUFFICES ASSUME Checked, Else, lapses' = {} PROVE Sound'
  OBVIOUS
<1>1. CASE Depth >= 2 /\ Top.label = "if" /\ CheckBlock
  <2> DEFINE instr == [op |-> "else"]
             st == BlockBase \o Top.type.param
             peak == IF CellNum(Top.type.param) > CellNum(Top.type.result)
                     THEN st ELSE AfterCheckBlock
             t == Len(table)
  <2>1. /\ blocks # <<>> /\ verdict = "running" /\ verdict' = "running" /\ labels' = <<>>
        /\ ReadPeak(instr, peak, st) /\ Note(BlockLapse) /\ SetPoly(FALSE)
        /\ table'  = Append(table, Entry("else", 0, 0))
        /\ blocks' = [blocks EXCEPT ![Depth].elseIp  = Len(code) + 2,
                                    ![Depth].elseIdx = t,
                                    ![Depth].queue   = @ \cup {t + 1}]
    BY <1>1 DEF Else, Reading, brt
  <2>2. instr.op = "else"
    OBVIOUS
  <2> HIDE DEF instr
  <2>3. TypeOK /\ Depth \in 1 .. Depth /\ Depth \in Nat
    BY <2>1, OpenFacts
  <2>4. /\ BlockBase \in Seq(StackType) /\ Prefix(Depth) = BlockBase
        /\ AfterCheckBlock = BlockBase \o Top.type.result /\ OnBase(AfterCheckBlock)
        /\ Top.type.result \in Stacks /\ Top.type.param \in Stacks
        /\ OnBase(st)
        /\ ~Dead(Depth) /\ BlockLapse = {} => stack = AfterCheckBlock
        /\ ~Dead(Depth - 1) => /\ BlockBase \in Stacks /\ AfterCheckBlock \in Stacks
                               /\ st \in Stacks
    BY <1>1, <2>1, BlockEnds
  <2>5. BlockLapse = {}
    BY <2>1, <2>3, NoLapse
  <2>6. SameShapes
    <3>1. Depth' = Depth
      BY <2>1, <2>3 DEF TypeOK, Depth
    <3>2. ASSUME NEW d \in 1 .. Depth
          PROVE /\ blocks'[d].label = blocks[d].label /\ blocks'[d].type = blocks[d].type
                /\ blocks'[d].cells = blocks[d].cells /\ blocks'[d].start = blocks[d].start
                /\ blocks'[d].base = blocks[d].base
      <4>1. blocks[d] \in BlockSet /\ DOMAIN blocks = 1 .. Depth
        BY <2>3, Domains
      <4>2. CASE d = Depth
        BY <2>1, <4>1, <4>2 DEF BlockSet
      <4>3. CASE d # Depth
        BY <2>1, <4>1, <4>3
      <4> QED BY <4>2, <4>3
    <3> QED BY <3>1, <3>2 DEF SameShapes
  <2>7. SameBlocks /\ (Dead(Depth)' <=> Dead(Depth - 1))
    BY <2>1, <2>6, SetPolySame
  <2>8. PICK e : e = Entry("else", 0, 0)
    OBVIOUS
  <2>9. e.op = "else" /\ ~e.resolved /\ e \in EntrySet
    BY <2>8, EntryType DEF Entry
  <2>10. EmitsOn(e, Depth)
    <3>1. ASSUME NEW d \in 1 .. Depth
          PROVE  blocks'[d].queue = IF d = Depth THEN blocks[d].queue \cup {t + 1} ELSE blocks[d].queue
      <4>1. blocks[d] \in BlockSet /\ DOMAIN blocks = 1 .. Depth
        BY <2>3, Domains
      <4>2. CASE d = Depth
        BY <2>1, <4>1, <4>2 DEF BlockSet
      <4>3. CASE d # Depth
        BY <2>1, <4>1, <4>3
      <4> QED BY <4>2, <4>3
    <3> QED BY <2>1, <2>3, <2>8, <2>9, <3>1 DEF EmitsOn
  <2> HIDE DEF st
  <2>11. Adds(instr, stack, Dead(Depth)) /\ stack' = st
    BY <2>1, <2>3, ArriveAdds DEF ReadPeak, Arrive
  <2>12. ASSUME NEW i, i = Len(code'), Live(i)'
         PROVE  ~Dead(Depth - 1) /\ Carried(code'[i], seen'[i].stack, e, Prefix(Depth), blocks[Depth])
    <3>1. i = Len(code) + 1
      BY <2>11, <2>12 DEF Adds
    <3>2. ~Dead(Depth) /\ code'[i] = instr /\ seen'[i].stack = stack
      BY <2>11, <2>12, <3>1, LiveNext
    <3>3. ~Dead(Depth - 1) /\ stack \in Stacks
      BY <2>1, <3>2, OpenFacts
    <3>4. AtBranch(instr, stack, stack)
      BY <2>2 DEF AtBranch
    <3>5. stack = Prefix(Depth) \o Top.type.result
      BY <2>4, <2>5, <3>2
    <3>6. e.op = "else" /\ blocks[Depth].label = "if"
      BY <1>1, <2>9 DEF Top
    <3>7. stack = Prefix(Depth) \o blocks[Depth].type.result
      BY <3>5 DEF Top
    <3>8. Carried(instr, stack, e, Prefix(Depth), blocks[Depth])
      BY <3>3, <3>4, <3>6, <3>7 DEF Carried
    <3> QED BY <3>2, <3>3, <3>8
  <2>13. QueuedTyped' /\ ResolvedTyped'
    BY <2>1, <2>4, <2>7, <2>10, <2>11, <2>12, EmitsOnTyped
  <2>14. peak \in Seq(StackType) /\ CellNum(st) <= CellNum(peak)
    <3>1. /\ Top.type.result \in Seq(StackType) /\ Top.type.param \in Seq(StackType)
          /\ st \in Seq(StackType) /\ AfterCheckBlock \in Seq(StackType)
      BY <2>4, ValueStack DEF Stacks, OnBase
    <3>2. /\ CellNum(st) = CellNum(BlockBase) + CellNum(Top.type.param)
          /\ CellNum(AfterCheckBlock) = CellNum(BlockBase) + CellNum(Top.type.result)
      BY <2>4, <3>1, CellNumConcat DEF st
    <3>3. /\ CellNum(BlockBase) \in Nat /\ CellNum(Top.type.param) \in Nat
          /\ CellNum(Top.type.result) \in Nat
      BY <2>4, <3>1, CellNumNat
    <3>4. CASE CellNum(Top.type.param) > CellNum(Top.type.result)
      <4>1. peak = st
        BY <3>4
      <4>2. CellNum(st) <= CellNum(st)
        BY <3>2, <3>3
      <4> QED BY <3>1, <4>1, <4>2
    <3>5. CASE ~(CellNum(Top.type.param) > CellNum(Top.type.result))
      <4>1. peak = AfterCheckBlock
        BY <3>5
      <4>2. CellNum(st) <= CellNum(AfterCheckBlock)
        BY <3>2, <3>3, <3>5
      <4> QED BY <3>1, <4>1, <4>2
    <3> QED BY <3>4, <3>5
  <2> HIDE DEF peak
  <2>15. Lasts(instr, stack, Dead(Depth)) /\ instr.op # "return"
    BY <2>2 DEF Lasts, FlowEnders
  <2> QED BY <2>1, <2>4, <2>7, <2>13, <2>14, <2>15, StayTyped
<1>2. CASE ~(Depth >= 2 /\ Top.label = "if" /\ CheckBlock)
  BY <1>2, RejectTyped DEF Else
<1> QED BY <1>1, <1>2

(* The block that END resolves: an IF without ELSE continues at the END.   *)
Ending == IF NoElse THEN [Top EXCEPT !.elseIp = Len(code) + 1, !.elseIdx = Len(table)] ELSE Top

(* A block keeps its label, start, type and queue when it ends.            *)
LEMMA EndingBlock ==
  ASSUME Top \in BlockSet
  PROVE  /\ Ending.label = Top.label /\ Ending.start = Top.start
         /\ Ending.type = Top.type /\ Ending.queue = Top.queue
         /\ Ending.elseIp = IF NoElse THEN Len(code) + 1 ELSE Top.elseIp
<1>1. CASE NoElse
  BY <1>1 DEF Ending, BlockSet
<1>2. CASE ~NoElse
  BY <1>2 DEF Ending, BlockSet
<1> QED BY <1>1, <1>2

(* What becomes of an entry that is resolved.                              *)
LEMMA Resolved ==
  ASSUME NEW e \in EntrySet, NEW b, NEW end, NEW f, f = Resolve(e, b, end)
  PROVE  /\ f.op = e.op /\ f.pop = e.pop /\ f.push = e.push /\ f.resolved
         /\ f.ip = IF e.op = "if" THEN b.elseIp ELSE IF b.label = "loop" THEN b.start ELSE end
BY DEF Resolve, EntrySet

(* What END does to the open blocks.                                       *)
Closes ==
  /\ Depth \in Nat \ {0} /\ Depth' = Depth - 1 /\ Depth' \in Nat
  /\ UNCHANGED <<own, poly>>
  /\ \A d \in 1 .. Depth - 1 : blocks'[d] = blocks[d]
  /\ Len(table') = Len(table) /\ DOMAIN table' = 1 .. Len(table)
  /\ \A k \in 1 .. Len(table) :
       table'[k] = IF k \in Top.queue THEN Resolve(table[k], Ending, Len(code) + 1) ELSE table[k]

(* END closes the current block.                                           *)
LEMMA EndCloses ==
  ASSUME Checked, End, CheckBlock, NoElse => Top.type.param = Top.type.result
  PROVE  /\ blocks # <<>> /\ verdict = "running" /\ labels' = <<>>
         /\ verdict' = IF Depth = 1 THEN "accepted" ELSE "running"
         /\ Arrive([op |-> "end"], AfterCheckBlock, Dead(IF Top.label = "loop" THEN Depth ELSE Depth - 1),
                   AfterCheckBlock, AfterCheckBlock)
         /\ Note(BlockLapse) /\ Closes
<1>1. /\ blocks # <<>> /\ verdict = "running" /\ labels' = <<>>
      /\ verdict' = IF Depth = 1 THEN "accepted" ELSE "running"
      /\ Arrive([op |-> "end"], AfterCheckBlock, Dead(IF Top.label = "loop" THEN Depth ELSE Depth - 1),
                AfterCheckBlock, AfterCheckBlock)
      /\ Note(BlockLapse) /\ UNCHANGED <<own, poly>>
      /\ blocks' = SubSeq(blocks, 1, Depth - 1)
      /\ table' = [k \in DOMAIN table |->
                     IF k \in Ending.queue THEN Resolve(table[k], Ending, Len(code) + 1)
                     ELSE table[k]]
  BY DEF End, Reading, brt, Ending
<1>2. /\ TypeOK /\ Depth \in Nat \ {0} /\ Top \in BlockSet /\ Ending.queue = Top.queue
      /\ Len(table) \in Nat /\ DOMAIN table = 1 .. Len(table)
  BY <1>1, OpenFacts, Domains, EndingBlock
<1>3. /\ Depth' = Depth - 1 /\ Depth' \in Nat
      /\ \A d \in 1 .. Depth - 1 : blocks'[d] = blocks[d]
  <2>1. Depth - 1 \in 0 .. Len(blocks) /\ blocks \in Seq(BlockSet)
    BY <1>2 DEF TypeOK, Depth
  <2>2. Len(blocks') = Depth - 1
    BY <1>1, <2>1, PrefixType
  <2>3. \A d \in 1 .. Depth - 1 : blocks'[d] = blocks[d]
    BY <1>1, <2>1, PrefixOf
  <2> QED BY <1>2, <2>2, <2>3 DEF Depth
<1>4. /\ DOMAIN table' = 1 .. Len(table)
      /\ \A k \in 1 .. Len(table) :
           table'[k] = IF k \in Top.queue THEN Resolve(table[k], Ending, Len(code) + 1) ELSE table[k]
  BY <1>1, <1>2
<1>5. Len(table') = Len(table)
  BY <1>1, <1>2, <1>4
<1> QED BY <1>1, <1>2, <1>3, <1>4, <1>5 DEF Closes

(* The blocks around the one that ends remain.                             *)
LEMMA ClosesStay ==
  ASSUME Checked, blocks # <<>>, Closes, OnBase(stack')
  PROVE  /\ \A d \in 1 .. Depth - 1 : Stays(d) /\ BlockAt(d)' /\ d \in 1 .. Depth
         /\ (Dead(Depth)' <=> Dead(Depth - 1))
<1>1. TypeOK /\ BlocksNested /\ Depth \in Nat \ {0}
  BY OpenFacts
<1>2. ASSUME NEW d \in 1 .. Depth - 1 PROVE Stays(d) /\ BlockAt(d)' /\ d \in 1 .. Depth
  <2>1. blocks'[d] = blocks[d] /\ own' = own /\ poly' = poly
    BY DEF Closes
  <2>2. d \in 1 .. Depth
    BY <1>1
  <2>3. Prefix(d)' = Prefix(d)
    BY <1>1, <2>1, <2>2, PrefixKept
  <2>4. Dead(d - 1)' <=> Dead(d - 1)
    BY <2>1 DEF Dead
  <2>5. Stays(d) /\ BlockAt(d)
    BY <2>1, <2>2, <2>3, <2>4 DEF Stays, Checked, Sound, BlocksTyped
  <2>6. own'[d] => poly'[d]
    BY <2>1, <2>5 DEF BlockAt
  <2> QED BY <2>2, <2>5, <2>6, BlockKept
<1>3. Dead(Depth)' <=> Dead(Depth - 1)
  BY DEF Closes, Dead
<1> QED BY <1>2, <1>3

(* Where the entries of the closed block go, and what is found there.      *)
Arrives(instr, found, e, f, p) ==
  \E w \in Stacks, s \in Stacks : AtBranch(instr, found, s) /\
    /\ f.op = e.op
    /\ w = IF Top.label = "loop" THEN Top.type.param ELSE Top.type.result
    /\ IF e.op \in {"if", "else"} THEN s = p \o w
       ELSE \E q \in Stacks : /\ s = (p \o q) \o w /\ f.pop = CellNum(q \o w)
                              /\ f.push = CellNum(Top.type.result)

(* An entry resolved by the END of its block arrives with what the block   *)
(* leaves there.                                                           *)
LEMMA EntryArrives ==
  ASSUME TypeOK, Top \in BlockSet, NEW end,
         NEW instr, NEW found, NEW e \in EntrySet, NEW f, f = Resolve(e, Ending, end),
         NEW p \in Stacks, Carried(instr, found, e, p, Top),
         Top.type.param \in Stacks, Top.type.result \in Stacks,
         e.op = "if" => NoElse /\ Top.type.param = Top.type.result
  PROVE  Arrives(instr, found, e, f, p)
<1>1. f.op = e.op /\ f.pop = e.pop /\ f.push = e.push
  BY Resolved
<1>2. PICK s \in Stacks : AtBranch(instr, found, s) /\
        CASE e.op = "if"   -> s = p \o Top.type.param
          [] e.op = "else" -> Top.label = "if" /\ s = p \o Top.type.result
          [] OTHER ->
               /\ \E q \in Stacks : s = (p \o q) \o Arity(Top) /\ e.pop = CellNum(q \o Arity(Top))
               /\ e.push = CellNum(Top.type.result)
  BY DEF Carried
<1>3. PICK w \in Stacks : w = IF Top.label = "loop" THEN Top.type.param ELSE Top.type.result
  OBVIOUS
<1>4. CASE e.op = "if"
  <2>1. s = p \o Top.type.param /\ w = Top.type.param
    BY <1>2, <1>3, <1>4 DEF NoElse
  <2> QED BY <1>1, <1>2, <1>3, <1>4, <2>1 DEF Arrives
<1>5. CASE e.op = "else"
  <2>1. s = p \o Top.type.result /\ Top.label = "if"
    BY <1>2, <1>5
  <2>2. w = Top.type.result
    BY <1>3, <2>1
  <2>3. s = p \o w
    BY <2>1, <2>2
  <2> QED BY <1>1, <1>2, <1>3, <1>5, <2>3 DEF Arrives
<1>6. CASE e.op \notin {"if", "else"}
  <2>1. /\ \E q \in Stacks : s = (p \o q) \o Arity(Top) /\ e.pop = CellNum(q \o Arity(Top))
        /\ e.push = CellNum(Top.type.result)
    BY <1>2, <1>6
  <2>2. Arity(Top) = w
    BY <1>3 DEF Arity
  <2> QED BY <1>1, <1>2, <1>3, <1>6, <2>1, <2>2 DEF Arrives
<1> QED BY <1>4, <1>5, <1>6

(* An entry of the closed block leads to the block's first instruction, to *)
(* its END or behind its ELSE.                                             *)
LEMMA EntryOfEnded ==
  ASSUME Checked, blocks # <<>>, CheckBlock, NoElse => Top.type.param = Top.type.result,
         BlockLapse = {}, Closes,
         NEW instr, instr.op = "end",
         NEW dead, dead = Dead(IF Top.label = "loop" THEN Depth ELSE Depth - 1),
         Adds(instr, AfterCheckBlock, dead),
         NEW k \in Top.queue, NEW i \in 1 .. Len(code), EntryOf(k, i), Live(i),
         NEW f, f = table'[k]
  PROVE  ElseTarget(f)' \/ Landed(i, f)'
<1> DEFINE n == Len(code)
           p == Prefix(Depth)
<1>1. /\ TypeOK /\ Depth \in Nat \ {0} /\ Depth \in 1 .. Depth /\ Top \in BlockSet
      /\ QueuedTyped /\ EntriesOwned /\ IfQueued /\ ElsePositions /\ n \in Nat
      /\ (~Dead(Depth) => ~Dead(Depth - 1)) /\ LoopAt(Depth)
  BY OpenFacts, Domains DEF Checked, Sound, BranchInv, LoopTyped
<1>2. k \in 1 .. Len(table) /\ table[k] \in EntrySet
  BY <1>1, Domains DEF EntriesOwned, Top
<1>3. ~Dead(Depth - 1) /\ Carried(code[i], seen[i].stack, table[k], p, Top)
  BY <1>1 DEF QueuedTyped, Top
<1>4. /\ p = BlockBase
      /\ AfterCheckBlock = BlockBase \o Top.type.result
      /\ Top.type.result \in Stacks /\ Top.type.param \in Stacks
      /\ ~Dead(Depth) => stack = AfterCheckBlock
      /\ BlockBase \in Stacks /\ AfterCheckBlock \in Stacks
  BY <1>3, BlockEnds
<1>5. Aligned(AfterCheckBlock, dead)
  BY <1>1, <1>4 DEF Aligned
<1>6. PICK e : e = table[k]
  OBVIOUS
<1>7. f = Resolve(e, Ending, n + 1) /\ e \in EntrySet
  BY <1>2, <1>6 DEF Closes
<1>8. /\ f.op = e.op
      /\ f.ip = IF e.op = "if" THEN Ending.elseIp ELSE IF Ending.label = "loop" THEN Ending.start ELSE n + 1
      /\ Ending.label = Top.label /\ Ending.start = Top.start
      /\ Ending.elseIp = IF NoElse THEN n + 1 ELSE Top.elseIp
  BY <1>1, <1>7, EndingBlock, Resolved
<1>9. code'[i] = code[i] /\ seen'[i] = seen[i]
  BY DEF Adds
<1>10. e.op = "if" => Top.label = "if"
  BY <1>1, <1>6 DEF IfQueued, Top
<1>0. PICK l : l = Len(code) + 1
  OBVIOUS
<1>11. /\ code'[l] = instr /\ seen'[l].stack = AfterCheckBlock /\ (Live(l)' <=> ~dead)
  BY <1>0, LiveNext
<1>12. CASE e.op = "if" /\ ~NoElse
  <2>1. Top.elseIp # 0 /\ f.ip = Top.elseIp
    BY <1>8, <1>10, <1>12 DEF NoElse
  <2>2. AfterElse(f.ip)
    BY <1>1, <2>1 DEF ElsePositions, Top
  <2>3. f.ip - 1 \in DOMAIN code /\ code[f.ip - 1].op = "else"
    BY <2>2 DEF AfterElse
  <2>4. f.ip - 1 \in DOMAIN code' /\ code'[f.ip - 1].op = "else"
    <3>1. f.ip - 1 \in 1 .. n /\ DOMAIN code' = 1 .. n + 1
      BY <1>1, <2>3, Domains DEF Adds
    <3>2. f.ip - 1 \in DOMAIN code'
      BY <1>1, <3>1
    <3> QED BY <2>3, <3>1, <3>2 DEF Adds
  <2> QED BY <1>8, <1>12, <2>4 DEF ElseTarget, AfterElse
<1>13. CASE ~(e.op = "if" /\ ~NoElse)
  <2>0. e.op = "if" => NoElse /\ Top.type.param = Top.type.result
    BY <1>13
  <2>1. PICK w \in Stacks, s \in Stacks : AtBranch(code[i], seen[i].stack, s) /\
          /\ f.op = e.op
          /\ w = IF Top.label = "loop" THEN Top.type.param ELSE Top.type.result
          /\ IF e.op \in {"if", "else"} THEN s = p \o w
             ELSE \E q \in Stacks : /\ s = (p \o q) \o w /\ f.pop = CellNum(q \o w)
                                    /\ f.push = CellNum(Top.type.result)
    <3>1. Carried(code[i], seen[i].stack, e, p, Top) /\ p \in Stacks
      BY <1>3, <1>4, <1>6
    <3> HIDE DEF p
    <3>2. Arrives(code[i], seen[i].stack, e, f, p)
      BY <1>1, <1>4, <1>7, <2>0, <3>1, EntryArrives
    <3> QED BY <3>2 DEF Arrives
  <2>2. e.op = "else" => Top.label # "loop"
    BY <1>3, <1>6 DEF Carried
  <2>3. PICK t : t = f.ip
    OBVIOUS
  <2> DEFINE looping == t > 1 /\ code'[t - 1].op = "loop" /\ f.push # CellNum(code'[t - 1].type.param)
  <2>4. /\ Live(t)' /\ seen'[t].stack = p \o w
        /\ f.push = CellNum(Top.type.result) => f.push = CellNum(w) \/ looping
    <3>1. CASE Top.label = "loop"
      <4>1. t = Top.start /\ w = Top.type.param
        BY <1>8, <1>10, <2>1, <2>2, <2>3, <3>1
      <4>2. /\ t \in Nat /\ t - 1 \in 1 .. n
            /\ code[t - 1].op = "loop" /\ code[t - 1].type = Top.type
            /\ code'[t - 1] = code[t - 1]
            /\ Live(t)' /\ seen'[t].stack = p \o Top.type.param
        BY <1>1, <1>3, <1>5, <3>1, <4>1, LoopFirst DEF Top
      <4>3. t > 1
        BY <4>2
      <4> QED BY <4>1, <4>2, <4>3
    <3>2. CASE Top.label # "loop"
      <4>1. t = l /\ w = Top.type.result
        BY <1>0, <1>8, <1>13, <2>1, <2>3, <3>2
      <4>2. ~dead
        BY <1>3, <3>2
      <4> QED BY <1>4, <1>11, <4>1, <4>2
    <3> QED BY <3>1, <3>2
  <2>5. Fitting(code'[i], seen'[i].stack, f, p \o w, looping)
    <3>1. p \in Stacks
      BY <1>4
    <3> HIDE DEF p, looping
    <3>2. CASE e.op \in {"if", "else"}
      BY <1>9, <2>1, <3>2 DEF Fitting
    <3>3. CASE e.op \notin {"if", "else"}
      <4>1. PICK q \in Stacks : /\ s = (p \o q) \o w /\ f.pop = CellNum(q \o w)
                                /\ f.push = CellNum(Top.type.result)
        BY <2>1, <3>3
      <4>2. f.push = CellNum(w) \/ looping
        BY <2>4, <4>1
      <4> QED BY <1>9, <2>1, <3>1, <3>3, <4>1, <4>2, ZenonT(40) DEF Fitting
    <3> QED BY <3>2, <3>3
  <2> QED BY <2>3, <2>4, <2>5 DEF Landed, Live, LoopResults
<1> QED BY <1>12, <1>13

(* END.                                                                    *)
LEMMA EndTyped == Checked /\ End /\ lapses' = {} => Sound'
<1> SUFFICES ASSUME Checked, End, lapses' = {} PROVE Sound'
  OBVIOUS
<1>1. CASE CheckBlock /\ (NoElse => Top.type.param = Top.type.result)
  <2> DEFINE instr == [op |-> "end"]
  <2>1. PICK dead : dead = Dead(IF Top.label = "loop" THEN Depth ELSE Depth - 1)
    OBVIOUS
  <2>2. PICK st : st = AfterCheckBlock
    OBVIOUS
  <2>3. /\ blocks # <<>> /\ verdict = "running" /\ labels' = <<>>
        /\ verdict' = IF Depth = 1 THEN "accepted" ELSE "running"
        /\ Arrive(instr, st, dead, st, st) /\ Note(BlockLapse) /\ Closes
    BY <1>1, <2>1, <2>2, EndCloses
  <2>4. instr.op = "end"
    OBVIOUS
  <2> HIDE DEF instr
  <2>5. /\ TypeOK /\ Depth \in Nat \ {0} /\ Depth \in 1 .. Depth /\ Top \in BlockSet /\ Sound /\ CountInv
        /\ EntriesOwned /\ (~Dead(Depth) => ~Dead(Depth - 1))
    BY <2>3, OpenFacts DEF Checked, BranchInv
  <2>6. BlockLapse = {}
    BY <2>3, <2>5, NoLapse
  <2>7. /\ BlockBase \in Seq(StackType) /\ Prefix(Depth) = BlockBase
        /\ st = BlockBase \o Top.type.result /\ OnBase(st)
        /\ Top.type.result \in Stacks
        /\ ~Dead(Depth) => stack = st
        /\ ~Dead(Depth - 1) => st \in Stacks
    BY <1>1, <2>2, <2>3, <2>6, BlockEnds
  <2>8. Adds(instr, st, dead) /\ stack' = st
    BY <2>3, <2>5, ArriveAdds DEF Arrive
  <2>9. (~dead => ~Dead(Depth - 1)) /\ (~Dead(Depth) => ~dead)
    BY <2>1, <2>5
  <2>10. Aligned(st, dead)
    BY <2>7, <2>9 DEF Aligned
  <2>11. /\ \A d \in 1 .. Depth - 1 : Stays(d) /\ BlockAt(d)' /\ d \in 1 .. Depth
         /\ (Dead(Depth)' <=> Dead(Depth - 1))
    BY <2>3, <2>7, <2>8, ClosesStay
  <2>12. Depth' = Depth - 1
    BY <2>3 DEF Closes
  <2>13. FirstLive' /\ FlowTyped'
    <3>1. Lasts(instr, st, dead)
      <4> SUFFICES ASSUME ~dead PROVE ~Dead(Depth)' /\ Effect(instr, st, st)
        BY <2>8 DEF Lasts
      <4> QED BY <2>4, <2>7, <2>9, <2>11, NothingMoves
    <3> QED BY <2>5, <2>8, <2>10, <3>1, FlowKept DEF Sound
  <2>14. LabelsTyped'
    BY <2>3 DEF LabelsTyped
  <2>15. Longer
    BY <2>5, <2>3, <2>8, Domains DEF Longer, Closes
  <2>16. QueuedTyped'
    <3>1. ASSUME NEW d \in 1 .. Depth', NEW k \in blocks'[d].queue
          PROVE  Stays(d) /\ k \in blocks[d].queue /\ table'[k] = table[k]
      <4>1. d \in 1 .. Depth - 1 /\ Stays(d) /\ d \in 1 .. Depth
        BY <2>11, <2>12
      <4>2. k \in blocks[d].queue
        BY <2>3, <4>1 DEF Closes
      <4>3. k \in 1 .. Len(table)
        BY <2>5, <4>1, <4>2, Domains DEF EntriesOwned
      <4>4. d # Depth
        BY <2>5, <4>1
      <4>5. k \notin Top.queue
        BY <2>5, <4>1, <4>2, <4>3, <4>4, Domains DEF EntriesOwned, Top
      <4> QED BY <2>3, <4>1, <4>2, <4>3, <4>5 DEF Closes
    <3> QED BY <2>5, <2>15, <3>1, QueuedKept DEF Sound
  <2>17. ResolvedTyped'
    <3>1. ASSUME NEW k \in 1 .. Len(table'), table'[k].resolved
          PROVE  \/ k \in 1 .. Len(table) /\ table'[k] = table[k]
                 \/ \A i : i \in 1 .. Len(code') /\ EntryOf(k, i)' /\ Live(i)' =>
                      ElseTarget(table[k])' \/ Landed(i, table[k])'
      <4>1. k \in 1 .. Len(table)
        BY <2>3 DEF Closes
      <4>2. CASE k \notin Top.queue
        BY <2>3, <4>1, <4>2 DEF Closes
      <4>3. CASE k \in Top.queue
        <5>1. ASSUME NEW i, i \in 1 .. Len(code'), EntryOf(k, i)', Live(i)'
              PROVE  ElseTarget(table[k])' \/ Landed(i, table[k])'
          <6>1. i \in 1 .. Len(code) /\ EntryOf(k, i)
            BY <2>5, <2>15, <4>1, <5>1, EntryKept
          <6>2. Live(i)
            BY <2>5, <2>8, <5>1, <6>1, LiveKept
          <6>3. PICK f : f = table'[k]
            OBVIOUS
          <6>4. ElseTarget(f)' \/ Landed(i, f)'
            BY <1>1, <2>1, <2>2, <2>3, <2>4, <2>6, <2>8, <4>3, <6>1, <6>2, <6>3, EntryOfEnded
          <6> QED BY <6>3, <6>4 DEF ElseTarget, Landed
        <5> QED BY <5>1
      <4> QED BY <4>2, <4>3
    <3> QED BY <2>5, <2>15, <3>1, ResolvedKept DEF Sound
  <2>18. LoopTyped'
    <3>1. ASSUME NEW d \in 1 .. Depth - 1 PROVE LoopAt(d)'
      <4>1. d \in 1 .. Depth /\ Stays(d)
        BY <2>11
      <4>2. LoopAt(d)
        BY <2>5, <4>1 DEF Sound, LoopTyped
      <4> QED BY <2>5, <2>8, <2>10, <4>1, <4>2, LoopKept
    <3> QED BY <2>12, <3>1 DEF LoopTyped
  <2>19. BlocksTyped'
    BY <2>11, <2>12 DEF BlocksTyped
  <2>20. StackTyped'
    <3>1. ~Dead(Depth)' => stack' \in Stacks
      BY <2>7, <2>8, <2>11
    <3>2. Depth' > 0 => blocks'[1].type = FuncType /\ blocks'[1].base = 0
      <4> SUFFICES ASSUME Depth' > 0 PROVE blocks'[1].type = FuncType /\ blocks'[1].base = 0
        OBVIOUS
      <4>1. 1 \in 1 .. Depth - 1 /\ Depth > 0
        BY <2>5, <2>12
      <4> QED BY <2>3, <2>5, <4>1 DEF Closes, Sound, StackTyped
    <3>3. Depth' <= MaxBlocks
      BY <2>5, <2>12, ValidatorAssumption DEF Sound, StackTyped
    <3> QED BY <3>1, <3>2, <3>3 DEF StackTyped
  <2>21. ReturnTyped'
    <3>1. instr.op # "return"
      BY <2>4
    <3>2. ASSUME verdict' = "accepted" PROVE st = FuncType.result
      <4>1. Depth = 1
        BY <2>3, <3>2
      <4>2. Top.type = FuncType /\ Top.base = 0
        BY <2>5, <4>1 DEF Sound, StackTyped, Top
      <4>3. Len(BlockBase) = 0
        BY <2>3, <2>5, <4>2, StackOnBase DEF Checked, TypeInv
      <4>4. BlockBase = <<>>
        BY <2>7, <4>3
      <4> QED BY <2>7, <4>2, <4>4 DEF Stacks
    <3> QED BY <2>3, <2>5, <2>8, <3>1, <3>2, ReturnKept DEF Sound
  <2>22. CellsBounded'
    <3>1. st \in Seq(StackType)
      BY <2>7 DEF OnBase
    <3>2. CellNum(st) \in Nat
      BY <3>1, CellNumNat
    <3>3. CellNum(st) <= CellNum(st)
      BY <3>2
    <3> QED BY <2>3, <2>5, <3>1, <3>3, CellsKept
  <2> QED BY <2>13, <2>14, <2>16, <2>17, <2>18, <2>19, <2>20, <2>21, <2>22 DEF Sound
<1>2. CASE ~(CheckBlock /\ (NoElse => Top.type.param = Top.type.result))
  BY <1>2, RejectTyped DEF End
<1> QED BY <1>1, <1>2

(* Nothing has been read yet.                                              *)
LEMMA InitTyped == Init => TypingInv
<1> SUFFICES ASSUME Init PROVE Sound
  BY DEF TypingInv
<1>1. /\ code = <<>> /\ stack = <<>> /\ table = <<>> /\ seen = <<>> /\ labels = <<>>
      /\ Depth = 1 /\ blocks[1].label = "function" /\ blocks[1].type = FuncType /\ blocks[1].base = 0
      /\ blocks[1].cells = 0 /\ blocks[1].queue = {} /\ maxCells = 0 /\ ~own[1]
  BY ValidatorAssumption DEF Init, Depth
<1>2. Prefix(1) = <<>> /\ CellNum(<<>>) = 0 /\ <<>> \in Stacks
  BY <1>1, NoCells DEF Prefix, Stacks
<1>3. ~Dead(1) /\ Len(code) = 0 /\ Len(table) = 0
  BY <1>1 DEF Dead
<1>4. FirstLive
  BY <1>1, <1>3 DEF FirstLive
<1>5. FlowTyped /\ ReturnTyped /\ QueuedTyped /\ ResolvedTyped /\ LabelsTyped
  BY <1>1, <1>3 DEF FlowTyped, ReturnTyped, QueuedTyped, ResolvedTyped, LabelsTyped
<1>6. LoopTyped
  BY <1>1 DEF LoopTyped, LoopAt
<1>7. BlocksTyped
  BY <1>1, <1>2, <1>3 DEF BlocksTyped, BlockAt
<1>8. StackTyped
  BY <1>1, <1>2, ValidatorAssumption DEF StackTyped
<1>9. CellsBounded
  BY <1>1, <1>2, <1>3 DEF CellsBounded
<1> QED BY <1>4, <1>5, <1>6, <1>7, <1>8, <1>9 DEF Sound

(* No step takes back a lapse, but for the one that refuses the body.      *)
LEMMA LapsesStay ==
  ASSUME TypeInv, Next, lapses' = {}, lapses # {}
  PROVE  Reject
<1>1. ASSUME NEW found, Note(found) PROVE FALSE
  BY <1>1 DEF Note
<1>2. lapses' # lapses
  OBVIOUS
<1>3. ASSUME NEW instr, NEW pop, NEW push, Operate(instr, pop, push) PROVE Reject
  BY <1>1, <1>3 DEF Operate
<1>4. CASE Control
  <2>1. CASE Unreachable
    BY <1>2, <2>1 DEF Unreachable
  <2>2. CASE Nop
    BY <1>3, <2>2 DEF Nop
  <2>3. CASE Else
    BY <1>1, <2>3 DEF Else
  <2>4. CASE End
    BY <1>1, <2>4 DEF End
  <2>5. CASE Return
    BY <1>1, <2>5 DEF Return
  <2>6. CASE \E label \in {"block", "loop", "if"}, type \in BlockTypes : OpenBlock(label, type)
    BY <1>1, <2>6 DEF OpenBlock
  <2>7. CASE \E depth \in 0 .. MaxBlocks : Br(depth) \/ BrIf(depth)
    BY <1>1, <2>7 DEF Br, BrIf
  <2>8. CASE \E targets \in JumpTables : BrTable(targets)
    BY <1>1, <2>8 DEF BrTable
  <2>9. CASE BrTableLabel
    BY <1>1, <2>9 DEF BrTableLabel
  <2>10. CASE \E f \in 0 .. Len(Funcs) : Call(f)
    BY <1>3, <2>10 DEF Call
  <2>11. CASE \E t \in 0 .. Len(Types) : CallIndirect(t)
    BY <1>3, <2>11 DEF CallIndirect
  <2> QED BY <1>4, <2>1, <2>2, <2>3, <2>4, <2>5, <2>6, <2>7, <2>8, <2>9, <2>10, <2>11 DEF Control
<1>5. CASE Operands
  <2>1. CASE Drop \/ Select
    BY <1>3, <2>1 DEF Drop, Select
  <2>2. CASE \E l \in 0 .. Len(Locals) : GetLocal(l) \/ SetLocal(l) \/ TeeLocal(l)
    BY <1>3, <2>2 DEF GetLocal, SetLocal, TeeLocal
  <2>3. CASE \E g \in 0 .. Len(Globals) : GetGlobal(g) \/ SetGlobal(g)
    BY <1>3, <2>3 DEF GetGlobal, SetGlobal
  <2>4. CASE \E s \in Plain : PlainOp(s)
    BY <1>3, <2>4 DEF PlainOp
  <2> QED BY <1>5, <2>1, <2>2, <2>3, <2>4 DEF Operands
<1>6. CASE Malformed
  BY <1>6 DEF Malformed
<1> QED BY <1>4, <1>5, <1>6 DEF Next

(* No step of the validator loses the types of live code.                  *)
LEMMA NextTyped ==
  TypeInv /\ BranchInv /\ CountInv /\ TypingInv /\ [Next]_vars => TypingInv'
<1> SUFFICES ASSUME TypeInv, BranchInv, CountInv, TypingInv, [Next]_vars, lapses' = {}
             PROVE  Sound'
  BY DEF TypingInv
<1>1. CASE UNCHANGED vars
  <2>1. Sound
    BY <1>1 DEF TypingInv, vars
  <2>2. /\ code' = code /\ stack' = stack /\ blocks' = blocks /\ poly' = poly /\ table' = table
        /\ maxCells' = maxCells /\ labels' = labels /\ retTypes' = retTypes /\ verdict' = verdict
        /\ own' = own /\ lapses' = lapses /\ seen' = seen
    BY <1>1 DEF vars, brt
  <2>3. /\ \A i : (Live(i)' <=> Live(i)) /\ Depth' = Depth /\ \A d : (Dead(d)' <=> Dead(d)) /\ Prefix(d)' = Prefix(d)
    BY <2>2 DEF Live, Dead, Depth, Prefix
  <2>4. Dead(Depth)' <=> Dead(Depth)
    BY <2>2 DEF Dead, Depth
  <2>5. \A k, i : (EntryOf(k, i)' <=> EntryOf(k, i))
    BY <2>2 DEF EntryOf, EntriesBy
  <2>6. FirstLive'
    BY <2>1, <2>2, <2>3, <2>4 DEF Sound, FirstLive
  <2>7. FlowTyped'
    BY <2>1, <2>2, <2>3, <2>4 DEF Sound, FlowTyped
  <2>8. LabelsTyped'
    BY <2>1, <2>2, <2>4 DEF Sound, LabelsTyped, Live
  <2>9. QueuedTyped'
    BY <2>1, <2>2, <2>3, <2>5 DEF Sound, QueuedTyped
  <2>10. ResolvedTyped'
    BY <2>1, <2>2 DEF Sound, ResolvedTyped, EntryOf, EntriesBy, ElseTarget, AfterElse, Landed, LoopResults, Live
  <2>11. LoopTyped' /\ BlocksTyped'
    BY <2>1, <2>2 DEF Sound, LoopTyped, LoopAt, BlocksTyped, BlockAt, Live, Dead, Depth, Prefix
  <2>12. StackTyped' /\ ReturnTyped' /\ CellsBounded'
    BY <2>1, <2>2, <2>3, <2>4 DEF Sound, StackTyped, ReturnTyped, CellsBounded
  <2> QED BY <2>6, <2>7, <2>8, <2>9, <2>10, <2>11, <2>12 DEF Sound
<1>2. CASE Next /\ lapses # {}
  BY <1>2, LapsesStay, RejectTyped
<1>3. CASE Next /\ lapses = {}
  <2>1. Checked
    BY <1>3 DEF TypingInv, Checked
  <2>2. CASE Control
    <3>1. CASE \E label \in {"block", "loop", "if"}, type \in BlockTypes : OpenBlock(label, type)
      BY <2>1, <3>1, OpenBlockTyped
    <3>2. CASE \E depth \in 0 .. MaxBlocks : Br(depth) \/ BrIf(depth)
      <4>1. PICK depth \in 0 .. MaxBlocks : Br(depth) \/ BrIf(depth)
        BY <3>2
      <4>2. depth \in Nat
        BY ValidatorAssumption
      <4> QED BY <2>1, <4>1, <4>2, BrTyped, BrIfTyped
    <3>3. CASE \E targets \in JumpTables : BrTable(targets)
      BY <2>1, <3>3, BrTableTyped
    <3>4. CASE \E f \in 0 .. Len(Funcs) : Call(f)
      BY <2>1, <3>4, CallTyped
    <3>5. CASE \E t \in 0 .. Len(Types) : CallIndirect(t)
      BY <2>1, <3>5, CallIndirectTyped
    <3> QED BY <2>1, <2>2, <3>1, <3>2, <3>3, <3>4, <3>5, UnreachableTyped, NopTyped, ElseTyped,
               EndTyped, ReturnOpTyped, BrTableLabelTyped DEF Control
  <2>3. CASE Operands
    <3>1. CASE \E l \in 0 .. Len(Locals) : GetLocal(l) \/ SetLocal(l) \/ TeeLocal(l)
      BY <2>1, <3>1, LocalTyped
    <3>2. CASE \E g \in 0 .. Len(Globals) : GetGlobal(g) \/ SetGlobal(g)
      BY <2>1, <3>2, GlobalTyped
    <3>3. CASE \E s \in Plain : PlainOp(s)
      BY <2>1, <3>3, PlainTyped
    <3> QED BY <2>1, <2>3, <3>1, <3>2, <3>3, DropTyped, SelectTyped DEF Operands
  <2>4. CASE Malformed
    BY <2>4, RejectTyped DEF Malformed
  <2> QED BY <1>3, <2>2, <2>3, <2>4 DEF Next
<1> QED BY <1>1, <1>2, <1>3

(* In a body that is read without a lapse, live code goes on in live code  *)
(* that finds the operands it leaves, and every resolved entry of it leads *)
(* to live code that finds the operands it carries, but for the entries of *)
(* an IF that has an ELSE.                                                 *)
THEOREM LiveCodeTyped == Spec => [](lapses = {} => FlowTyped /\ ResolvedTyped)
<1>1. Init => TypeInv /\ BranchInv /\ CountInv /\ TypingInv
  BY InitType, InitBranch, InitCounts, InitTyped
<1>2. TypeInv /\ BranchInv /\ CountInv /\ TypingInv /\ [Next]_vars
        => TypeInv' /\ BranchInv' /\ CountInv' /\ TypingInv'
  BY NextType, NextBranch, NextCounts, NextTyped DEF IInv
<1>3. TypingInv => (lapses = {} => FlowTyped /\ ResolvedTyped)
  BY DEF TypingInv, Sound
<1> QED BY <1>1, <1>2, <1>3, PTL DEF Spec

=============================================================================
