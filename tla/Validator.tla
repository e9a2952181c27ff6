------------------------------ MODULE Validator ------------------------------
(***************************************************************************)
(* wasm_validator_code: the one-pass validator of a function body.         *)
(*                                                                         *)
(* The validator reads the body one instruction at a time.  It keeps a     *)
(* stack of operand types, a stack of open blocks and a branch table with  *)
(* one entry per branching instruction, in code order.  An entry is        *)
(* emitted unresolved and queued on the block it leaves; the END that      *)
(* closes the block resolves it.  The interpreter has no other knowledge   *)
(* of the control structure than this table.                               *)
(*                                                                         *)
(* The program is not given: every step picks the next instruction, so a   *)
(* run of TLC covers every body of at most MaxCode instructions over the   *)
(* opcodes of the configuration.                                           *)
(***************************************************************************)
EXTENDS WasmTypes

CONSTANTS
  Opcodes,     \* the opcodes bodies are written with (a set of strings)
  BlockTypes,  \* the block types BLOCK, LOOP and IF may carry
  Plain,       \* signatures of the instructions that only move operands
  JumpTables,  \* the label sequences BR_TABLE may carry, default label last
  FuncType,    \* the type of the function under validation
  Imports,     \* the types of the imported functions, in index order
  Types,       \* the type section, as CALL_INDIRECT sees it
  HasTable,    \* whether the module has a table
  Locals,      \* the types of parameters and locals, in index order
  Globals,     \* the globals, records [type, mutable]
  FreshFlags,  \* what a BranchBlock slot may hold when malloc returns it
  MaxCode,     \* bound: instructions per body
  MaxBlocks    \* bound: open blocks, the function's own included

ASSUME ValidatorAssumption ==
  /\ BlockTypes \subseteq FuncTypeSet
  /\ Plain \subseteq [pop : Seq(ValueType), push : Seq(ValueType)]
  /\ JumpTables \subseteq Seq(Nat) \ {<<>>}
  /\ FuncType \in FuncTypeSet
  /\ Imports \in Seq(FuncTypeSet)
  /\ Types \in Seq(FuncTypeSet)
  /\ HasTable \in BOOLEAN
  /\ Locals \in Seq(ValueType)
  /\ Globals \in Seq([type : ValueType, mutable : BOOLEAN])
  /\ FreshFlags \subseteq BOOLEAN
  /\ MaxCode \in Nat
  /\ MaxBlocks \in Nat \ {0}

VARIABLES
  code,      \* the instructions read so far, as the validator rewrote them
  stack,     \* ctx->value_stack: the types of the operands, bottom first
  blocks,    \* ctx->block_stack: the open blocks, outermost first
  poly,      \* is_stack_polymorphic of the BranchBlock slot at each depth
  table,     \* ctx->branch_table: the entries emitted so far
  maxCells,  \* ctx->max_stack_cell_num
  labels,    \* the labels of the BR_TABLE under way that are still to read
  retTypes,  \* the result types its first label fixed, <<>> before that label
  verdict,   \* "running", "accepted" or "rejected"
  \* The last three are history variables: no guard reads them.
  own,       \* what poly would be had every block started with FALSE
  lapses,    \* ways in which an operand was accepted that is not there
  seen       \* per instruction: operand types, table length and deadness at it

brt  == <<labels, retTypes>>
vars == <<code, stack, blocks, poly, table, maxCells, brt, verdict, own, lapses, seen>>

-----------------------------------------------------------------------------
(* The function index space: imports first, then the function itself.      *)
Funcs == Append(Imports, FuncType)
Self  == Len(Imports)

Depth == Len(blocks)
Top   == blocks[Depth]

(* BranchBlock.label_type                                                  *)
Label == {"function", "block", "loop", "if"}

(* wasm_validator_push_block: everything but is_stack_polymorphic is set.  *)
NewBlock(label, type, below, start) ==
  [ label   |-> label,
    type    |-> type,
    base    |-> Len(below),         \* stack_num
    cells   |-> CellNum(below),     \* stack_cell_num
    start   |-> start,              \* start_addr: the first instruction inside
    elseIp  |-> 0,                  \* else_addr, 0 for NULL
    elseIdx |-> 0,                  \* branch_table_else_idx
    endIdx  |-> Len(table),         \* branch_table_end_idx of a loop
    queue   |-> {} ]                \* table_queue

(***************************************************************************)
(* wasm_loader_pop_frame_ref for each type of a sequence, last type first. *)
(* A pop at the base of the current block is waived when the block's       *)
(* polymorphic flag is up, and is an error when it is not.                 *)
(***************************************************************************)
Available(st) == Len(st) - Top.base

Waived(st, types) == Len(types) > Available(st)

PopOk(st, types) ==
  /\ Waived(st, types) => poly[Depth]
  /\ \A i \in 1 .. Len(types) :
       i <= Available(st) => st[Len(st) + 1 - i] = types[Len(types) + 1 - i]

(* Mutant: a waived pop takes an operand of the enclosing block.           *)
AfterPopUnclamped(st, types) ==
  SubSeq(st, 1, IF Len(types) > Len(st) THEN 0 ELSE Len(st) - Len(types))

AfterPop(st, types) ==
  SubSeq(st, 1, IF Waived(st, types) THEN Top.base ELSE Len(st) - Len(types))

(* History: a pop was waived although this block never ended its own flow: *)
(* the flag is what an earlier block left behind in the slot.              *)
Stale(st, types) ==
  IF Waived(st, types) /\ ~own[Depth] THEN {"stale_flag"} ELSE {}

Note(found) == lapses' = lapses \cup found

-----------------------------------------------------------------------------
(* The next instruction may be read: p < p_end.                            *)
Reading(op) ==
  /\ verdict = "running"
  /\ labels = <<>>
  /\ blocks # <<>>
  /\ Len(code) < MaxCode
  /\ op \in Opcodes

(* goto fail: wasm_loader_ctx_destroy frees the context, and a body that   *)
(* was refused is never executed.                                          *)
Reject ==
  /\ verdict' = "rejected"
  /\ code' = <<>> /\ stack' = <<>> /\ blocks' = <<>> /\ table' = <<>>
  /\ labels' = <<>> /\ retTypes' = <<>> /\ maxCells' = 0
  /\ poly' = [d \in 1 .. MaxBlocks |-> FALSE]
  /\ own'  = [d \in 1 .. MaxBlocks |-> FALSE]
  /\ seen' = <<>> /\ lapses' = {}

(* Whether code in the d outermost open blocks can never be executed.      *)
Dead(d) == \E e \in 1 .. d : own[e]

(* wasm_loader_push_frame_ref keeps the greatest number of cells.          *)
(* Mutant: the latest number of cells, not the greatest.                   *)
PeakLatest(st) == maxCells' = CellNum(st)

Peak(st) == maxCells' = IF CellNum(st) > maxCells THEN CellNum(st) ELSE maxCells

(* One more instruction is read.  It expects the operands found, leaves    *)
(* those in st and has peak, the highest stack, on the way there.          *)
Arrive(instr, found, dead, peak, st) ==
  /\ code'  = Append(code, instr)
  /\ seen'  = Append(seen, [stack |-> found, emitted |-> Len(table), dead |-> dead])
  /\ stack' = st
  /\ Peak(peak)

ReadPeak(instr, peak, st) == Arrive(instr, stack, Dead(Depth), peak, st)

Read(instr, st) == ReadPeak(instr, st, st)

(* RESET_STACK                                                             *)
BlockBase == SubSeq(stack, 1, Top.base)

(* SET_CUR_BLOCK_STACK_POLYMORPHIC_STATE                                   *)
SetPoly(flag) ==
  /\ poly' = [poly EXCEPT ![Depth] = flag]
  /\ own'  = [own  EXCEPT ![Depth] = flag]

(* An instruction that pops and pushes operands and does nothing else.     *)
Operate(instr, pop, push) ==
  IF PopOk(stack, pop)
  THEN /\ Read(instr, AfterPop(stack, pop) \o push)
       /\ Note(Stale(stack, pop))
       /\ UNCHANGED <<blocks, poly, own, table, brt, verdict>>
  ELSE Reject

-----------------------------------------------------------------------------
(* wasm_emit_branch_table: an unresolved entry, queued on its block.       *)
Entry(op, pop, push) ==
  [op |-> op, resolved |-> FALSE, ip |-> 0, idx |-> 0, pop |-> pop, push |-> push]

(* Mutant: the queue receives the index of the entry before.               *)
EmitOffByOne(op, depth, st) ==
  LET k == Depth - depth
      b == blocks[k]
  IN  /\ table'  = Append(table, Entry(op, CellNum(st) - b.cells, CellNum(b.type.result)))
      /\ blocks' = [blocks EXCEPT ![k].queue = @ \cup {Len(table)}]

Emit(op, depth, st) ==
  LET k == Depth - depth
      b == blocks[k]
  IN  /\ table'  = Append(table, Entry(op, CellNum(st) - b.cells, CellNum(b.type.result)))
      /\ blocks' = [blocks EXCEPT ![k].queue = @ \cup {Len(table) + 1}]

(* wasm_loader_check_br: the operands a branch to the label carries.  The  *)
(* flag only matters through the pops; a missing operand is looked for in  *)
(* the whole stack, not above the current block's base.                    *)
LabelTypes(depth) ==
  LET b == blocks[Depth - depth]
  IN  IF b.label = "loop" THEN b.type.param ELSE b.type.result

CheckBr(st, depth) ==
  /\ depth < Depth
  /\ LET want == LabelTypes(depth)
         n    == Len(want)
     IN  IF poly[Depth]
         THEN PopOk(st, want)
         ELSE /\ Len(st) >= n
              /\ \A i \in 1 .. n : st[Len(st) + 1 - i] = want[n + 1 - i]

AfterCheckBr(st, depth) ==
  IF poly[Depth] THEN AfterPop(st, LabelTypes(depth)) \o LabelTypes(depth) ELSE st

(* History: without the flag, an operand below the base was accepted.      *)
BranchLapse(st, depth) ==
  IF poly[Depth] THEN Stale(st, LabelTypes(depth))
  ELSE IF Waived(st, LabelTypes(depth)) THEN {"borrowed_operand"} ELSE {}

(* check_block_stack: what must be above the base when a block ends.       *)
CheckBlock ==
  LET want == Top.type.result
  IN  IF poly[Depth]
      THEN PopOk(stack, want) /\ CellNum(AfterPop(stack, want)) = Top.cells
      ELSE Available(stack) = Len(want) /\ PopOk(stack, want)

AfterCheckBlock ==
  IF poly[Depth] THEN BlockBase \o Top.type.result ELSE stack

BlockLapse == IF poly[Depth] THEN Stale(stack, Top.type.result) ELSE {}

-----------------------------------------------------------------------------
Unreachable ==
  /\ Reading("unreachable")
  /\ Read([op |-> "unreachable"], BlockBase)
  /\ SetPoly(TRUE)
  /\ UNCHANGED <<blocks, table, brt, verdict, lapses>>

Nop ==
  /\ Reading("nop")
  /\ Operate([op |-> "nop"], <<>>, <<>>)

(* BLOCK, LOOP and IF: the parameters move above the new block's base.     *)
OpenBlock(label, type) ==
  LET pop   == IF label = "if" THEN Append(type.param, "I32") ELSE type.param
      below == AfterPop(stack, pop)
      block == NewBlock(label, type, below, Len(code) + 2)
  IN  /\ Reading(label)
      /\ Depth < MaxBlocks
      /\ IF PopOk(stack, pop)
         THEN /\ Read([op |-> label, type |-> type], below \o type.param)
              /\ Note(Stale(stack, pop))
              /\ own' = [own EXCEPT ![Depth + 1] = FALSE]
              /\ IF label = "if"
                 THEN /\ table'  = Append(table, Entry("if", 0, 0))
                      /\ blocks' = Append(blocks, [block EXCEPT !.queue = {Len(table) + 1}])
                 ELSE /\ blocks' = Append(blocks, block)
                      /\ UNCHANGED table
              /\ UNCHANGED <<poly, brt, verdict>>
         ELSE Reject

(* ELSE: the address and table index a false IF continues at are taken     *)
(* here, before the entry of ELSE itself is emitted.                       *)
Else ==
  /\ Reading("else")
  /\ IF Depth >= 2 /\ Top.label = "if" /\ CheckBlock
     THEN /\ ReadPeak([op |-> "else"],
                      IF CellNum(Top.type.param) > CellNum(Top.type.result)
                      THEN BlockBase \o Top.type.param ELSE AfterCheckBlock,
                      BlockBase \o Top.type.param)
          /\ Note(BlockLapse)
          /\ SetPoly(FALSE)
          /\ table'  = Append(table, Entry("else", 0, 0))
          /\ blocks' = [blocks EXCEPT ![Depth].elseIp  = Len(code) + 2,
                                      ![Depth].elseIdx = Len(table),
                                      ![Depth].queue   = @ \cup {Len(table) + 1}]
          /\ UNCHANGED <<brt, verdict>>
     ELSE Reject

(* Mutant: the position a LOOP starts at is taken when it ends.            *)
ResolveLoopLate(entry, b, end) ==
  LET target == IF entry.op = "if"       THEN [ip |-> b.elseIp, idx |-> b.elseIdx]
                ELSE IF b.label = "loop" THEN [ip |-> b.start,  idx |-> Len(table)]
                ELSE [ip |-> end, idx |-> Len(table)]
  IN  [entry EXCEPT !.resolved = TRUE, !.ip = target.ip, !.idx = target.idx]

(* Mutant: the position of an END is not taken, the one of the push stays. *)
ResolveStale(entry, b, end) ==
  LET target == IF entry.op = "if"       THEN [ip |-> b.elseIp, idx |-> b.elseIdx]
                ELSE IF b.label = "loop" THEN [ip |-> b.start,  idx |-> b.endIdx]
                ELSE [ip |-> end, idx |-> b.endIdx]
  IN  [entry EXCEPT !.resolved = TRUE, !.ip = target.ip, !.idx = target.idx]

(* wasm_validator_pop_block: what the queued entries become.               *)
Resolve(entry, b, end) ==
  LET target == IF entry.op = "if"       THEN [ip |-> b.elseIp, idx |-> b.elseIdx]
                ELSE IF b.label = "loop" THEN [ip |-> b.start,  idx |-> b.endIdx]
                ELSE [ip |-> end, idx |-> Len(table)]
  IN  [entry EXCEPT !.resolved = TRUE, !.ip = target.ip, !.idx = target.idx]

(* An IF without ELSE must leave the operands it found; its false branch   *)
(* then continues at the END.                                              *)
NoElse == Top.label = "if" /\ Top.elseIp = 0

(* END closes the current block and resolves its entries.  After the END   *)
(* of the function either the body is over (p = p_end) or it is refused.   *)
(* Branches to the block arrive at its END, with the block's results.      *)
End ==
  LET end == Len(code) + 1
      b   == IF NoElse THEN [Top EXCEPT !.elseIp = end, !.elseIdx = Len(table)] ELSE Top
  IN  /\ Reading("end")
      /\ IF CheckBlock /\ (NoElse => Top.type.param = Top.type.result)
         THEN /\ Arrive([op |-> "end"], AfterCheckBlock,
                        Dead(IF Top.label = "loop" THEN Depth ELSE Depth - 1),
                        AfterCheckBlock, AfterCheckBlock)
              /\ Note(BlockLapse)
              /\ table'  = [k \in DOMAIN table |->
                              IF k \in b.queue THEN Resolve(table[k], b, end) ELSE table[k]]
              /\ blocks' = SubSeq(blocks, 1, Depth - 1)
              /\ verdict' = IF Depth = 1 THEN "accepted" ELSE verdict
              /\ UNCHANGED <<poly, own, brt>>
         ELSE Reject

-----------------------------------------------------------------------------
Br(depth) ==
  /\ Reading("br")
  /\ IF CheckBr(stack, depth)
     THEN /\ Emit("br", depth, AfterCheckBr(stack, depth))
          /\ ReadPeak([op |-> "br"], AfterCheckBr(stack, depth), BlockBase)
          /\ Note(BranchLapse(stack, depth))
          /\ SetPoly(TRUE)
          /\ UNCHANGED <<brt, verdict>>
     ELSE Reject

BrIf(depth) ==
  LET st == AfterPop(stack, <<"I32">>)
  IN  /\ Reading("br_if")
      /\ IF PopOk(stack, <<"I32">>) /\ CheckBr(st, depth)
         THEN /\ Emit("br_if", depth, AfterCheckBr(st, depth))
              /\ Read([op |-> "br_if"], AfterCheckBr(st, depth))
              /\ Note(Stale(stack, <<"I32">>) \cup BranchLapse(st, depth))
              /\ UNCHANGED <<poly, own, brt, verdict>>
         ELSE Reject

(* BR_TABLE reads its labels one by one: BrTable is what precedes the      *)
(* loop, BrTableLabel one round of it, the last one with what follows.     *)
BrTable(targets) ==
  /\ Reading("br_table")
  /\ IF PopOk(stack, <<"I32">>)
     THEN /\ Read([op |-> "br_table", count |-> Len(targets) - 1],
                  AfterPop(stack, <<"I32">>))
          /\ Note(Stale(stack, <<"I32">>))
          /\ labels' = targets /\ retTypes' = <<>>
          /\ UNCHANGED <<blocks, poly, own, table, verdict>>
     ELSE Reject

(* The types the labels of one BR_TABLE must agree on: none for a loop.    *)
TableTypes(b) == IF b.label = "loop" THEN <<>> ELSE b.type.result

BrTableLabel ==
  LET depth == labels[1]
      st    == AfterCheckBr(stack, depth)
      types == TableTypes(blocks[Depth - depth])
  IN  /\ verdict = "running" /\ blocks # <<>> /\ labels # <<>>
      /\ IF CheckBr(stack, depth) /\ retTypes \in {<<>>, <<types>>}
         THEN /\ Emit("br_table", depth, st)
              /\ Note(BranchLapse(stack, depth))
              /\ labels' = Tail(labels)
              /\ retTypes' = <<types>>
              /\ IF Tail(labels) = <<>>
                 THEN stack' = BlockBase /\ SetPoly(TRUE)
                 ELSE stack' = st /\ UNCHANGED <<poly, own>>
              /\ Peak(st)
              /\ UNCHANGED <<code, verdict, seen>>
         ELSE Reject

Return ==
  /\ Reading("return")
  /\ IF PopOk(stack, FuncType.result)
     THEN /\ Read([op |-> "return"], BlockBase)
          /\ Note(Stale(stack, FuncType.result))
          /\ SetPoly(TRUE)
          /\ UNCHANGED <<blocks, table, brt, verdict>>
     ELSE Reject

(* check_function_index, then the callee's operands.                       *)
Call(f) ==
  /\ Reading("call")
  /\ IF f < Len(Funcs)
     THEN Operate([op |-> "call", func |-> f], Funcs[f + 1].param, Funcs[f + 1].result)
     ELSE Reject

(* check_table_index, then the element index and the callee's operands.    *)
CallIndirect(t) ==
  /\ Reading("call_indirect")
  /\ IF HasTable /\ t < Len(Types)
     THEN Operate([op |-> "call_indirect", type |-> Types[t + 1]],
                  Append(Types[t + 1].param, "I32"), Types[t + 1].result)
     ELSE Reject

-----------------------------------------------------------------------------
(* The byte under the top of the type stack, whatever block it belongs to. *)
TopType(st) == IF st = <<>> THEN NoType ELSE st[Len(st)]

(* DROP and SELECT are rewritten to their 64-bit forms by that type.       *)
Drop ==
  LET t == TopType(stack)
  IN  /\ Reading("drop")
      /\ Operate([op |-> "drop", wide |-> t \in Wide], <<t>>, <<>>)

Select ==
  LET t == TopType(AfterPop(stack, <<"I32">>))
  IN  /\ Reading("select")
      /\ Operate([op |-> "select", wide |-> t \in Wide], <<t, t, "I32">>, <<t>>)

(* Mutant: offsets count from the first local that is no parameter.        *)
LocalOffsetFromLocals(l) == CellNum(SubSeq(Locals, 1, l)) - CellNum(FuncType.param)

(* local_offsets[l], in cells.  The instruction is rewritten to carry it.  *)
LocalOffset(l) == CellNum(SubSeq(Locals, 1, l))

(* Mutant: the instruction is not rewritten to its 64-bit form.            *)
LocalInstrNarrow(op, l) == [op |-> op, offset |-> LocalOffset(l), wide |-> FALSE]

LocalInstr(op, l) ==
  [op |-> op, offset |-> LocalOffset(l), wide |-> Locals[l + 1] \in Wide]

GetLocal(l) ==
  /\ Reading("get_local")
  /\ IF l < Len(Locals)
     THEN Operate(LocalInstr("get_local", l), <<>>, <<Locals[l + 1]>>)
     ELSE Reject

SetLocal(l) ==
  /\ Reading("set_local")
  /\ IF l < Len(Locals)
     THEN Operate(LocalInstr("set_local", l), <<Locals[l + 1]>>, <<>>)
     ELSE Reject

TeeLocal(l) ==
  /\ Reading("tee_local")
  /\ IF l < Len(Locals)
     THEN Operate(LocalInstr("tee_local", l), <<Locals[l + 1]>>, <<Locals[l + 1]>>)
     ELSE Reject

GetGlobal(g) ==
  /\ Reading("get_global")
  /\ IF g < Len(Globals)
     THEN Operate([op |-> "get_global", value |-> Globals[g + 1].type],
                  <<>>, <<Globals[g + 1].type>>)
     ELSE Reject

SetGlobal(g) ==
  /\ Reading("set_global")
  /\ IF g < Len(Globals) /\ Globals[g + 1].mutable
     THEN Operate([op |-> "set_global", value |-> Globals[g + 1].type],
                  <<Globals[g + 1].type>>, <<>>)
     ELSE Reject

(* Constants, numeric instructions, loads, stores and the bulk memory ones.*)
PlainOp(s) ==
  /\ Reading("plain")
  /\ Operate([op |-> "plain", sig |-> s], s.pop, s.push)

(* p = p_end while blocks are open, instructions behind the function's     *)
(* END, an unsupported opcode, a refused immediate, or a failed realloc.   *)
Malformed == verdict = "running" /\ Reject

-----------------------------------------------------------------------------
(* wasm_loader_ctx_init and the push of the function's own block.  The     *)
(* flags of the BranchBlock slots are whatever the allocator left there.   *)
Init ==
  /\ code = <<>> /\ stack = <<>> /\ table = <<>> /\ seen = <<>>
  /\ labels = <<>> /\ retTypes = <<>>
  /\ blocks = <<[label |-> "function", type |-> FuncType, base |-> 0, cells |-> 0,
                 start |-> 1, elseIp |-> 0, elseIdx |-> 0, endIdx |-> 0, queue |-> {}]>>
  /\ poly \in [1 .. MaxBlocks -> FreshFlags]
  /\ own = [d \in 1 .. MaxBlocks |-> FALSE]
  /\ maxCells = 0
  /\ verdict = "running"
  /\ lapses = {}

(* Every operand an instruction may carry, one out of range included.      *)
Control ==
  \/ Unreachable \/ Nop \/ Else \/ End \/ Return
  \/ \E label \in {"block", "loop", "if"}, type \in BlockTypes : OpenBlock(label, type)
  \/ \E depth \in 0 .. MaxBlocks : Br(depth) \/ BrIf(depth)
  \/ \E targets \in JumpTables : BrTable(targets)
  \/ BrTableLabel
  \/ \E f \in 0 .. Len(Funcs) : Call(f)
  \/ \E t \in 0 .. Len(Types) : CallIndirect(t)

Operands ==
  \/ Drop \/ Select
  \/ \E l \in 0 .. Len(Locals) : GetLocal(l) \/ SetLocal(l) \/ TeeLocal(l)
  \/ \E g \in 0 .. Len(Globals) : GetGlobal(g) \/ SetGlobal(g)
  \/ \E s \in Plain : PlainOp(s)

Next == Control \/ Operands \/ Malformed

Spec == Init /\ [][Next]_vars

-----------------------------------------------------------------------------
StackType == ValueType \cup {NoType}

(* Instructions, with the immediates that their execution needs.           *)
InstrSet ==
  [op : {"unreachable", "nop", "else", "end", "br", "br_if", "return"}]
    \cup [op : {"block", "loop", "if", "call_indirect"}, type : FuncTypeSet]
    \cup [op : {"br_table"}, count : Nat]
    \cup [op : {"call"}, func : Nat]
    \cup [op : {"drop", "select"}, wide : BOOLEAN]
    \cup [op : {"get_local", "set_local", "tee_local"}, offset : Nat, wide : BOOLEAN]
    \cup [op : {"get_global", "set_global"}, value : ValueType]
    \cup [op : {"plain"}, sig : [pop : Seq(ValueType), push : Seq(ValueType)]]

BlockSet ==
  [ label : Label, type : FuncTypeSet, base : Nat, cells : Nat, start : Nat,
    elseIp : Nat, elseIdx : Nat, endIdx : Nat, queue : SUBSET Nat ]

EntrySet ==
  [ op : {"if", "else", "br", "br_if", "br_table"}, resolved : BOOLEAN,
    ip : Nat, idx : Nat, pop : Int, push : Nat ]

(* The variables hold values of the types the context's fields have.       *)
TypeOK ==
  /\ code \in Seq(InstrSet)
  /\ stack \in Seq(StackType)
  /\ blocks \in Seq(BlockSet)
  /\ poly \in [1 .. MaxBlocks -> BOOLEAN]
  /\ own \in [1 .. MaxBlocks -> BOOLEAN]
  /\ table \in Seq(EntrySet)
  /\ maxCells \in Nat
  /\ labels \in Seq(Nat)
  /\ retTypes \in Seq(Seq(ValueType))
  /\ verdict \in {"running", "accepted", "rejected"}
  /\ lapses \subseteq {"stale_flag", "borrowed_operand"}
  /\ seen \in Seq([stack : Seq(StackType), emitted : Nat, dead : BOOLEAN])
  /\ Len(seen) = Len(code)

(* No pop, RESET_STACK or waived pop reaches below the base of an open     *)
(* block: bases grow with the depth and the top of the stack stays above.  *)
BlocksNested ==
  \A d \in 1 .. Depth :
    blocks[d].base <= (IF d = Depth THEN Len(stack) ELSE blocks[d + 1].base)

(* Every entry that is still unresolved waits in the queue of exactly one  *)
(* open block, and no queue holds anything else: a block's END resolves    *)
(* all that is its own, and when the function is accepted nothing is left. *)
EntriesOwned ==
  /\ \A d \in 1 .. Depth : blocks[d].queue \subseteq DOMAIN table
  /\ \A k \in DOMAIN table :
       IF table[k].resolved
       THEN \A d \in 1 .. Depth : k \notin blocks[d].queue
       ELSE \E d \in 1 .. Depth :
              /\ k \in blocks[d].queue
              /\ \A e \in 1 .. Depth : k \in blocks[e].queue => e = d

(* An entry of an IF whose false branch continues in an ELSE body.         *)
IntoElse(e) == e.op = "if" /\ code[e.ip - 1].op = "else"

(* A resolved entry sends the interpreter to an instruction of the body    *)
(* together with the position its cursor must have there: the number of    *)
(* entries that precede that instruction.                                  *)
InSync(e) == e.ip \in DOMAIN code /\ e.idx = seen[e.ip].emitted

TargetsInSync ==
  verdict = "accepted" =>
    \A k \in DOMAIN table : table[k].resolved /\ (InSync(table[k]) \/ IntoElse(table[k]))

(* The same without the exception: what the comment on ELSE promises, a    *)
(* jump table set up for the IF.                                           *)
AllTargetsInSync ==
  verdict = "accepted" => \A k \in DOMAIN table : InSync(table[k])

(* A body is accepted only if every operand it pops, branches with or      *)
(* leaves behind is there: waived pops are for code that is never reached. *)
OperandsPresent == verdict = "accepted" => lapses = {}

=============================================================================
