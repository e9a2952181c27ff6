----------------------------- MODULE Interpreter -----------------------------
(***************************************************************************)
(* wasm_interp_call_wasm and wasm_interp_call_func_bytecode: the execution *)
(* of a function body that Validator has accepted.                         *)
(*                                                                         *)
(* The interpreter checks nothing it executes: it moves untyped four-byte  *)
(* cells, finds its way by the branch table alone and keeps a cursor into  *)
(* that table which every branch, taken or not, has to leave right.  Here  *)
(* a cell carries the type it was written with, so that reading it as      *)
(* another type, or reading past the operands, can be seen.                *)
(*                                                                         *)
(* Calls are to imported functions and to the function itself, on frames   *)
(* that share the one value stack.  Conditions, indices, table contents    *)
(* and traps are chosen nondeterministically.                              *)
(***************************************************************************)
EXTENDS Validator, SequencesExt

CONSTANT
  MaxFrames    \* bound: frames of the function active at a time

ASSUME InterpreterAssumption ==
  /\ MaxFrames \in Nat \ {0}
  /\ IsPrefix(FuncType.param, Locals)
  /\ \A i \in DOMAIN Imports : Len(Imports[i].result) <= 1

VARIABLES
  status,    \* "idle", "running", "returned" or "trapped"
  ip,        \* frame_ip: the instruction to execute next
  cur,       \* cur_branch_table - branch_table: the cursor
  vs,        \* the value stack, from its bottom up to frame_sp
  lp,        \* frame_lp - value_stack_bottom
  frames,    \* prev_frame and the frames it hides, as CALL saved them
  defect     \* history: known faults this execution has run into

evars == <<status, ip, cur, vs, lp, frames, defect>>
ivars == <<vars, evars>>

-----------------------------------------------------------------------------
(* The cells of a value.  Zero is what memset leaves in a local.           *)
CellSet == [type : ValueType \cup {"zero", "junk"}, half : 0 .. 2]
Cell(type, half) == [type |-> type, half |-> half]
Zero == Cell("zero", 0)
Junk == Cell("junk", 0)

CellsOf(t) == IF t \in Wide THEN <<Cell(t, 1), Cell(t, 2)>> ELSE <<Cell(t, 0)>>
Cells(types) == FlattenSeq([i \in DOMAIN types |-> CellsOf(types[i])])

ParamCells == CellNum(FuncType.param)            \* param_cell_num
LocalCells == CellNum(Locals) - ParamCells       \* local_cell_num
RetCells   == CellNum(FuncType.result)           \* ret_cell_num
Zeros(n)   == [i \in 1 .. n |-> Zero]

(* Memory outside the part of the stack in use holds anything.             *)
At(k) == IF k \in DOMAIN vs THEN vs[k] ELSE Junk
CellsAt(offset, n) == [i \in 1 .. n |-> At(offset + i)]

(* The stack without its n topmost cells, and those cells.                 *)
Without(n) == SubSeq(vs, 1, Len(vs) - n)
Topmost(n) == CellsAt(Len(vs) - n, n)

(* st with cells written at an offset that lies within it.                 *)
Store(st, offset, cells) ==
  [k \in DOMAIN st |-> IF k - offset \in DOMAIN cells THEN cells[k - offset] ELSE st[k]]

-----------------------------------------------------------------------------
(* frame_ip is at an instruction op.  An execution that has run into a     *)
(* known fault is followed no further.                                     *)
Exec(op) ==
  /\ status = "running" /\ defect = {}
  /\ ip \in DOMAIN code /\ code[ip].op = op
  /\ UNCHANGED vars

Goto(st, i, c) ==
  /\ vs' = st /\ ip' = i /\ cur' = c
  /\ UNCHANGED <<status, lp, frames>>

(* HANDLE_OP_END after an instruction that does not touch the cursor.      *)
Proceed(st) == Goto(st, ip + 1, cur) /\ UNCHANGED defect

(* Mutant: the entries of the branch stay in front of the cursor.          *)
PassNothing(st, n) == Goto(st, ip + 1, cur) /\ UNCHANGED defect

(* cur_branch_table++: a branch that is not taken.                         *)
Pass(st, n) == Goto(st, ip + 1, cur + n) /\ UNCHANGED defect

Trap == status' = "trapped" /\ UNCHANGED <<ip, cur, vs, lp, frames, defect>>

(* Mutant: a branch leaves the operands where they are.                    *)
MovedNowhere(e, sp) == SubSeq(vs, 1, sp)

(* CONTROL_TRANSFER through entry e from a stack of sp cells.  word_copy   *)
(* copies upwards from the first cell: when the operands move up, it reads *)
(* cells it has already overwritten.                                       *)
Moved(e, sp) ==
  LET up == e.push - e.pop
  IN  SubSeq(vs, 1, sp - e.pop) \o
      [i \in 1 .. e.push |->
         IF up > 0 THEN At(sp - e.push + 1 + ((i - 1) % up)) ELSE At(sp - e.push + i)]

(* A branch to a LOOP whose entry counts the result cells of its type      *)
(* although the label takes the parameters.                                *)
LoopResults(e) ==
  /\ code[e.ip - 1].op = "loop"
  /\ e.push # CellNum(code[e.ip - 1].type.param)

Transfer(e, sp) ==
  /\ Goto(Moved(e, sp), e.ip, e.idx)
  /\ defect' = IF e.ip > 1 /\ LoopResults(e) THEN {"loop_results"} ELSE {}

-----------------------------------------------------------------------------
(* Unreachable, nop, block, loop and plain instructions.  Division and     *)
(* truncation may trap; loads and stores are not checked at all.           *)
HandleUnreachable == Exec("unreachable") /\ Trap

HandleNop == \E op \in {"nop", "block", "loop"} : Exec(op) /\ Proceed(vs)

Trapping ==
  {ArithmeticSig.I32_ADD, ArithmeticSig.I64_ADD, ConvertSig.I32_TRUNC_F32,
   ConvertSig.I32_TRUNC_F64, ConvertSig.I64_TRUNC_F32, ConvertSig.I64_TRUNC_F64}

HandlePlain ==
  /\ Exec("plain")
  /\ LET sig == code[ip].sig
     IN  \/ Proceed(Without(CellNum(sig.pop)) \o Cells(sig.push))
         \/ sig \in Trapping /\ Trap

(* IF goes on with the cursor advanced, or to its ELSE or END.             *)
HandleIf ==
  /\ Exec("if")
  /\ LET e == table[cur + 1]
     IN  \/ Pass(Without(1), 1)
         \/ /\ Goto(Without(1), e.ip, e.idx)
            /\ defect' = IF IntoElse(e) THEN {"else_cursor"} ELSE {}

(* ELSE is reached from the true branch and jumps over the false one.      *)
HandleElse ==
  /\ Exec("else")
  /\ LET e == table[cur + 1] IN Goto(vs, e.ip, e.idx)
  /\ UNCHANGED defect

(* Mutant: an unconditional branch that is not taken.                      *)
HandleBrUntaken == Exec("br") /\ Pass(vs, 1)

HandleBr == Exec("br") /\ Transfer(table[cur + 1], Len(vs))

HandleBrIf ==
  /\ Exec("br_if")
  /\ \/ Transfer(table[cur + 1], Len(vs) - 1)
     \/ Pass(Without(1), 1)

(* The index selects one of the count + 1 entries that follow the cursor.  *)
HandleBrTable ==
  /\ Exec("br_table")
  /\ \E lidx \in 0 .. code[ip].count : Transfer(table[cur + lidx + 1], Len(vs) - 1)

-----------------------------------------------------------------------------
(* Mutant: the results are left above the operands of the finished call.   *)
ReturnFuncInPlace ==
  LET prev == frames[Len(frames)]
  IN  /\ vs' = vs
      /\ frames' = SubSeq(frames, 1, Len(frames) - 1)
      /\ IF Len(frames) = 1
         THEN status' = "returned" /\ UNCHANGED <<ip, cur, lp>>
         ELSE /\ ip' = prev.ip /\ cur' = prev.cur /\ lp' = prev.lp
              /\ UNCHANGED status
      /\ UNCHANGED defect

(* return_func: the results move down to the caller's operands.            *)
ReturnFunc ==
  LET prev == frames[Len(frames)]
  IN  /\ vs' = [i \in 1 .. prev.sp |-> At(i)] \o Topmost(RetCells)
      /\ frames' = SubSeq(frames, 1, Len(frames) - 1)
      /\ IF Len(frames) = 1
         THEN status' = "returned" /\ UNCHANGED <<ip, cur, lp>>
         ELSE /\ ip' = prev.ip /\ cur' = prev.cur /\ lp' = prev.lp
              /\ UNCHANGED status
      /\ UNCHANGED defect

HandleReturn == Exec("return") /\ ReturnFunc

(* Mutant: every END is taken for the end of a block.                      *)
HandleEndProceed == Exec("end") /\ Proceed(vs)

(* Only the END that is the last instruction returns.                      *)
HandleEnd ==
  /\ Exec("end")
  /\ IF ip = Len(code) THEN ReturnFunc ELSE Proceed(vs)

(* Mutant: the callee's locals reach down into the caller's operands.      *)
CallBytecodeOverlap(sp) ==
  /\ Len(frames) < MaxFrames
  /\ frames' = Append(frames, [ip |-> ip + 1, sp |-> sp - ParamCells, lp |-> lp, cur |-> cur])
  /\ vs' = SubSeq(vs, 1, sp) \o Zeros(LocalCells)
  /\ lp' = sp - CellNum(Locals)
  /\ ip' = 1 /\ cur' = 0
  /\ UNCHANGED <<status, defect>>

(* call_func_from_interp for the function itself: the arguments become the *)
(* callee's parameters where they lie, its other locals are zeroed.        *)
CallBytecode(sp) ==
  /\ Len(frames) < MaxFrames
  /\ frames' = Append(frames, [ip |-> ip + 1, sp |-> sp - ParamCells, lp |-> lp, cur |-> cur])
  /\ vs' = SubSeq(vs, 1, sp) \o Zeros(LocalCells)
  /\ lp' = sp - ParamCells
  /\ ip' = 1 /\ cur' = 0
  /\ UNCHANGED <<status, defect>>

(* wasm_interp_call_func_native for an import: an exception ends the       *)
(* execution, and the stack pointer only moves for one or two result cells.*)
CallNative(type, sp) ==
  LET result == Cells(type.result)
      base   == sp - CellNum(type.param)
  IN  \/ Proceed(SubSeq(vs, 1, base) \o (IF Len(result) \in {1, 2} THEN result ELSE <<>>))
      \/ Trap

CallFunction(f, sp) ==
  IF f < Self THEN CallNative(Imports[f + 1], sp) ELSE CallBytecode(sp)

HandleCall == Exec("call") /\ CallFunction(code[ip].func, Len(vs))

(* An undefined, uninitialized or unknown element and a function of        *)
(* another type trap; equal types are one type in the module.              *)
HandleCallIndirect ==
  /\ Exec("call_indirect")
  /\ \/ Trap
     \/ \E f \in 0 .. Self : Funcs[f + 1] = code[ip].type /\ CallFunction(f, Len(vs) - 1)

-----------------------------------------------------------------------------
(* Mutant: 64-bit operands are handled like 32-bit ones.                   *)
WidthNarrow(instr) == 1

Width(instr) == IF instr.wide THEN 2 ELSE 1

HandleDrop == Exec("drop") /\ Proceed(Without(Width(code[ip])))

HandleSelect ==
  /\ Exec("select")
  /\ LET w    == Width(code[ip])
         rest == SubSeq(vs, 1, Len(vs) - 1 - w)
     IN  \/ Proceed(rest)
         \/ Proceed(Store(rest, Len(rest) - w, CellsAt(Len(rest), w)))

HandleGetLocal ==
  /\ Exec("get_local")
  /\ Proceed(vs \o CellsAt(lp + code[ip].offset, Width(code[ip])))

HandleSetLocal ==
  /\ Exec("set_local")
  /\ LET w == Width(code[ip])
     IN  Proceed(Store(Without(w), lp + code[ip].offset, Topmost(w)))

HandleTeeLocal ==
  /\ Exec("tee_local")
  /\ Proceed(Store(vs, lp + code[ip].offset, Topmost(Width(code[ip]))))

HandleGetGlobal == Exec("get_global") /\ Proceed(vs \o CellsOf(code[ip].value))

HandleSetGlobal == Exec("set_global") /\ Proceed(Without(Len(CellsOf(code[ip].value))))

-----------------------------------------------------------------------------
Begin(below, args, locals, base) ==
  /\ verdict = "accepted" /\ status = "idle"
  /\ status' = "running" /\ ip' = 1 /\ cur' = 0
  /\ lp' = base
  /\ vs' = below \o args \o locals
  /\ frames' = <<[ip |-> 0, sp |-> Len(below), lp |-> 0, cur |-> 0]>>
  /\ UNCHANGED vars

(* wasm_interp_call_wasm runs the function as the first of the execution.  *)
(* The arguments are copied to the bottom of the stack, while the frame    *)
(* expects the parameters below it and the locals where the arguments are. *)
StartMain ==
  LET argsOrZero(i) == IF i <= ParamCells THEN Cells(FuncType.param)[i] ELSE Zero
  IN  /\ Begin(<<>>, <<>>, [i \in 1 .. LocalCells |-> argsOrZero(i)], 0 - ParamCells)
      /\ defect' = lapses \cup (IF ParamCells > 0 THEN {"main_arguments"} ELSE {})

(* The function is called by the bytecode of another one, of which only an *)
(* operand below the arguments is left to see.                             *)
StartCalled ==
  /\ Begin(<<Cell("I32", 0)>>, Cells(FuncType.param), Zeros(LocalCells), 1)
  /\ defect' = lapses

IInit ==
  /\ Init
  /\ status = "idle" /\ ip = 0 /\ cur = 0 /\ vs = <<>> /\ lp = 0
  /\ frames = <<>> /\ defect = {}

Start == StartMain \/ StartCalled

Handle ==
  \/ HandleUnreachable \/ HandleNop \/ HandlePlain
  \/ HandleIf \/ HandleElse \/ HandleEnd \/ HandleBr \/ HandleBrIf \/ HandleBrTable
  \/ HandleReturn \/ HandleCall \/ HandleCallIndirect
  \/ HandleDrop \/ HandleSelect
  \/ HandleGetLocal \/ HandleSetLocal \/ HandleTeeLocal
  \/ HandleGetGlobal \/ HandleSetGlobal

INext == (Next /\ UNCHANGED evars) \/ Start \/ Handle

ISpec == IInit /\ [][INext]_ivars

-----------------------------------------------------------------------------
(* Saved frames: where to go on in the body, the stack and the table.      *)
FrameSet == [ip : 0 .. Len(code), sp : 0 .. Len(vs), lp : 0 .. Len(vs), cur : 0 .. Len(table)]

DefectSet == {"stale_flag", "borrowed_operand", "else_cursor", "loop_results",
              "main_arguments"}

(* The interpreter's variables hold values of their types, and its pointers*)
(* point into the body, the branch table and the part of the stack in use, *)
(* those saved in the frames of the callers too.                           *)
ITypeOK ==
  /\ status \in {"idle", "running", "returned", "trapped"}
  /\ ip \in 0 .. Len(code) /\ cur \in 0 .. Len(table) /\ lp \in Int
  /\ vs \in Seq(CellSet)
  /\ frames \in Seq(FrameSet)
  /\ defect \subseteq DefectSet

(* Runs into none of the faults given.                                     *)
Running(known) == status = "running" /\ defect \subseteq known

(* Cells found where types are expected; a zero is a value of any type.    *)
Holds(offset, types) ==
  LET want == Cells(types)
  IN  \A i \in DOMAIN want : At(offset + i) \in {want[i], Zero}

(* The operands of the frame are those the validator derived for ip.       *)
OperandsMatch ==
  LET base == lp + CellNum(Locals)
  IN  /\ Len(vs) = base + CellNum(seen[ip].stack)
      /\ Holds(base, seen[ip].stack)

(* At every instruction the cursor has passed exactly the entries of the   *)
(* branching instructions that precede it, whichever way control got here: *)
(* through taken and untaken branches, loops, calls and returns.           *)
CursorSync == Running({}) => cur = seen[ip].emitted

(* At every instruction the operand cells are as many and of the types the *)
(* validator computed, so that untyped execution never misreads a cell.    *)
OperandsTyped == Running({}) => OperandsMatch

(* The same with branches to a LOOP included, which the validator says it  *)
(* treats apart: a LOOP's label takes parameters, not results.             *)
LoopOperandsTyped == Running({"loop_results"}) => OperandsMatch

(* Code the validator read in polymorphic mode, where it let operands be   *)
(* missing, is never executed.                                             *)
DeadCodeUnreached == Running({}) => ~seen[ip].dead

(* Every local holds a value of its own type, or zero, at the offset that  *)
(* the loader computed for it, at every step of every activation.          *)
LocalsMatch ==
  \A l \in DOMAIN Locals : Holds(lp + LocalOffset(l - 1), <<Locals[l]>>)

LocalsTyped == Running({}) => LocalsMatch

(* The operands of a frame never take more cells than max_stack_cell_num.  *)
StackBounded == Running({}) => Len(vs) - lp - CellNum(Locals) <= maxCells

(* A finished call leaves its caller's operands and its results on the     *)
(* stack, nothing else, and no frame behind.                               *)
ResultsDelivered ==
  status = "returned" /\ defect = {} =>
    LET below == Len(vs) - RetCells
    IN  /\ frames = <<>>
        /\ below \in {0, 1} /\ Holds(0, [i \in 1 .. below |-> "I32"])
        /\ Holds(below, FuncType.result)

(* A call never changes the operands its caller keeps below the arguments. *)
CallerUntouched ==
  [][Running({}) /\ frames # <<>> =>
       \A k \in 1 .. frames[Len(frames)].sp : k \in DOMAIN vs' /\ vs'[k] = vs[k]]_ivars

=============================================================================
