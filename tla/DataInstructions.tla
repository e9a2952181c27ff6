-------------------------- MODULE DataInstructions --------------------------
(***************************************************************************)
(* The handlers of wasm_interp_call_func_bytecode that compute: constants, *)
(* arithmetic, comparisons, conversions, and the linear memory.            *)
(*                                                                         *)
(* A step executes one instruction of validated code on operands its       *)
(* predecessors left.  The operand stack is an array of 4-byte cells and   *)
(* the index frame_sp of its top; the cell at the bottom belongs to the    *)
(* code around.  Floating-point arithmetic is the C compiler's and is not  *)
(* modelled; comparison, min, max, the signs and truncation are.           *)
(***************************************************************************)
EXTENDS LinearMemory, Leb

CONSTANTS
  Encodings,    \* per type, the constants that are decoded
  Samples,      \* per type, the operands that are tried
  Bounds,       \* per float type, the operands of truncations
  Memories,     \* the memories at the start
  Accesses,     \* <<addr, offset>> of loads and stores
  Ranges,       \* <<dst, src, len>> of the bulk instructions
  Deltas,       \* the growths
  MaxChanges    \* how often the memory is changed

VARIABLES
  cells, frame_sp,   \* the operand stack
  memory,            \* the linear memory
  segment,           \* a data segment: its bytes and data_length
  status,            \* "running", "trapped", "rejected" or "undefined"
  changes,           \* how often the memory has been changed
  ins                \* history: the instruction just executed

vars == <<cells, frame_sp, memory, segment, status, changes, ins>>

(* Numbers do not depend on the memory: they are computed once.            *)
Fresh == changes = 0

-----------------------------------------------------------------------------
(* The operand stack *)

MaxCells == 6
Guard == 1            \* what the cell at the bottom holds
Bottom == [cells |-> [c \in 1..MaxCells |-> IF c = 1 THEN Guard ELSE 0], sp |-> 1]

CellsOf(t) == IF t \in {"i32", "f32"} THEN 1 ELSE 2

(* The sign of an f64 is in its upper cell.                                *)
ToCells(t, v) ==
  CASE t = "i32" -> <<v>>
    [] t = "i64" -> <<v % 2 ^ Bits("i32"), v \div 2 ^ Bits("i32")>>
    [] t = "f32" -> <<2 * v.mag + v.neg>>
    [] t = "f64" -> <<v.mag, v.neg>>

FromCells(t, c) ==
  CASE t = "i32" -> c[1]
    [] t = "i64" -> c[1] + c[2] * 2 ^ Bits("i32")
    [] t = "f32" -> Float(c[1] % 2, c[1] \div 2)
    [] t = "f64" -> Float(c[2], c[1])

(* PUSH_I32 and its like store at frame_sp and move it; POP_I32 moves it   *)
(* first.                                                                  *)
Push(f, t, v) ==
  [cells |-> [c \in DOMAIN f.cells |->
                IF c - f.sp \in 1..CellsOf(t) THEN ToCells(t, v)[c - f.sp] ELSE f.cells[c]],
   sp |-> f.sp + CellsOf(t)]

Pop(f, t) == [f EXCEPT !.sp = @ - CellsOf(t)]
Top(f, t) == FromCells(t, SubSeq(f.cells, f.sp - CellsOf(t) + 1, f.sp))

Operand(t, v) == [type |-> t, value |-> v]
Stacked(operands) == FoldLeft(LAMBDA f, o : Push(f, o.type, o.value), Bottom, operands)

(* DEF_OP_NUMERIC, DEF_OP_CMP and the handlers that pop b, then a.         *)
Second(f, t) == Top(f, t)
First(f, t) == Top(Pop(f, t), t)
Two(f, t) == Pop(Pop(f, t), t)

-----------------------------------------------------------------------------
NoIns == [op |-> "none"]

Init ==
  /\ cells = Bottom.cells /\ frame_sp = Bottom.sp
  /\ memory \in Memories
  /\ segment = [data |-> [i \in 0..2 |-> 3 - i], data_length |-> 3]
  /\ status = "running" /\ changes = 0 /\ ins = NoIns

(* The next instructions have consumed the results.                        *)
Consume ==
  /\ status = "running" /\ ins # NoIns
  /\ ins' = NoIns /\ cells' = Bottom.cells /\ frame_sp' = Bottom.sp
  /\ UNCHANGED <<memory, segment, status, changes>>

Ready == status = "running" /\ ins = NoIns

Leaves(i, f) ==
  /\ ins' = i /\ cells' = f.cells /\ frame_sp' = f.sp /\ UNCHANGED status

(* HANDLE_OP_END after a push, or goto got_exception.                      *)
Stops(i, why) ==
  /\ ins' = i /\ status' = why /\ UNCHANGED <<cells, frame_sp>>

Pushes(i, f, t, result) ==
  IF result.ok THEN Leaves(i, Push(f, t, result.value)) ELSE Stops(i, "trapped")

Pure == UNCHANGED <<memory, segment, changes>>

-----------------------------------------------------------------------------
(* Constants *)

ReadLeb(t, bytes) ==
  IF t = "i32" THEN ReadVarint32(bytes, Bits(t)) ELSE ReadVarint64(bytes, Bits(t))

(* The validator reads the constant, then the interpreter does.            *)
Const(t, bytes) ==
  LET i == [op |-> "const", type |-> t, bytes |-> bytes, operands |-> <<>>]
  IN /\ Pure
     /\ IF ReadLeb(t, bytes).ok
        THEN Leaves(i, Push(Bottom, t, FastSigned(bytes, Bits(t))))
        ELSE Stops(i, "rejected")

(* An index or an offset, as EXEC_ of the instruction leaves it for        *)
(* HANDLE_; it is observed here as if it were pushed.                      *)
Immediate(bytes) ==
  LET i == [op |-> "immediate", type |-> "i32", bytes |-> bytes, operands |-> <<>>]
  IN /\ Pure
     /\ IF ReadVaruint(bytes, Bits("i32")).ok
        THEN Leaves(i, Push(Bottom, "i32", FastUnsigned(bytes, Bits("i32"))))
        ELSE Stops(i, "rejected")

-----------------------------------------------------------------------------
(* Integers *)

Truth(b) == IF b THEN 1 ELSE 0
BothOf(op, t, a, b) ==
  [op |-> op, type |-> t, operands |-> <<Operand(t, a), Operand(t, b)>>]
OnlyOf(op, t, a) == [op |-> op, type |-> t, operands |-> <<Operand(t, a)>>]

ArithmeticOps ==
  {"add", "sub", "mul", "and", "or", "xor", "shl", "shr_u", "shr_s", "rotl", "rotr"}
DivisionOps == {"div_s", "div_u", "rem_s", "rem_u"}
CompareOps ==
  {"eq", "ne", "lt_s", "lt_u", "gt_s", "gt_u", "le_s", "le_u", "ge_s", "ge_u"}

Numeric(op, t, a, b) ==
  LET i == BothOf(op, t, a, b) f == Stacked(i.operands)
  IN /\ Pure
     /\ Leaves(i, Push(Two(f, t), t, Arithmetic(op, First(f, t), Second(f, t), Bits(t))))

Divide(op, t, a, b) ==
  LET i == BothOf(op, t, a, b) f == Stacked(i.operands)
  IN /\ Pure
     /\ Pushes(i, Two(f, t), t, Division(op, First(f, t), Second(f, t), Bits(t)))

CompareInts(op, t, a, b) ==
  LET i == BothOf(op, t, a, b) f == Stacked(i.operands)
  IN /\ Pure
     /\ Leaves(i, Push(Two(f, t), "i32",
                       Truth(Compare(op, First(f, t), Second(f, t), Bits(t)))))

Eqz(t, a) ==
  LET i == OnlyOf("eqz", t, a) f == Stacked(i.operands)
  IN /\ Pure
     /\ Leaves(i, Push(Pop(f, t), "i32", Truth(Top(f, t) = 0)))

(* WASM_ENABLE_BUILTIN takes __builtin_clz and __builtin_ctz for the loops: *)
(* of zero their result is undefined.                                      *)
Count(op, t, a, builtin) ==
  LET i == [op |-> op, type |-> t, builtin |-> builtin, operands |-> <<Operand(t, a)>>]
      f == Stacked(i.operands)
  IN /\ Pure
     /\ IF builtin /\ op # "popcnt" /\ Top(f, t) = 0
        THEN Stops(i, "undefined")
        ELSE Leaves(i, Push(Pop(f, t), t, BitCount(op, Top(f, t), Bits(t))))

-----------------------------------------------------------------------------
(* Conversions *)

(* I32_WRAP_I64, I64_EXTEND_S_I32, I64_EXTEND_U_I32                        *)
Widen(op, from, to, a) ==
  LET i == [OnlyOf(op, from, a) EXCEPT !.type = to] f == Stacked(i.operands)
      v == CASE op = "wrap" -> Top(f, from) % 2 ^ Bits("i32")
             [] op = "extend_s" -> Unsigned(Signed(Top(f, from), Bits(from)), Bits(to))
             [] op = "extend_u" -> Top(f, from)
  IN /\ Pure
     /\ Leaves(i, Push(Pop(f, from), to, v))

(* The extend instructions within a type: a cast to a shorter one.         *)
Extend(t, bytes, a) ==
  LET i == [op |-> "extend", type |-> t, bytes |-> bytes, operands |-> <<Operand(t, a)>>]
      f == Stacked(i.operands)
  IN /\ Pure
     /\ Leaves(i, Push(Pop(f, t), t, SignExt(Top(f, t), bytes * ByteBits, Bits(t))))

(***************************************************************************)
(* trunc_f32_to_int and trunc_f64_to_int have a frame_sp of their own:     *)
(* they store the result where the operand began, and the handler moves    *)
(* its own frame_sp by the difference of the two types.                    *)
(***************************************************************************)
Moved(from, to) ==
  CASE <<from, to>> = <<"f64", "i32">> -> -1
    [] <<from, to>> = <<"f32", "i64">> -> 1
    [] OTHER -> 0

Truncate(from, to, signed, saturating, a) ==
  LET i == [op |-> "trunc", type |-> to, from |-> from, signed |-> signed,
            saturating |-> saturating, operands |-> <<Operand(from, a)>>]
      f == Stacked(i.operands)
      v == TruncToInt(Top(f, from), from, to, signed, saturating)
  IN /\ Pure
     /\ IF v.ok
        THEN Leaves(i, [Push(Pop(f, from), to, v.value) EXCEPT !.sp = f.sp + Moved(from, to)])
        ELSE Stops(i, "trapped")

-----------------------------------------------------------------------------
(* Floats *)

(* F32_NEG toggles the sign bit in place, and so does F64_NEG.             *)
Negate(t, a) ==
  LET i == OnlyOf("neg", t, a) f == Stacked(i.operands)
  IN /\ Pure
     /\ Leaves(i, Push(Pop(f, t), t, [Top(f, t) EXCEPT !.neg = 1 - @]))

FloatBinary(op, t, a, b) ==
  LET i == BothOf(op, t, a, b) f == Stacked(i.operands)
      x == First(f, t) y == Second(f, t)
  IN /\ Pure
     /\ Leaves(i, Push(Two(f, t), t,
                       CASE op = "min" -> FMin(x, y) [] op = "max" -> FMax(x, y)
                         [] op = "copysign" -> Copysign(x, y)))

CompareFloats(op, t, a, b) ==
  LET i == BothOf(op, t, a, b) f == Stacked(i.operands)
  IN /\ Pure
     /\ Leaves(i, Push(Two(f, t), "i32", Truth(FCompare(op, First(f, t), Second(f, t)))))

-----------------------------------------------------------------------------
(* Loads and stores: CHECK_MEMORY_OVERFLOW computes offset + addr in 64    *)
(* bits and checks nothing, so outside the memory anything may happen.     *)

Extension(v, bytes, t, signed) ==
  IF signed THEN SignExt(v, bytes * ByteBits, Bits(t)) ELSE v

LoadAt(f, t, bytes, signed, offset) ==
  Push(Pop(f, "i32"), t,
       Extension(NumberAt(memory, Top(f, "i32") + offset, bytes), bytes, t, signed))

(* i32.load16_s does not end with HANDLE_OP_END: it runs on into the       *)
(* handler of i32.load16_u, which takes the number loaded for an address.  *)
FallsThrough(t, bytes, signed) == t = "i32" /\ bytes = 2 /\ signed

Load(t, bytes, signed, addr, offset) ==
  LET i == [op |-> "load", type |-> t, bytes |-> bytes, signed |-> signed,
            offset |-> offset, operands |-> <<Operand("i32", addr)>>]
      f == Stacked(i.operands)
      once == LoadAt(f, t, bytes, signed, offset)
  IN /\ Pure
     /\ IF ~Within(memory, addr + offset, bytes) THEN Stops(i, "undefined")
        ELSE IF ~FallsThrough(t, bytes, signed) THEN Leaves(i, once)
        ELSE IF ~Within(memory, Top(once, t) + offset, bytes) THEN Stops(i, "undefined")
        ELSE Leaves(i, LoadAt(once, t, bytes, FALSE, offset))

Changed == changes < MaxChanges /\ changes' = changes + 1

Store(t, bytes, addr, offset, v) ==
  LET i == [op |-> "store", type |-> t, bytes |-> bytes, offset |-> offset,
            operands |-> <<Operand("i32", addr), Operand(t, v)>>]
      f == Stacked(i.operands)
      ea == Top(Pop(f, t), "i32") + offset
  IN /\ Changed /\ UNCHANGED segment
     /\ IF Within(memory, ea, bytes)
        THEN /\ memory' = Written(memory, ea, bytes, [k \in 0..(bytes - 1) |-> ByteOf(Top(f, t), k)])
             /\ Leaves(i, Pop(Pop(f, t), "i32"))
        ELSE UNCHANGED memory /\ Stops(i, "undefined")

-----------------------------------------------------------------------------
(* memory.size and memory.grow *)

MemorySize ==
  /\ Ready /\ Pure
  /\ Leaves([op |-> "size", type |-> "i32", operands |-> <<>>],
            Push(Bottom, "i32", memory.cur_page_count))

MinusOne == 2 ^ Bits("i32") - 1

(* realloc may fail; -1 is answered to the program whose memory vanished,  *)
(* too.                                                                    *)
MemoryGrow(delta) ==
  LET i == [op |-> "grow", type |-> "i32", operands |-> <<Operand("i32", delta)>>]
      f == Stacked(i.operands)
      inc == Top(f, "i32")
  IN /\ Changed /\ UNCHANGED segment
     /\ \/ /\ inc = 0
           /\ UNCHANGED memory
           /\ Leaves(i, Push(Pop(f, "i32"), "i32", memory.cur_page_count))
        \/ /\ inc > 0 /\ ~Vanishes(memory, inc)
           /\ UNCHANGED memory
           /\ Leaves(i, Push(Pop(f, "i32"), "i32", MinusOne))
        \/ /\ inc > 0 /\ MayEnlarge(memory, inc) /\ ~Wraps(memory, inc)
           /\ memory' = Enlarged(memory, inc)
           /\ Leaves(i, Push(Pop(f, "i32"), "i32", memory.cur_page_count))
        \/ /\ Wraps(memory, inc) \/ Vanishes(memory, inc)
           /\ UNCHANGED memory /\ Stops(i, "undefined")

-----------------------------------------------------------------------------
(* Bulk memory: CHECK_BULK_MEMORY_OVERFLOW checks nothing either.          *)

Bulk(op, dst, src, len) ==
  [op |-> op, type |-> "i32",
   operands |-> <<Operand("i32", dst), Operand("i32", src), Operand("i32", len)>>]

Nth(f, k) == IF k = 0 THEN Top(f, "i32") ELSE Top([f EXCEPT !.sp = @ - k], "i32")
Three(f) == [f EXCEPT !.sp = @ - 3]

(* memmove: the source is read before it is overwritten.                   *)
MemoryCopy(d, s, n) ==
  LET i == Bulk("copy", d, s, n) f == Stacked(i.operands)
      len == Nth(f, 0) src == Nth(f, 1) dst == Nth(f, 2)
  IN /\ Changed /\ UNCHANGED segment
     /\ IF Within(memory, src, len) /\ Within(memory, dst, len)
        THEN /\ memory' = Written(memory, dst, len, [k \in 0..(len - 1) |-> memory.data[src + k]])
             /\ Leaves(i, Three(f))
        ELSE UNCHANGED memory /\ Stops(i, "undefined")

MemoryFill(d, v, n) ==
  LET i == Bulk("fill", d, v, n) f == Stacked(i.operands)
      len == Nth(f, 0) fill_val == ByteOf(Nth(f, 1), 0) dst == Nth(f, 2)
  IN /\ Changed /\ UNCHANGED segment
     /\ IF Within(memory, dst, len)
        THEN /\ memory' = Written(memory, dst, len, [k \in 0..(len - 1) |-> fill_val])
             /\ Leaves(i, Three(f))
        ELSE UNCHANGED memory /\ Stops(i, "undefined")

(* Only the segment is checked.                                            *)
MemoryInit(d, o, n) ==
  LET i == Bulk("init", d, o, n) f == Stacked(i.operands)
      bytes == Nth(f, 0) offset == Nth(f, 1) addr == Nth(f, 2)
  IN /\ Changed /\ UNCHANGED segment
     /\ IF offset + bytes > segment.data_length
        THEN UNCHANGED memory /\ Stops(i, "trapped")
        ELSE IF Within(memory, addr, bytes)
        THEN /\ memory' = Written(memory, addr, bytes, [k \in 0..(bytes - 1) |-> segment.data[offset + k]])
             /\ Leaves(i, Three(f))
        ELSE UNCHANGED memory /\ Stops(i, "undefined")

DataDrop ==
  /\ Changed /\ UNCHANGED memory
  /\ segment' = [segment EXCEPT !.data_length = 0]
  /\ Leaves([op |-> "drop", type |-> "i32", operands |-> <<>>], Bottom)

-----------------------------------------------------------------------------
Constant ==
  /\ Ready /\ Fresh
  /\ \/ \E t \in {"i32", "i64"} : \E bytes \in Encodings[t] : Const(t, bytes)
     \/ \E bytes \in Encodings["i32"] : Immediate(bytes)

Integer ==
  /\ Ready /\ Fresh
  /\ \E t \in {"i32", "i64"} : \E a \in Samples[t] :
        \/ \E b \in Samples[t] :
             \/ \E op \in ArithmeticOps : Numeric(op, t, a, b)
             \/ \E op \in DivisionOps : Divide(op, t, a, b)
             \/ \E op \in CompareOps : CompareInts(op, t, a, b)
        \/ Eqz(t, a)
        \/ \E op \in {"clz", "ctz", "popcnt"}, builtin \in BOOLEAN : Count(op, t, a, builtin)
        \/ \E bytes \in {1, 2, 4} : bytes * ByteBits < Bits(t) /\ Extend(t, bytes, a)

Conversion ==
  /\ Ready /\ Fresh
  /\ \/ \E a \in Samples["i64"] : Widen("wrap", "i64", "i32", a)
     \/ \E a \in Samples["i32"], op \in {"extend_s", "extend_u"} : Widen(op, "i32", "i64", a)
     \/ \E from \in {"f32", "f64"}, to \in {"i32", "i64"}, signed, saturating \in BOOLEAN :
           \E a \in Bounds[from] : Truncate(from, to, signed, saturating, a)

Floating ==
  /\ Ready /\ Fresh
  /\ \E t \in {"f32", "f64"} : \E a \in Samples[t] :
        \/ Negate(t, a)
        \/ \E b \in Samples[t] :
             \/ \E op \in {"min", "max", "copysign"} : FloatBinary(op, t, a, b)
             \/ \E op \in {"eq", "ne", "lt", "gt", "le", "ge"} : CompareFloats(op, t, a, b)

(* The widths of loads and stores; only shorter ones have a sign.          *)
Full == {<<"i32", 4>>, <<"i64", 8>>}
Partial == {<<"i32", 1>>, <<"i32", 2>>, <<"i64", 1>>, <<"i64", 2>>, <<"i64", 4>>}

Access ==
  Ready /\ \E at \in Accesses :
     \/ \E w \in Full \cup Partial, signed \in BOOLEAN :
          (w \in Full => ~signed) /\ Load(w[1], w[2], signed, at[1], at[2])
     \/ \E w \in Full \cup Partial :
          \E v \in {Lowest(Bits(w[1])) + 27} : Store(w[1], w[2], at[1], at[2], v)

BulkMemory ==
  /\ Ready
  /\ \/ \E r \in Ranges : \/ MemoryCopy(r[1], r[2], r[3])
                          \/ MemoryFill(r[1], r[2], r[3])
                          \/ MemoryInit(r[1], r[2], r[3])
     \/ DataDrop

Grow == Ready /\ \E delta \in Deltas : MemoryGrow(delta)

Next ==
  \/ Consume \/ Constant \/ Integer \/ Conversion \/ Floating
  \/ Access \/ MemorySize \/ Grow \/ BulkMemory

Spec == Init /\ [][Next]_vars
=============================================================================
