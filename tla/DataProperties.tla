--------------------------- MODULE DataProperties ---------------------------
(***************************************************************************)
(* What the computing instructions promise: the definitions of the         *)
(* WebAssembly instruction set on mathematical integers and on bits,       *)
(* written without the C operations of the handlers.                       *)
(***************************************************************************)
EXTENDS DataInstructions, FiniteSets

Executed == ins = NoIns /\ ins' # NoIns

(* The result an instruction has left, its operands gone and the cell      *)
(* below them as it was.                                                   *)
Delivered(t) ==
  /\ status' = "running"
  /\ frame_sp' = Bottom.sp + CellsOf(t)
  /\ cells'[Bottom.sp] = Guard

Result(t) == FromCells(t, SubSeq(cells', Bottom.sp + 1, Bottom.sp + CellsOf(t)))

Bit(v, i) == (v \div 2 ^ i) % 2
Arg(k) == ins'.operands[k].value

-----------------------------------------------------------------------------
(* Integers *)

(* The signed reading of a sequence of payloads, and when the binary       *)
(* format allows it for a number of n bits.                                *)
Denoted(bytes) ==
  Gathered(bytes) - (IF SignBit(bytes) THEN 2 ^ (Group * Len(bytes)) ELSE 0)

Encodes(bytes, n) ==
  Group * (Len(bytes) - 1) < n /\ Denoted(bytes) \in -(2 ^ (n - 1))..(2 ^ (n - 1) - 1)

EncodesUnsigned(bytes, n) ==
  Group * (Len(bytes) - 1) < n /\ Gathered(bytes) < 2 ^ n

(* The quotient q and remainder r of a division that drops the fraction.   *)
Divides(x, y, q, r) == x = y * q + r /\ Abs(r) < Abs(y) /\ (r # 0 => (r < 0) = (x < 0))

DivisionTraps(op, a, b, n) ==
  b = 0 \/ (op = "div_s" /\ Signed(a, n) = -(2 ^ (n - 1)) /\ Signed(b, n) = -1)

Divided(op, a, b, r, n) ==
  LET x == Signed(a, n) y == Signed(b, n) z == Signed(r, n)
  IN CASE op = "div_s" -> Divides(x, y, z, x - y * z)
       [] op = "rem_s" -> \E q \in {(x - z) \div y} : Divides(x, y, q, z)
       [] op = "div_u" -> Divides(a, b, r, a - b * r)
       [] op = "rem_u" -> \E q \in {(a - r) \div b} : Divides(a, b, q, r)

(* A shift or rotation moves bits.                                         *)
Computes(op, a, b, r, n) ==
  LET k == b % n
      bit(i) == CASE op = "and" -> Bit(a, i) * Bit(b, i)
                  [] op = "or"  -> 1 - (1 - Bit(a, i)) * (1 - Bit(b, i))
                  [] op = "xor" -> (Bit(a, i) + Bit(b, i)) % 2
                  [] op = "shl" -> IF i < k THEN 0 ELSE Bit(a, i - k)
                  [] op = "shr_u" -> IF i + k < n THEN Bit(a, i + k) ELSE 0
                  [] op = "shr_s" -> Bit(a, IF i + k < n THEN i + k ELSE n - 1)
                  [] op = "rotl" -> Bit(a, (i + n - k) % n)
                  [] op = "rotr" -> Bit(a, (i + k) % n)
      modulo(x) == (Signed(r, n) - x) % 2 ^ n = 0
  IN CASE op = "add" -> modulo(Signed(a, n) + Signed(b, n))
       [] op = "sub" -> modulo(Signed(a, n) - Signed(b, n))
       [] op = "mul" -> modulo(Signed(a, n) * Signed(b, n))
       [] OTHER -> \A i \in 0..(n - 1) : Bit(r, i) = bit(i)

Counts(op, a, r, n) ==
  LET ones == {i \in 0..(n - 1) : Bit(a, i) = 1}
  IN CASE op = "popcnt" -> r = Cardinality(ones)
       [] op = "clz" -> r \in 0..n /\ (\A i \in ones : i < n - r) /\ (r < n => n - 1 - r \in ones)
       [] op = "ctz" -> r \in 0..n /\ (\A i \in ones : i >= r) /\ (r < n => r \in ones)

Related(op, x, y) ==
  CASE op \in {"eq"} -> x = y [] op \in {"ne"} -> x # y
    [] op \in {"lt", "lt_s", "lt_u"} -> x < y [] op \in {"gt", "gt_s", "gt_u"} -> y < x
    [] op \in {"le", "le_s", "le_u"} -> ~(y < x) [] op \in {"ge", "ge_s", "ge_u"} -> ~(x < y)

SignedOps == {"lt_s", "gt_s", "le_s", "ge_s"}

-----------------------------------------------------------------------------
(* Floats *)

(* The integers of the type, and the ones a float lies between.            *)
RangeOf(t, signed) ==
  IF signed THEN -(2 ^ (Bits(t) - 1))..(2 ^ (Bits(t) - 1) - 1) ELSE 0..(2 ^ Bits(t) - 1)

Nearest(f) ==      \* towards zero
  IF f.neg = 1 THEN -(f.mag \div 2) ELSE f.mag \div 2

OutOfRange(f, t, signed) ==
  IsNaN(f) \/ f.mag = Infinity \/ Nearest(f) \notin RangeOf(t, signed)

Clamped(f, t, signed) ==
  LET low == IF signed THEN -(2 ^ (Bits(t) - 1)) ELSE 0
      high == IF signed THEN 2 ^ (Bits(t) - 1) - 1 ELSE 2 ^ Bits(t) - 1
  IN IF IsNaN(f) THEN 0
     ELSE IF ~OutOfRange(f, t, signed) THEN Nearest(f)
     ELSE IF f.neg = 1 THEN low ELSE high

(* Zeros are ordered by their signs for min and max.                       *)
Ordered(f, g) == Halves(f) < Halves(g) \/ (Halves(f) = Halves(g) /\ f.neg >= g.neg)

Selected(op, f, g, r) ==
  IF op = "copysign" THEN r.mag = f.mag /\ r.neg = g.neg
  ELSE IF IsNaN(f) \/ IsNaN(g) THEN IsNaN(r)
  ELSE /\ r \in {f, g}
       /\ op = "min" => Ordered(r, f) /\ Ordered(r, g)
       /\ op = "max" => Ordered(f, r) /\ Ordered(g, r)

-----------------------------------------------------------------------------
(* What the instruction just executed should have done.                    *)

DividedRight(i, n) ==
  IF DivisionTraps(i.op, Arg(1), Arg(2), n) THEN status' = "trapped"
  ELSE Delivered(i.type) /\ Divided(i.op, Arg(1), Arg(2), Result(i.type), n)

ReadRight(i, accepted, value) ==
  IF accepted THEN /\ Delivered(i.type) /\ Result(i.type) = value % 2 ^ Bits(i.type)
                   /\ i.op = "const" => ReadLeb(i.type, i.bytes).value = Result(i.type)
  ELSE status' = "rejected"

ComparedRight(i, t) ==
  /\ Delivered("i32")
  /\ LET sense == IF i.op \in SignedOps THEN Signed(Arg(1), Bits(t)) ELSE Arg(1)
         other == IF i.op \in SignedOps THEN Signed(Arg(2), Bits(t)) ELSE Arg(2)
         holds == IF t \in {"i32", "i64"} THEN Related(i.op, sense, other)
                  ELSE IF IsNaN(Arg(1)) \/ IsNaN(Arg(2)) THEN i.op = "ne"
                  ELSE Related(i.op, Halves(Arg(1)), Halves(Arg(2)))
     IN Result("i32") = Truth(holds)

TruncatedRight(i) ==
  IF OutOfRange(Arg(1), i.type, i.signed) /\ ~i.saturating THEN status' = "trapped"
  ELSE /\ Delivered(i.type)
       /\ Result(i.type) = Clamped(Arg(1), i.type, i.signed) % 2 ^ Bits(i.type)

CountedRight(i, t) ==
  \/ Delivered(t) /\ Counts(i.op, Arg(1), Result(t), Bits(t))
  \/ status' = "undefined" /\ i.builtin /\ i.op # "popcnt" /\ Arg(1) = 0

(* The low bytes of the operand, read with or without their sign.          *)
ExtendedRight(i, low, bytes, signed) ==
  /\ Delivered(i.type)
  /\ LET n == bytes * ByteBits
         number == IF signed THEN Signed(low % 2 ^ n, n) ELSE low % 2 ^ n
     IN (Result(i.type) - number) % 2 ^ Bits(i.type) = 0

WidenedRight(i, from) ==
  ExtendedRight(i, Arg(1), CHOOSE k \in {4, 8} : k * ByteBits = Bits(IF i.op = "wrap" THEN "i32" ELSE from),
                i.op = "extend_s")

LoadedRight(i) ==
  LET ea == Arg(1) + i.offset
      low[k \in 0..i.bytes] ==
        IF k = 0 THEN 0 ELSE low[k - 1] + memory.data[ea + k - 1] * 2 ^ (ByteBits * (k - 1))
  IN Within(memory, ea, i.bytes) => ExtendedRight(i, low[i.bytes], i.bytes, i.signed)

Meant(i) ==
  LET t == IF i.operands = <<>> THEN i.type ELSE i.operands[1].type
      n == Bits(t)
  IN CASE i.op = "const" -> ReadRight(i, Encodes(i.bytes, Bits(i.type)), Denoted(i.bytes))
       [] i.op = "immediate" ->
            ReadRight(i, EncodesUnsigned(i.bytes, Bits("i32")), Gathered(i.bytes))
       [] i.op \in ArithmeticOps ->
            Delivered(t) /\ Computes(i.op, Arg(1), Arg(2), Result(t), n)
       [] i.op \in DivisionOps -> DividedRight(i, n)
       [] i.op = "eqz" -> Delivered("i32") /\ Result("i32") = Truth(Arg(1) = 0)
       [] i.op \in {"clz", "ctz", "popcnt"} -> CountedRight(i, t)
       [] i.op \in CompareOps \cup {"lt", "gt", "le", "ge"} -> ComparedRight(i, t)
       [] i.op = "extend" -> ExtendedRight(i, Arg(1), i.bytes, TRUE)
       [] i.op \in {"wrap", "extend_s", "extend_u"} -> WidenedRight(i, t)
       [] i.op = "trunc" -> TruncatedRight(i)
       [] i.op = "neg" -> Delivered(t) /\ Result(t) = Float(1 - Arg(1).neg, Arg(1).mag)
       [] i.op \in {"min", "max", "copysign"} ->
            Delivered(t) /\ Selected(i.op, Arg(1), Arg(2), Result(t))
       [] i.op = "load" -> FallsThrough(i.type, i.bytes, i.signed) \/ LoadedRight(i)
       [] OTHER -> TRUE

(* Every instruction that computes leaves exactly the value WebAssembly    *)
(* defines for its operands, or traps exactly when it should: the decoded  *)
(* constants agree with what the validator accepted, truncations stop at   *)
(* the right floats, and what lies below on the stack is not touched.      *)
(* Only i32.load16_s is wrong, since its handler runs on into the next,    *)
(* and a build with built-ins leaves the zeros of a zero undefined.        *)
Computed == [][Executed => Meant(ins')]_vars

-----------------------------------------------------------------------------
(* Memory *)

(* The bytes an instruction should change, and what they become.           *)
Target(i) ==
  CASE i.op = "store" -> (Arg(1) + i.offset)..(Arg(1) + i.offset + i.bytes - 1)
    [] i.op \in {"copy", "fill", "init"} -> Arg(1)..(Arg(1) + Arg(3) - 1)
    [] OTHER -> {}

Byte(i, a) ==
  CASE i.op = "store" ->
         (Arg(2) \div 2 ^ (ByteBits * (a - Arg(1) - i.offset))) % 2 ^ ByteBits
    [] i.op = "copy" -> memory.data[Arg(2) + a - Arg(1)]
    [] i.op = "fill" -> Arg(2) % 2 ^ ByteBits
    [] i.op = "init" -> segment.data[Arg(2) + a - Arg(1)]

(* A byte of the memory changes only when an instruction is told to write  *)
(* it, into the byte that instruction means; growing keeps what was there  *)
(* and adds zeros; and memory.init never reads a segment that was dropped, *)
(* or past its end.                                                        *)
MemoryFramed ==
  [][Executed /\ status' # "undefined" =>
       /\ \A a \in DOMAIN memory'.data :
            memory'.data[a] =
              IF status' = "running" /\ a \in Target(ins') THEN Byte(ins', a)
              ELSE IF a \in DOMAIN memory.data THEN memory.data[a] ELSE 0
       /\ DOMAIN memory.data \subseteq DOMAIN memory'.data
       /\ ins'.op = "init" =>
            (status' = "trapped") = (Arg(2) + Arg(3) > segment.data_length)]_vars

(* All 65536 pages: their size does not fit in 32 bits.                    *)
WholeSpace(m) == m.num_bytes_per_page # PageBytes

(* memory.size and the memory agree: as many pages as bytes, never more    *)
(* than the module allows; memory.grow gives the pages asked for and       *)
(* answers how many there were, or answers -1 and changes nothing, or what *)
(* it does is undefined, but only when the pages there are and the pages   *)
(* asked for add up to 2^32 or more: then a part of the memory, or all of  *)
(* it, is gone.  A memory of the whole address space counts as one page a  *)
(* byte too short.                                                         *)
PagesCounted ==
  [][/\ Executed /\ status' = "undefined" /\ ins'.op = "grow" =>
          memory.cur_page_count + Arg(1) > UInt32Max
     /\ Executed /\ status' = "running" =>
       /\ ~WholeSpace(memory') =>
            /\ DOMAIN memory'.data = 0..(PageBytes * memory'.cur_page_count - 1)
            /\ memory'.cur_page_count <= memory'.max_page_count
       /\ memory'.max_page_count = memory.max_page_count \/ WholeSpace(memory')
       /\ ins'.op = "grow" /\ Result("i32") # MinusOne =>
            /\ Result("i32") = memory.cur_page_count
            /\ ~WholeSpace(memory') => memory'.cur_page_count = Result("i32") + Arg(1)
            /\ WholeSpace(memory') /\ ~WholeSpace(memory) =>
                 memory.cur_page_count + Arg(1) = MaxPages
       /\ ins'.op = "grow" /\ Result("i32") = MinusOne => memory' = memory]_vars

(* What a native function is told about an address: a range that is valid  *)
(* for the module has a native address, valid as well and translated back  *)
(* to the same one, at each of its bytes, and no other range is valid.  An *)
(* empty range at the very end is valid and still has no native address.   *)
AddressesAgree ==
  ins = NoIns => \A app \in 0..UInt32Max :
    /\ (AppToNative(memory, app) # Nowhere) = (app \in DOMAIN memory.data)
    /\ (AppToNative(memory, app) # Nowhere) =>
         NativeToApp(memory, AppToNative(memory, app)) = app
    /\ \A n \in {0, 1, PageBytes, UInt32Max - 1, UInt32Max} :
         /\ ValidateAppAddr(memory, app, n) =
              (app + n <= Size(memory) /\ app..(app + n - 1) \subseteq DOMAIN memory.data)
         /\ ValidateAppAddr(memory, app, n) = ValidateNativeAddr(memory, app, n)
    /\ AppToNative(memory, app) = Nowhere => NativeToApp(memory, app) = 0
=============================================================================
