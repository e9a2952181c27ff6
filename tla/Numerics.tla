------------------------------ MODULE Numerics ------------------------------
(***************************************************************************)
(* What the numeric handlers of the interpreter compute, on machine words  *)
(* of any size.  A byte has ByteBits bits, an i32 four bytes and an i64    *)
(* eight; an integer value is the unsigned reading of its bits.            *)
(*                                                                         *)
(* A float is its sign bit and its magnitude in halves; infinity is a      *)
(* magnitude above all others and NaN one above infinity.                  *)
(***************************************************************************)
EXTENDS Integers, Sequences, Bitwise

CONSTANTS
  ByteBits,     \* bits of a byte: 8
  Precision     \* significant bits: 24 for f32, 53 for f64

ASSUME ByteAssumption == ByteBits \in Nat \ {0}

(***************************************************************************)
(* Mantissas are shorter than the i64 they are truncated to, and only the  *)
(* one of f64 is longer than an i32.                                       *)
(***************************************************************************)
ASSUME PrecisionAssumption ==
  /\ Precision["f32"] < 4 * ByteBits
  /\ Precision["f64"] \in (4 * ByteBits + 1)..(8 * ByteBits - 1)

Bits(t) == IF t \in {"i32", "f32"} THEN 4 * ByteBits ELSE 8 * ByteBits
Words(n) == 0..(2 ^ n - 1)

Signed(v, n) == IF v >= 2 ^ (n - 1) THEN v - 2 ^ n ELSE v
Unsigned(v, n) == v % 2 ^ n

Value(v) == [ok |-> TRUE, value |-> v]
Trap == [ok |-> FALSE, value |-> 0]

-----------------------------------------------------------------------------
(* Integers: DEF_OP_NUMERIC, DEF_OP_NUMERIC2 and DEF_OP_NUMERIC2_64 *)

Abs(x) == IF x < 0 THEN -x ELSE x

(* The quotient of C drops the fraction.                                   *)
Quotient(x, y) ==
  IF (x < 0) = (y < 0) THEN Abs(x) \div Abs(y) ELSE -(Abs(x) \div Abs(y))

Lowest(n) == 2 ^ (n - 1)

ShiftLeft(a, c, n) == Unsigned(a * 2 ^ c, n)
ShiftRight(a, c) == a \div 2 ^ c

(* (0 - c) & mask, as the code finds the other half of a rotation.         *)
Opposite(c, n) == (0 - c) % n

RotateLeft(a, b, n) == ShiftLeft(a, b % n, n) | ShiftRight(a, Opposite(b % n, n))
RotateRight(a, b, n) == ShiftRight(a, b % n) | ShiftLeft(a, Opposite(b % n, n), n)

Arithmetic(op, a, b, n) ==
  CASE op = "add" -> Unsigned(a + b, n)
    [] op = "sub" -> Unsigned(a - b, n)
    [] op = "mul" -> Unsigned(Signed(a, n) * Signed(b, n), n)
    [] op = "and" -> a & b
    [] op = "or"  -> a | b
    [] op = "xor" -> a ^^ b
    [] op = "shl" -> ShiftLeft(a, b % n, n)
    [] op = "shr_u" -> ShiftRight(a, b % n)
    [] op = "shr_s" -> Unsigned(ShiftRight(Signed(a, n), b % n), n)
    [] op = "rotl" -> RotateLeft(a, b, n)
    [] op = "rotr" -> RotateRight(a, b, n)

DivS(a, b, n) ==
  IF (a = Lowest(n) /\ Signed(b, n) = -1) \/ b = 0 THEN Trap
  ELSE Value(Unsigned(Quotient(Signed(a, n), Signed(b, n)), n))

RemS(a, b, n) ==
  IF a = Lowest(n) /\ Signed(b, n) = -1 THEN Value(0)
  ELSE IF b = 0 THEN Trap
  ELSE LET x == Signed(a, n) y == Signed(b, n) IN Value(Unsigned(x - y * Quotient(x, y), n))

DivU(a, b, n) == IF b = 0 THEN Trap ELSE Value(a \div b)
RemU(a, b, n) == IF b = 0 THEN Trap ELSE Value(a % b)

Division(op, a, b, n) ==
  CASE op = "div_s" -> DivS(a, b, n)
    [] op = "rem_s" -> RemS(a, b, n)
    [] op = "div_u" -> DivU(a, b, n)
    [] op = "rem_u" -> RemU(a, b, n)

-----------------------------------------------------------------------------
(* Bit counts: the loops, for which a build may take built-in functions.   *)

Clz(a, n) ==
  LET num[v \in Words(n)] ==
        IF v & Lowest(n) # 0 THEN 0 ELSE 1 + num[ShiftLeft(v, 1, n)]
  IN IF a = 0 THEN n ELSE num[a]

Ctz(a, n) ==
  LET num[v \in Words(n)] == IF v & 1 # 0 THEN 0 ELSE 1 + num[ShiftRight(v, 1)]
  IN IF a = 0 THEN n ELSE num[a]

Popcount(a, n) ==
  LET ret[v \in Words(n)] == IF v = 0 THEN 0 ELSE 1 + ret[v & (v - 1)] IN ret[a]

BitCount(op, a, n) ==
  CASE op = "clz" -> Clz(a, n) [] op = "ctz" -> Ctz(a, n) [] op = "popcnt" -> Popcount(a, n)

-----------------------------------------------------------------------------
(* Sign extension: sign_ext_*, and the casts of the extend instructions.   *)

SignExt(v, from, to) ==
  IF v & Lowest(from) # 0 THEN Unsigned((v % 2 ^ from) - 2 ^ from, to) ELSE v % 2 ^ from

-----------------------------------------------------------------------------
(* Floats *)

Infinity == 2 ^ (8 * ByteBits + 3)
NaN == Infinity + 1

Float(neg, mag) == [neg |-> neg, mag |-> mag]
IsNaN(f) == f.mag = NaN
Halves(f) == IF f.neg = 1 THEN -f.mag ELSE f.mag

(* == of C: the zeros are equal.                                           *)
FEqual(a, b) == ~IsNaN(a) /\ ~IsNaN(b) /\ Halves(a) = Halves(b)
FLess(a, b) == ~IsNaN(a) /\ ~IsNaN(b) /\ Halves(a) < Halves(b)

FMin(a, b) ==
  IF IsNaN(a) \/ IsNaN(b) THEN Float(0, NaN)
  ELSE IF a.mag = 0 /\ b.mag = 0 THEN (IF a.neg = 1 THEN a ELSE b)
  ELSE IF FLess(b, a) THEN b ELSE a

FMax(a, b) ==
  IF IsNaN(a) \/ IsNaN(b) THEN Float(0, NaN)
  ELSE IF a.mag = 0 /\ b.mag = 0 THEN (IF a.neg = 1 THEN b ELSE a)
  ELSE IF FLess(b, a) THEN a ELSE b

Copysign(x, y) == Float(y.neg, x.mag)

(* DEF_OP_CMP on floats: C's operators, all but != false of a NaN.         *)
FCompare(op, a, b) ==
  CASE op = "eq" -> FEqual(a, b)
    [] op = "ne" -> ~FEqual(a, b)
    [] op = "lt" -> FLess(a, b)
    [] op = "gt" -> FLess(b, a)
    [] op = "le" -> FLess(a, b) \/ FEqual(a, b)
    [] op = "ge" -> FLess(b, a) \/ FEqual(a, b)

(* DEF_OP_CMP on integers: the operands are cast to the type named.        *)
Compare(op, a, b, n) ==
  CASE op = "eq" -> a = b
    [] op = "ne" -> a # b
    [] op = "lt_s" -> Signed(a, n) < Signed(b, n)
    [] op = "lt_u" -> a < b
    [] op = "gt_s" -> Signed(a, n) > Signed(b, n)
    [] op = "gt_u" -> a > b
    [] op = "le_s" -> Signed(a, n) <= Signed(b, n)
    [] op = "le_u" -> a <= b
    [] op = "ge_s" -> Signed(a, n) >= Signed(b, n)
    [] op = "ge_u" -> a >= b

-----------------------------------------------------------------------------
(* Truncation *)

(* Mutant: the least integer itself is excluded, which is what             *)
(* -2147483649.0f rounds to.                                               *)
SrcMinRounded(from, to, signed) == IF signed THEN -2 * 2 ^ (Bits(to) - 1) ELSE -2

(***************************************************************************)
(* The bounds written in the handlers, in halves.  Both are excluded: the  *)
(* lower one is the next float below the least integer of the type, which  *)
(* depends on the precision of the float.                                  *)
(***************************************************************************)
SrcMin(from, to, signed) ==
  LET n == Bits(to)
      ulp == IF Precision[from] < n THEN 2 ^ (n - Precision[from]) ELSE 1
  IN IF signed THEN -2 * (2 ^ (n - 1) + ulp) ELSE -2

SrcMax(to, signed) == 2 * (IF signed THEN 2 ^ (Bits(to) - 1) ELSE 2 ^ Bits(to))

DstMin(to, signed) == IF signed THEN 2 ^ (Bits(to) - 1) ELSE 0
DstMax(to, signed) == IF signed THEN 2 ^ (Bits(to) - 1) - 1 ELSE 2 ^ Bits(to) - 1

(* (dst_type)(signed_type)src_value: the fraction is dropped.              *)
Truncated(f) == Quotient(Halves(f), 2)

(* TRUNC_FUNCTION *)
Saturated(f, from, to, signed) ==
  IF IsNaN(f) THEN 0
  ELSE IF Halves(f) <= SrcMin(from, to, signed) THEN DstMin(to, signed)
  ELSE IF Halves(f) >= SrcMax(to, signed) THEN DstMax(to, signed)
  ELSE Unsigned(Truncated(f), Bits(to))

(* trunc_f32_to_int and trunc_f64_to_int                                   *)
TruncToInt(f, from, to, signed, saturating) ==
  IF ~saturating /\ (\/ IsNaN(f)
                     \/ Halves(f) <= SrcMin(from, to, signed)
                     \/ Halves(f) >= SrcMax(to, signed))
  THEN Trap
  ELSE Value(Saturated(f, from, to, signed))
=============================================================================
