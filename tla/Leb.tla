--------------------------------- MODULE Leb ---------------------------------
(***************************************************************************)
(* The variable-length integers of the binary format, decoded twice: by    *)
(* read_leb of the validator, which may refuse them, and by the loops of   *)
(* the interpreter, which trust that it did.                               *)
(*                                                                         *)
(* A number is the sequence of the Group-bit payloads of its bytes; that a *)
(* byte has the continuation bit says only that it is not the last one.    *)
(* The width n of the type stands for 32 or 64.                            *)
(***************************************************************************)
EXTENDS Integers, Sequences, SequencesExt

CONSTANT Group    \* payload bits of a byte: 7

ASSUME GroupAssumption == Group \in Nat \ {0}

(* The payloads put together, the least significant first.                 *)
Gathered(bytes) ==
  FoldLeftDomain(LAMBDA sum, i : sum + bytes[i] * 2 ^ (Group * (i - 1)), 0, bytes)

Shift(bytes) == Group * Len(bytes)

(* Bit 0x40 of the last byte.                                              *)
SignBit(bytes) == Last(bytes) >= 2 ^ (Group - 1)

(* result |= (~((uint64)0)) << shift, seen through the cast to n bits.     *)
Extended(bytes, n) == (Gathered(bytes) - 2 ^ Shift(bytes)) % 2 ^ n

-----------------------------------------------------------------------------
(* The validator *)

Fail == [ok |-> FALSE, value |-> 0]
Read(v) == [ok |-> TRUE, value |-> v]

(* maxloopcount + 1: five bytes for 32 bits, ten for 64.                   *)
MaxBytes(n) == (n + Group - 1) \div Group

ReadVaruint(bytes, n) ==
  IF Len(bytes) > MaxBytes(n) \/ Gathered(bytes) >= 2 ^ n THEN Fail ELSE Read(Gathered(bytes))

(* over_bits are the bits from the sign on; of a number of the greatest    *)
(* length they must all be equal.                                          *)
ReadVarint32(bytes, n) ==
  LET over == Gathered(bytes) - (Gathered(bytes) % 2 ^ (n - 1))
      all == 2 ^ (Group * MaxBytes(n)) - 2 ^ (n - 1)
  IN IF Len(bytes) > MaxBytes(n) \/ over \notin {0, all} THEN Fail
     ELSE IF over = all \/ SignBit(bytes) THEN Read(Extended(bytes, n))
     ELSE Read(Gathered(bytes))

(* Of the last byte of the greatest length one bit belongs to the number.  *)
ReadVarint64(bytes, n) ==
  IF Len(bytes) > MaxBytes(n) THEN Fail
  ELSE IF Shift(bytes) < n
       THEN Read(IF SignBit(bytes) THEN Extended(bytes, n) ELSE Gathered(bytes))
  ELSE IF Last(bytes) \in {0, 2 ^ Group - 1} THEN Read(Gathered(bytes) % 2 ^ n)
  ELSE Fail

-----------------------------------------------------------------------------
(* The interpreter *)

(* One byte, or a loop whose result is extended only below the width.      *)
FastSigned(bytes, n) ==
  IF SignBit(bytes) /\ (Len(bytes) = 1 \/ Shift(bytes) < n)
  THEN Extended(bytes, n)
  ELSE Gathered(bytes) % 2 ^ n

FastUnsigned(bytes, n) == Gathered(bytes) % 2 ^ n
=============================================================================
