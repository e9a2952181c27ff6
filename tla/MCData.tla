------------------------------- MODULE MCData -------------------------------
(***************************************************************************)
(* A small instance of the computing instructions: bytes of two bits, so   *)
(* an i32 has 8 bits and an i64 16; pages of 16 bytes and at most 16.      *)
(***************************************************************************)
EXTENDS DataProperties

MCPrecision == [f32 |-> 6, f64 |-> 13]

(* Every encoding of up to three bytes for i32, which needs three, and     *)
(* longer ones of extreme payloads for i64, which needs six.               *)
Payloads == 0..(2 ^ Group - 1)
MCEncodings ==
  LET extreme == {0, 3, 4, 2 ^ Group - 1}
  IN [i32 |-> (UNION {[1..k -> Payloads] : k \in 1..3}) \cup [1..4 -> {0, 7}],
      i64 |-> (UNION {[1..k -> extreme] : k \in 1..5})
                \cup {s \in [1..6 -> Payloads] : \A k \in 2..4 : s[k] \in {0, 7}}
                \cup [1..7 -> {0, 7}]]

Edges(n) ==
  {0, 1, 2, 3, n - 1, n, n + 1} \cup
  {2 ^ (n - 1) + k : k \in -2..2} \cup {2 ^ n - k : k \in 1..4}

(* The floats with p significant bits whose magnitude is a number of       *)
(* halves, near powers of two.                                             *)
Representable(h, p) == h < 2 ^ p \/ \E e \in 1..20 : h \div 2 ^ e < 2 ^ p /\ h % 2 ^ e = 0
Near(n) == UNION {{2 ^ (n + 1) + k : k \in -4..4},
                  {2 ^ (n + 1) + 2 ^ e : e \in 3..n}, {2 ^ (n + 1) - 2 ^ e : e \in 3..n}}
Magnitudes(p) ==
  {h \in (0..5) \cup Near(7) \cup Near(8) \cup Near(15) \cup Near(16) : Representable(h, p)}
    \cup {Infinity, NaN}

MCBounds ==
  [t \in {"f32", "f64"} |->
     {Float(neg, mag) : neg \in {0, 1}, mag \in Magnitudes(Precision[t])}]

Few == {Float(neg, mag) : neg \in {0, 1}, mag \in {0, 1, 4, Infinity, NaN}}
MCSamples == [i32 |-> Edges(8), i64 |-> Edges(16), f32 |-> Few, f64 |-> Few]

MCMemories == {Instantiated(0, 3), Instantiated(1, 16)}

MCAccesses == {<<0, 0>>, <<5, 3>>, <<14, 0>>, <<12, 4>>, <<255, 2>>}
MCRanges == {<<0, 0, 3>>, <<6, 5, 3>>, <<5, 6, 2>>, <<15, 1, 1>>, <<30, 0, 2>>, <<16, 3, 0>>, <<3, 0, 4>>}
MCDeltas == {0, 1, 2, 15, 255}
=============================================================================
