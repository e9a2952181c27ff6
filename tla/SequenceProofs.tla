---------------------------- MODULE SequenceProofs ----------------------------
(***************************************************************************)
(* What the proofs need of numbers and sequences.  Induction over either is*)
(* stated with a set, so that it can be cited, and so is the existence of  *)
(* a function that is defined by recursion; and what FlattenSeq computes.  *)
(***************************************************************************)
EXTENDS SequencesExt, Integers, SequenceTheorems, FiniteSetTheorems,
        WellFoundedInduction, TLAPS

(* A set of natural numbers that is not empty has a least element.       *)
LEMMA LeastNumber ==
  ASSUME NEW S \in SUBSET Nat, S # {}
  PROVE  \E s \in S : \A r \in S : s <= r
<1> DEFINE F == FiniteSubsetsOf(Nat)
           R == StrictSubsetOrdering(Nat)
           T == {0 .. s : s \in S}
<1>1. IsWellFoundedOn(R, F)
  BY FS_StrictSubsetOrderingWellFounded
<1>2. T \subseteq F
  <2> SUFFICES ASSUME NEW s \in S PROVE 0 .. s \in F
    OBVIOUS
  <2>1. IsFiniteSet(0 .. s)
    BY FS_Interval
  <2> QED BY <2>1 DEF FiniteSubsetsOf
<1>3. T # {}
  OBVIOUS
<1> HIDE DEF F, R, T
<1>4. PICK x \in T : \A y \in T : ~ (<<y, x>> \in R)
  BY <1>1, <1>2, <1>3, WFMin
<1>5. PICK s \in S : x = 0 .. s
  BY <1>4 DEF T
<1>6. ASSUME NEW r \in S, ~ (s <= r)
      PROVE  FALSE
  <2>1. 0 .. r \in T
    BY DEF T
  <2>2. 0 .. r \in SUBSET (0 .. s) /\ 0 .. r # 0 .. s
    BY <1>6
  <2>3. <<0 .. r, 0 .. s>> \in R
    BY <2>2 DEF R, StrictSubsetOrdering
  <2> QED BY <2>1, <2>3, <1>4, <1>5
<1> QED BY <1>6

(* Induction over the natural numbers, stated with a set.                *)
LEMMA Induction ==
  ASSUME NEW P, 0 \in P, \A n \in Nat : n \in P => n + 1 \in P
  PROVE  Nat \subseteq P
<1> SUFFICES ASSUME Nat \ P # {} PROVE FALSE
  OBVIOUS
<1>1. PICK s \in Nat \ P : \A r \in Nat \ P : s <= r
  BY LeastNumber
<1>2. s # 0 /\ s - 1 \in Nat
  BY <1>1
<1>3. s - 1 \in P
  BY <1>1, <1>2
<1>4. s - 1 + 1 \in P
  BY <1>2, <1>3
<1> QED BY <1>1, <1>4

(* A set of numbers up to a bound has a greatest one.                      *)
LEMMA Greatest ==
  ASSUME NEW n \in Nat, NEW S \in SUBSET (0 .. n), S # {}
  PROVE  Max(S) \in S /\ \A x \in S : x <= Max(S)
<1> DEFINE T == {n - x : x \in S}
<1>1. T \in SUBSET Nat /\ T # {}
  <2>1. \A x \in S : n - x \in Nat
    OBVIOUS
  <2>2. PICK x \in S : TRUE
    OBVIOUS
  <2>3. n - x \in T
    OBVIOUS
  <2> QED BY <2>1, <2>3
<1>2. PICK t \in T : \A r \in T : t <= r
  BY <1>1, LeastNumber
<1>3. PICK s \in S : t = n - s
  BY <1>2
<1>4. ASSUME NEW x \in S PROVE x <= s
  <2>1. n - x \in T /\ x \in 0 .. n /\ s \in 0 .. n
    OBVIOUS
  <2>2. n - s <= n - x
    BY <1>2, <1>3, <2>1
  <2> HIDE DEF T
  <2> QED BY <2>1, <2>2
<1>5. \E x \in S : \A y \in S : x >= y
  BY <1>3, <1>4
<1>6. Max(S) \in S /\ \A y \in S : Max(S) >= y
  BY <1>5 DEF Max
<1> QED BY <1>6

(* Equations f = B[f] for a function on D whose value at x, a member of    *)
(* C[x], is determined by its values of a smaller rank ...                 *)
Ranked(D, S, C, rank, F, B) ==
  /\ C \in [D -> SUBSET S] /\ \A x \in D : C[x] # {}
  /\ rank \in [D -> Nat]
  /\ F = {f \in [D -> S] : \A x \in D : f[x] \in C[x]}
  /\ B \in [F -> F]
  /\ \A f, g \in F : \A x \in D :
       (\A y \in D : rank[y] < rank[x] => f[y] = g[y]) => B[f][x] = B[g][x]

(* ... have a solution.                                                    *)
LEMMA Recursion ==
  ASSUME NEW D, NEW S, NEW C, NEW rank, NEW F, NEW B, Ranked(D, S, C, rank, F, B)
  PROVE  \E f \in F : B[f] = f
<1> USE DEF Ranked
<1> DEFINE Fixed(f, n) == \A x \in D : rank[x] < n => B[f][x] = f[x]
           P == {n \in Nat : \E f \in F : Fixed(f, n)}
<1>0. \A f \in F : f \in [D -> S] /\ B[f] \in F
  OBVIOUS
<1>1. 0 \in P
  <2> DEFINE f == [x \in D |-> CHOOSE c \in C[x] : TRUE]
  <2>1. \A x \in D : f[x] \in C[x] /\ f[x] \in S
    OBVIOUS
  <2>2. f \in [D -> S]
    BY <2>1
  <2> HIDE DEF f
  <2>3. f \in F
    BY <2>1, <2>2
  <2>4. Fixed(f, 0)
    OBVIOUS
  <2> QED BY <2>3, <2>4
<1>2. ASSUME NEW n \in Nat, n \in P PROVE n + 1 \in P
  <2>1. PICK f \in F : Fixed(f, n)
    BY <1>2
  <2>2. B[f] \in F
    OBVIOUS
  <2>3. ASSUME NEW x \in D, rank[x] < n + 1 PROVE B[B[f]][x] = B[f][x]
    <3>1. \A y \in D : rank[y] < rank[x] => B[f][y] = f[y]
      <4> SUFFICES ASSUME NEW y \in D, rank[y] < rank[x] PROVE B[f][y] = f[y]
        OBVIOUS
      <4>1. rank[x] \in Nat /\ rank[y] \in Nat
        OBVIOUS
      <4>2. rank[y] < n
        BY <2>3, <4>1
      <4> QED BY <2>1, <4>2
    <3> QED BY <2>2, <3>1
  <2>4. Fixed(B[f], n + 1)
    BY <2>3
  <2> QED BY <2>2, <2>4
<1> HIDE DEF P
<1>3. Nat \subseteq P
  BY <1>1, <1>2, Induction
<1>4. \A n \in Nat : \E f \in F : Fixed(f, n)
  BY <1>3 DEF P
<1>5. ASSUME NEW f \in F, NEW g \in F, NEW n \in Nat, Fixed(f, n), Fixed(g, n), NEW z \in D, rank[z] < n
      PROVE  f[z] = g[z]
  <2> DEFINE Q == {k \in Nat : \A x \in D : rank[x] < k /\ rank[x] < n => f[x] = g[x]}
  <2>1. 0 \in Q
    OBVIOUS
  <2>2. ASSUME NEW k \in Nat, k \in Q PROVE k + 1 \in Q
    <3> SUFFICES ASSUME NEW x \in D, rank[x] < k + 1, rank[x] < n PROVE f[x] = g[x]
      OBVIOUS
    <3>1. \A y \in D : rank[y] < rank[x] => f[y] = g[y]
      <4> SUFFICES ASSUME NEW y \in D, rank[y] < rank[x] PROVE f[y] = g[y]
        OBVIOUS
      <4>1. rank[x] \in Nat /\ rank[y] \in Nat
        OBVIOUS
      <4>2. rank[y] < k /\ rank[y] < n
        BY <4>1
      <4> QED BY <2>2, <4>2
    <3>2. B[f][x] = B[g][x]
      BY <3>1
    <3> QED BY <1>5, <3>2
  <2> HIDE DEF Q
  <2>3. Nat \subseteq Q
    BY <2>1, <2>2, Induction
  <2>4. rank[z] + 1 \in Q /\ rank[z] \in Nat
    BY <2>3
  <2> QED BY <1>5, <2>4 DEF Q
<1> DEFINE A(n) == CHOOSE f \in F : Fixed(f, n)
           h == [x \in D |-> A(rank[x] + 1)[x]]
<1>6. \A n \in Nat : A(n) \in F /\ Fixed(A(n), n)
  BY <1>4, Zenon
<1> HIDE DEF A, Fixed
<1>7. h \in F
  <2>1. \A x \in D : A(rank[x] + 1) \in F
    BY <1>6
  <2>2. \A x \in D : h[x] \in C[x] /\ h[x] \in S
    BY <2>1
  <2>3. h \in [D -> S]
    BY <2>2
  <2> HIDE DEF h
  <2> QED BY <2>2, <2>3
<1>8. ASSUME NEW x \in D PROVE B[h][x] = h[x]
  <2> DEFINE f == A(rank[x] + 1)
  <2>1. rank[x] \in Nat /\ f \in F /\ Fixed(f, rank[x] + 1)
    BY <1>6
  <2>2. h[x] = f[x]
    OBVIOUS
  <2>3. B[f][x] = f[x]
    BY <2>1 DEF Fixed
  <2>4. ASSUME NEW y \in D, rank[y] < rank[x] PROVE h[y] = f[y]
    <3> DEFINE g == A(rank[y] + 1)
    <3>1. rank[y] \in Nat /\ g \in F /\ Fixed(g, rank[y] + 1)
      BY <1>6
    <3>2. Fixed(f, rank[y] + 1)
      <4> SUFFICES ASSUME NEW z \in D, rank[z] < rank[y] + 1 PROVE B[f][z] = f[z]
        BY DEF Fixed
      <4>1. rank[z] \in Nat
        OBVIOUS
      <4>2. rank[z] < rank[x] + 1
        BY <2>1, <2>4, <3>1, <4>1
      <4> QED BY <2>1, <4>2 DEF Fixed
    <3>3. h[y] = g[y]
      OBVIOUS
    <3> HIDE DEF f, g, h
    <3>4. g[y] = f[y]
      BY <1>5, <2>1, <3>1, <3>2
    <3> QED BY <3>3, <3>4
  <2> HIDE DEF f, h
  <2>5. B[h][x] = B[f][x]
    BY <1>7, <2>1, <2>4
  <2> QED BY <2>2, <2>3, <2>5
<1>9. B[h] = h
  <2>1. h \in [D -> S] /\ B[h] \in [D -> S]
    BY <1>0, <1>7
  <2> HIDE DEF h
  <2> QED BY <1>8, <2>1
<1> QED BY <1>7, <1>9

(* Induction along a rank, stated with a set.                              *)
LEMMA RankInduction ==
  ASSUME NEW D, NEW rank \in [D -> Nat], NEW P,
         \A x \in D : (\A y \in D : rank[y] < rank[x] => y \in P) => x \in P
  PROVE  D \subseteq P
<1> DEFINE Q == {n \in Nat : \A x \in D : rank[x] < n => x \in P}
<1>1. 0 \in Q
  OBVIOUS
<1>2. ASSUME NEW n \in Nat, n \in Q PROVE n + 1 \in Q
  <2> SUFFICES ASSUME NEW x \in D, rank[x] < n + 1 PROVE x \in P
    OBVIOUS
  <2>1. \A y \in D : rank[y] < rank[x] => rank[y] < n
    <3>1. rank[x] \in Nat /\ \A y \in D : rank[y] \in Nat
      OBVIOUS
    <3> QED BY <3>1
  <2> QED BY <1>2, <2>1
<1> HIDE DEF Q
<1>3. Nat \subseteq Q
  BY <1>1, <1>2, Induction
<1>4. \A x \in D : rank[x] \in Nat /\ rank[x] + 1 \in Q
  BY <1>3
<1> QED BY <1>4 DEF Q

(* Induction over the sequences on a set, by their last element.         *)
LEMMA SequenceInduction ==
  ASSUME NEW S, NEW P, <<>> \in P,
         \A s \in Seq(S), x \in S : s \in P => Append(s, x) \in P
  PROVE  Seq(S) \subseteq P
<1> DEFINE Q == {n \in Nat : \A s \in Seq(S) : Len(s) = n => s \in P}
<1>1. 0 \in Q
  <2> SUFFICES ASSUME NEW s \in Seq(S), Len(s) = 0 PROVE s \in P
    OBVIOUS
  <2>1. s = <<>>
    BY EmptySeq
  <2> QED BY <2>1
<1>2. ASSUME NEW n \in Nat, n \in Q
      PROVE  n + 1 \in Q
  <2> SUFFICES ASSUME NEW s \in Seq(S), Len(s) = n + 1 PROVE s \in P
    OBVIOUS
  <2> DEFINE front == SubSeq(s, 1, n)
             last  == s[n + 1]
  <2>1. front \in Seq(S) /\ Len(front) = n /\ last \in S
    OBVIOUS
  <2>2. s = Append(front, last)
    OBVIOUS
  <2> HIDE DEF front, last
  <2>3. front \in P
    BY <1>2, <2>1
  <2> QED BY <2>1, <2>2, <2>3
<1> HIDE DEF Q
<1>3. Nat \subseteq Q
  BY <1>1, <1>2, Induction
<1>4. ASSUME NEW s \in Seq(S) PROVE s \in P
  <2>1. Len(s) \in Q
    BY <1>3
  <2> QED BY <2>1 DEF Q
<1> QED BY <1>4

Flattens(f, seqs, n) ==
  f = [i \in 1 .. n |-> IF i = 1 THEN seqs[i] ELSE f[i - 1] \o seqs[i]]

(* The partial concatenations of a sequence of sequences exist.          *)
LEMMA FlattensExists ==
  ASSUME NEW seqs, NEW n \in Nat
  PROVE  \E f : Flattens(f, seqs, n)
<1> DEFINE P == {m \in Nat : \E f : Flattens(f, seqs, m)}
<1>1. 0 \in P
  <2> DEFINE f == [i \in {} |-> seqs]
  <2>0. f = [i \in 1 .. 0 |-> IF i = 1 THEN seqs[i] ELSE f[i - 1] \o seqs[i]]
    OBVIOUS
  <2>1. Flattens(f, seqs, 0)
    BY <2>0 DEF Flattens
  <2> QED BY <2>1
<1>2. ASSUME NEW m \in Nat, m \in P
      PROVE  m + 1 \in P
  <2>1. PICK f : Flattens(f, seqs, m)
    BY <1>2
  <2> DEFINE last == IF m = 0 THEN seqs[1] ELSE f[m] \o seqs[m + 1]
             g == [i \in 1 .. m + 1 |-> IF i = m + 1 THEN last ELSE f[i]]
             h == [i \in 1 .. m + 1 |-> IF i = 1 THEN seqs[i] ELSE g[i - 1] \o seqs[i]]
  <2>2. ASSUME NEW i \in 1 .. m + 1
        PROVE  g[i] = h[i]
    <3>1. CASE i = m + 1
      <4>1. g[i] = last
        BY <3>1
      <4>2. CASE m = 0
        BY <3>1, <4>1, <4>2
      <4>3. CASE m # 0
        <5>1. i # 1 /\ i - 1 = m /\ m \in 1 .. m + 1 /\ m # m + 1
          BY <3>1, <4>3
        <5>2. g[m] = f[m]
          BY <5>1
        <5> HIDE DEF g
        <5>3. h[i] = g[m] \o seqs[i]
          BY <5>1
        <5> QED BY <3>1, <4>1, <4>3, <5>2, <5>3
      <4> QED BY <4>2, <4>3
    <3>2. CASE i # m + 1
      <4>1. i \in 1 .. m /\ (i # 1 => i - 1 \in 1 .. m /\ i - 1 \in 1 .. m + 1 /\ i - 1 # m + 1)
        BY <3>2
      <4>2. f[i] = IF i = 1 THEN seqs[i] ELSE f[i - 1] \o seqs[i]
        BY <2>1, <4>1 DEF Flattens
      <4>3. g[i] = f[i] /\ (i # 1 => g[i - 1] = f[i - 1])
        BY <3>2, <4>1
      <4> HIDE DEF g
      <4> QED BY <4>2, <4>3
    <3> QED BY <3>1, <3>2
  <2>3. g = h
    BY <2>2
  <2> HIDE DEF g
  <2>4. Flattens(g, seqs, m + 1)
    BY <2>3 DEF Flattens
  <2> QED BY <2>4
<1> HIDE DEF P
<1>3. Nat \subseteq P
  BY <1>1, <1>2, Induction
<1> QED BY <1>3 DEF P

(* Sequences of sequences that begin alike have the same partial         *)
(* concatenations.                                                       *)
LEMMA FlattensUnique ==
  ASSUME NEW r, NEW s, NEW n \in Nat, NEW m \in Nat, NEW f, NEW g,
         Flattens(f, r, n), Flattens(g, s, m), NEW k \in 1 .. n, k <= m,
         \A i \in 1 .. k : r[i] = s[i]
  PROVE  f[k] = g[k]
<1> DEFINE P == {j \in Nat : j + 1 <= k => f[j + 1] = g[j + 1]}
<1>1. 0 \in P
  BY DEF Flattens
<1>2. ASSUME NEW j \in Nat, j \in P
      PROVE  j + 1 \in P
  <2> SUFFICES ASSUME j + 1 + 1 <= k PROVE f[j + 1 + 1] = g[j + 1 + 1]
    OBVIOUS
  <2> DEFINE i == j + 1 + 1
  <2>1. i \in 1 .. n /\ i \in 1 .. m /\ i # 1 /\ i - 1 = j + 1 /\ i \in 1 .. k
    OBVIOUS
  <2>2. f[j + 1] = g[j + 1]
    BY <1>2
  <2> HIDE DEF i
  <2>3. f[i] = f[j + 1] \o r[i] /\ g[i] = g[j + 1] \o s[i]
    BY <2>1 DEF Flattens
  <2> QED BY <2>1, <2>2, <2>3 DEF i
<1> HIDE DEF P
<1>3. Nat \subseteq P
  BY <1>1, <1>2, Induction
<1>4. k - 1 \in P /\ k - 1 + 1 = k
  BY <1>3
<1> QED BY <1>4 DEF P

(* FlattenSeq is the last of the partial concatenations.                 *)
LEMMA FlattenLast ==
  ASSUME NEW seqs, Len(seqs) \in Nat \ {0}
  PROVE  \E f : Flattens(f, seqs, Len(seqs)) /\ FlattenSeq(seqs) = f[Len(seqs)]
<1> DEFINE n == Len(seqs)
           f == CHOOSE f : f = [i \in 1 .. n |-> IF i = 1 THEN seqs[i] ELSE f[i - 1] \o seqs[i]]
<1>1. FlattenSeq(seqs) = f[n]
  BY Zenon DEF FlattenSeq
<1>2. \E g : g = [i \in 1 .. n |-> IF i = 1 THEN seqs[i] ELSE g[i - 1] \o seqs[i]]
  BY FlattensExists DEF Flattens
<1>3. f = [i \in 1 .. n |-> IF i = 1 THEN seqs[i] ELSE f[i - 1] \o seqs[i]]
  BY <1>2, Zenon
<1>4. Flattens(f, seqs, n)
  BY <1>3 DEF Flattens
<1> QED BY <1>1, <1>4

(* Nothing flattens to nothing.                                          *)
LEMMA FlattenEmpty == FlattenSeq(<<>>) = <<>>
<1>1. Len(<<>>) = 0
  OBVIOUS
<1> QED BY <1>1 DEF FlattenSeq

(* A sequence appended to others is appended to what they flatten to.    *)
LEMMA FlattenAppend ==
  ASSUME NEW S, NEW ss \in Seq(Seq(S)), NEW s \in Seq(S)
  PROVE  FlattenSeq(Append(ss, s)) = FlattenSeq(ss) \o s
<1> DEFINE n  == Len(ss)
           tt == Append(ss, s)
<1>1. /\ n \in Nat /\ Len(tt) = n + 1 /\ tt[n + 1] = s
      /\ \A i \in 1 .. n : tt[i] = ss[i]
  OBVIOUS
<1> HIDE DEF tt, n
<1>2. PICK f : Flattens(f, tt, n + 1) /\ FlattenSeq(tt) = f[n + 1]
  <2>1. Len(tt) \in Nat \ {0}
    BY <1>1
  <2>2. \E f : Flattens(f, tt, Len(tt)) /\ FlattenSeq(tt) = f[Len(tt)]
    BY <2>1, FlattenLast, ZenonT(30)
  <2> QED BY <1>1, <2>2, ZenonT(30)
<1>3. CASE n = 0
  <2>1. ss = <<>>
    BY <1>3 DEF n
  <2>2. f[1] = tt[1]
    BY <1>2, <1>3 DEF Flattens
  <2>3. FlattenSeq(ss) \o s = s
    BY <2>1, FlattenEmpty, ConcatEmptySeq
  <2> QED BY <1>1, <1>2, <1>3, <2>2, <2>3 DEF tt
<1>4. CASE n # 0
  <2>1. PICK g : Flattens(g, ss, n) /\ FlattenSeq(ss) = g[n]
    BY <1>1, <1>4, FlattenLast DEF n
  <2>2. g[n] = f[n]
    <3>1. n \in 1 .. n /\ n <= n + 1 /\ n + 1 \in Nat
      BY <1>1, <1>4
    <3> QED BY <1>1, <1>2, <2>1, <3>1, FlattensUnique
  <2>3. f[n + 1] = f[n] \o tt[n + 1]
    <3>1. n + 1 \in 1 .. n + 1 /\ n + 1 # 1 /\ n + 1 - 1 = n
      BY <1>1, <1>4
    <3>2. \A i \in 1 .. n + 1 : f[i] = IF i = 1 THEN tt[i] ELSE f[i - 1] \o tt[i]
      <4>1. f = [i \in 1 .. n + 1 |-> IF i = 1 THEN tt[i] ELSE f[i - 1] \o tt[i]]
        BY <1>2 DEF Flattens
      <4> QED BY <4>1, Zenon
    <3>3. ASSUME NEW j \in 1 .. n + 1, j # 1
          PROVE  f[j] = f[j - 1] \o tt[j]
      BY <3>2, <3>3, Zenon
    <3>4. ASSUME NEW j \in 1 .. n + 1, j = n + 1
          PROVE  f[j] = f[n] \o tt[j]
      <4>1. j # 1 /\ j - 1 = n
        BY <1>1, <3>4, <3>1
      <4>2. f[j] = f[j - 1] \o tt[j]
        BY <3>3, <4>1
      <4> QED BY <4>1, <4>2, Zenon
    <3> QED BY <3>1, <3>4, Zenon
  <2> QED BY <1>1, <1>2, <2>1, <2>2, <2>3 DEF tt
<1> QED BY <1>3, <1>4

(* Sequences on a set flatten to a sequence on it.                       *)
LEMMA FlattenType ==
  ASSUME NEW S, NEW ss \in Seq(Seq(S))
  PROVE  FlattenSeq(ss) \in Seq(S)
<1> DEFINE P == {n \in Nat : \A rr \in Seq(Seq(S)) : Len(rr) = n => FlattenSeq(rr) \in Seq(S)}
<1>1. 0 \in P
  <2> SUFFICES ASSUME NEW rr \in Seq(Seq(S)), Len(rr) = 0 PROVE FlattenSeq(rr) \in Seq(S)
    OBVIOUS
  <2>1. rr = <<>>
    BY EmptySeq
  <2> QED BY <2>1, FlattenEmpty, EmptySeq
<1>2. ASSUME NEW n \in Nat, n \in P
      PROVE  n + 1 \in P
  <2> SUFFICES ASSUME NEW rr \in Seq(Seq(S)), Len(rr) = n + 1 PROVE FlattenSeq(rr) \in Seq(S)
    OBVIOUS
  <2> DEFINE front == SubSeq(rr, 1, n)
             last  == rr[n + 1]
  <2>1. front \in Seq(Seq(S)) /\ Len(front) = n /\ last \in Seq(S)
    OBVIOUS
  <2>2. rr = Append(front, last)
    OBVIOUS
  <2> HIDE DEF front, last
  <2>3. FlattenSeq(rr) = FlattenSeq(front) \o last
    BY <2>1, <2>2, FlattenAppend
  <2>4. FlattenSeq(front) \in Seq(S)
    BY <1>2, <2>1
  <2> QED BY <2>1, <2>3, <2>4
<1> HIDE DEF P
<1>3. Nat \subseteq P
  BY <1>1, <1>2, Induction
<1>4. Len(ss) \in P
  BY <1>3
<1> QED BY <1>4 DEF P

=============================================================================
