----------------------------- MODULE WasiProofs ------------------------------
(***************************************************************************)
(* Proofs about the WASI calls.  The invariant CallInv says that a call    *)
(* that runs stands at a place of an outline of its program (WasiOutlines) *)
(* and has exactly what the outline says.  Path lookups, polls and         *)
(* listings have parts of it for the place in their loops; and path_get    *)
(* is shown to implement the walk of PathResolution.                       *)
(***************************************************************************)
EXTENDS WasiOutlines

----------------------------------------------------------------------------
(* The walk over a path                                                    *)

Below == Directories \ Outside
Pcs == {"idle", "loop", "readlink", "success", "fail"}

(* A name that a directory can have in it, and one that a lease can have.  *)
Named(n) == n \notin {"", ".", ".."}
Nameable(n) == n \notin {"", ".."}

Fields == {"pc", "follow", "needsFinal", "fds", "paths", "expansions", "file"}
Shaped(l) == l = [x \in Fields |-> l[x]]

(* The locals of path_get.  The directories on the stack are below the     *)
(* preopened one; what is to be read as a link is a name; and a lookup     *)
(* that has found its file has one path string at most.                    *)
Walking(l) ==
  /\ Shaped(l) /\ l.pc \in Pcs
  /\ l.fds \in Seq(Below) /\ l.paths \in Seq(Seq(Components))
  /\ l.file \in Components /\ Nameable(l.file.name)
  /\ l.pc = "idle" => l = NoLookup
  /\ l.pc # "idle" => Len(l.fds) >= 1
  /\ l.pc \in {"loop", "readlink"} => Len(l.paths) >= 1
  /\ l.pc = "readlink" => Named(l.file.name)
  /\ l.pc = "success" => Len(l.paths) <= 1

(* What a lookup has, by kind.                                             *)
Looked(l) ==
  [kind \in Kinds |->
     IF l.pc = "idle" THEN 0 ELSE
     IF kind = "blocks" THEN Len(l.paths) ELSE
     IF kind = "dirs" THEN Len(l.fds) - 1 ELSE
     IF kind = "references" THEN 1 ELSE 0]

Counts == [Kinds -> Int]

(* From h and l to g and m, what is held changes as the lookup needs.      *)
Keeps(h, l, g, m) ==
  g \in Counts /\ \A kind \in Kinds : g[kind] - Looked(m)[kind] = h[kind] - Looked(l)[kind]

(* Counting one kind up or down.                                           *)
LEMMA CountingUp ==
  ASSUME NEW h, h \in Counts, NEW kind, kind \in Kinds, NEW n, n \in Int
  PROVE  /\ Plus(h, kind, n) \in Counts
         /\ \A k \in Kinds : Plus(h, kind, n)[k] = IF k = kind THEN h[k] + n ELSE h[k]
BY DEF Counts, Plus

(* Some of a kind are taken away.                                          *)
LEMMA CountingDown ==
  ASSUME NEW h, h \in Counts, NEW kind, kind \in Kinds, NEW n, n \in Int
  PROVE  /\ Minus(h, kind, n) \in Counts
         /\ \A k \in Kinds : Minus(h, kind, n)[k] = IF k = kind THEN h[k] - n ELSE h[k]
BY DEF Counts, Minus

(* How many there are of a kind is a number.                               *)
LEMMA CountsAre ==
  ASSUME NEW h, h \in Counts
  PROVE  \A k \in Kinds : h[k] \in Int
BY DEF Counts

(* The kinds.                                                              *)
LEMMA KindsAre == /\ "blocks" \in Kinds /\ "dirs" \in Kinds /\ "references" \in Kinds
                  /\ "locks" \in Kinds /\ "fds" \in Kinds
BY DEF Kinds

(* The parts of a sequence.                                                *)
LEMMA Nil == ASSUME NEW S PROVE <<>> \in Seq(S) /\ Len(<<>>) = 0
OBVIOUS

(* A sequence with an element is as long as one.                           *)
LEMMA NotNil ==
  ASSUME NEW S, NEW s, s \in Seq(S)
  PROVE  Len(s) \in Nat /\ (s # <<>> <=> Len(s) >= 1)
OBVIOUS

(* The ends of a sequence.                                                 *)
LEMMA Parts ==
  ASSUME NEW S, NEW s, s \in Seq(S), s # <<>>
  PROVE  Len(s) \in Nat \ {0} /\ s[Len(s)] \in S /\ Head(s) \in S /\ Tail(s) \in Seq(S)
OBVIOUS

(* All of a sequence but its last element.                                 *)
LEMMA ButlastIs ==
  ASSUME NEW S, NEW s, s \in Seq(S), s # <<>>
  PROVE  Butlast(s) \in Seq(S) /\ Len(Butlast(s)) = Len(s) - 1
<1> DEFINE n == Len(s)
<1>1. n \in Nat \ {0} /\ \A i \in 1 .. n : s[i] \in S
  OBVIOUS
<1> HIDE DEF n
<1>2. Len(SubSeq(s, 1, n - 1)) = IF 1 <= n - 1 THEN n - 1 - 1 + 1 ELSE 0
  BY <1>1, SubSeqProperties
<1>3. (IF 1 <= n - 1 THEN n - 1 - 1 + 1 ELSE 0) = n - 1
  BY <1>1
<1>4. SubSeq(s, 1, n - 1) \in Seq(S)
  BY <1>1, SubSeqProperties
<1> QED BY <1>2, <1>3, <1>4 DEF n, Butlast

(* A sequence with one more element.                                       *)
LEMMA Appending ==
  ASSUME NEW S, NEW s, s \in Seq(S), NEW x, x \in S
  PROVE  Append(s, x) \in Seq(S) /\ Len(Append(s, x)) = Len(s) + 1 /\ Append(s, x)[Len(s) + 1] = x
OBVIOUS

(* What a name stands for.                                                 *)
LEMMA EntryIs ==
  ASSUME NEW f, f \in FileSystems, NEW d, d \in Below, NEW n, n \in Names
  PROVE  /\ f[d][n].kind = "directory" /\ Named(n) => f[d][n].id \in Below
         /\ f[d][n].kind = "link" => f[d][n].target \in Seq(Components)
<1>1. f \in [Directories -> [Names -> Nodes]] /\ d \in Directories
  BY PathLookupAssumption DEF Below
<1>2. f[d][n] \in Nodes
  BY <1>1
<1>3. f[d][n].kind = "directory" => f[d][n].id \in Directories
  BY <1>2 DEF Nodes
<1>4. f[d][n].kind = "link" => f[d][n].target \in Seq(Components)
  BY <1>2 DEF Nodes
<1>5. f[d][n].kind = "directory" /\ Named(n) => f[d][n].id \notin Outside
  <2>1. Named(n) => n \in Names \ {"", ".", ".."}
    BY DEF Named
  <2>2. d \in Directories \ Outside
    BY DEF Below
  <2> QED BY <2>1, <2>2, Zenon, OutsideAssumption
<1> QED BY <1>3, <1>4, <1>5 DEF Below

(* "." is a component, and a name that a lease can have.                   *)
LEMMA DotIs == Dot \in Components /\ Nameable(Dot.name)
<1>1. Dot \in Components /\ Dot.name = "."
  BY DEF Dot, Components
<1>2. Nameable(".")
  BY DEF Nameable
<1> QED BY <1>1, <1>2

(* Names by what they are not.                                             *)
LEMMA NamesAre ==
  ASSUME NEW x, x \in Components
  PROVE  /\ Named(x.name) => x.name \in Names /\ Nameable(x.name)
         /\ x.name \notin {"", ".", ".."} => Named(x.name)
<1>1. x.name \in Names \cup {"", ".", ".."}
  BY DEF Components
<1> QED BY <1>1, Zenon DEF Named, Nameable

(* No lookup.                                                              *)
LEMMA NoWalk == Walking(NoLookup)
<1>1. Shaped(NoLookup)
  BY DEF NoLookup, Fields, Shaped
<1>2. NoLookup.pc = "idle" /\ NoLookup.fds = <<>> /\ NoLookup.paths = <<>> /\ NoLookup.file = Dot
  BY DEF NoLookup
<1>3. NoLookup.fds \in Seq(Below) /\ NoLookup.paths \in Seq(Seq(Components))
  BY <1>2, Nil
<1> QED BY <1>1, <1>2, <1>3, DotIs DEF Walking, Pcs

(* What there is to know of a lookup, and to show.                         *)
LEMMA WalkIs ==
  ASSUME NEW l, Walking(l), l.pc # "idle"
  PROVE  /\ Shaped(l) /\ l.pc \in Pcs
         /\ l.fds \in Seq(Below) /\ Len(l.fds) \in Nat \ {0}
         /\ l.paths \in Seq(Seq(Components)) /\ Len(l.paths) \in Nat
         /\ l.file \in Components /\ Nameable(l.file.name)
         /\ l.pc \in {"loop", "readlink"} => l.paths # <<>>
<1>1. /\ Shaped(l) /\ l.pc \in Pcs /\ l.fds \in Seq(Below) /\ Len(l.fds) >= 1
      /\ l.paths \in Seq(Seq(Components)) /\ l.file \in Components /\ Nameable(l.file.name)
      /\ l.pc \in {"loop", "readlink"} => Len(l.paths) >= 1
  BY DEF Walking
<1>2. Len(l.fds) \in Nat \ {0}
  BY <1>1, NotNil
<1>3. Len(l.paths) \in Nat /\ (l.paths # <<>> <=> Len(l.paths) >= 1)
  BY <1>1, NotNil
<1> QED BY <1>1, <1>2, <1>3

(* What makes a lookup that has begun well-formed.                         *)
LEMMA Walks ==
  ASSUME NEW l, Shaped(l), l.pc \in Pcs \ {"idle"},
         l.fds \in Seq(Below), Len(l.fds) \in Nat \ {0}, l.paths \in Seq(Seq(Components)),
         l.file \in Components, Nameable(l.file.name),
         l.pc \in {"loop", "readlink"} => Len(l.paths) >= 1,
         l.pc = "readlink" => Named(l.file.name),
         l.pc = "success" => Len(l.paths) <= 1
  PROVE  Walking(l)
<1>1. Len(l.fds) >= 1
  OBVIOUS
<1> QED BY <1>1 DEF Walking

(* The component that is read.                                             *)
LEMMA TopRead ==
  ASSUME NEW t, Walking(lk), lk.pc = "loop", Top # <<>>, t = Taken
  PROVE  /\ Top \in Seq(Components) /\ File \in Components
         /\ t \in Seq(Seq(Components)) /\ Len(t) = Len(lk.paths) /\ Len(lk.paths) \in Nat \ {0}
         /\ t[Len(t)] = Tail(Top)
<1>1. lk.paths \in Seq(Seq(Components)) /\ lk.paths # <<>>
  BY WalkIs
<1>2. /\ Len(lk.paths) \in Nat \ {0} /\ Top \in Seq(Components)
      /\ Butlast(lk.paths) \in Seq(Seq(Components)) /\ Len(Butlast(lk.paths)) = Len(lk.paths) - 1
  BY <1>1, Parts, ButlastIs DEF Top
<1>3. File \in Components /\ Tail(Top) \in Seq(Components)
  BY <1>2, Parts DEF File
<1> DEFINE b == Butlast(lk.paths)
           x == Tail(Top)
<1>4. t = Append(b, x)
  BY DEF Taken
<1>5. b \in Seq(Seq(Components)) /\ x \in Seq(Components) /\ Len(b) + 1 = Len(lk.paths)
  BY <1>2, <1>3
<1> HIDE DEF b, x
<1>6. t \in Seq(Seq(Components)) /\ Len(t) = Len(lk.paths) /\ t[Len(t)] = x
  BY <1>4, <1>5, Appending
<1> QED BY <1>2, <1>3, <1>6 DEF x

(* Two lookups, one after the other: what is held has changed as much as   *)
(* what they have.                                                         *)
LEMMA KeepsBlocks ==
  ASSUME NEW h, h \in Counts, NEW l, NEW m, l.pc # "idle", m.pc # "idle",
         Len(l.paths) \in Int, Len(m.paths) \in Int, Len(m.fds) = Len(l.fds), NEW g, g \in Counts,
         \A k \in Kinds : g[k] = IF k = "blocks" THEN h[k] + (Len(m.paths) - Len(l.paths)) ELSE h[k]
  PROVE  Keeps(h, l, g, m)
<1> DEFINE i == Len(l.paths)  j == Len(m.paths)
<1>0. i \in Int /\ j \in Int
  OBVIOUS
<1>1. \A k \in Kinds : h[k] \in Int
  BY CountsAre
<1>2. ASSUME NEW k, k \in Kinds PROVE g[k] - Looked(m)[k] = h[k] - Looked(l)[k]
  <2>1. CASE k = "blocks"
    <3>1. Looked(l)[k] = i /\ Looked(m)[k] = j
      BY <1>2, <2>1 DEF Looked
    <3>2. g[k] = h[k] + (j - i)
      BY <1>2, <2>1
    <3> HIDE DEF i, j
    <3> QED BY <1>0, <1>1, <1>2, <3>1, <3>2
  <2>2. CASE k # "blocks"
    <3>1. Looked(l)[k] = Looked(m)[k]
      BY <1>2, <2>2 DEF Looked
    <3>2. g[k] = h[k]
      BY <1>2, <2>2
    <3> QED BY <3>1, <3>2
  <2> QED BY <2>1, <2>2
<1> QED BY <1>2 DEF Keeps

(* What is held follows the stack of directories ...                       *)
LEMMA KeepsDirs ==
  ASSUME NEW h, h \in Counts, NEW l, NEW m, l.pc # "idle", m.pc # "idle",
         Len(l.fds) \in Int, Len(m.fds) \in Int, Len(m.paths) = Len(l.paths), NEW g, g \in Counts,
         \A k \in Kinds : g[k] = IF k = "dirs" THEN h[k] + (Len(m.fds) - Len(l.fds)) ELSE h[k]
  PROVE  Keeps(h, l, g, m)
<1> DEFINE i == Len(l.fds)  j == Len(m.fds)
<1>0. i \in Int /\ j \in Int
  OBVIOUS
<1>1. \A k \in Kinds : h[k] \in Int
  BY CountsAre
<1>2. ASSUME NEW k, k \in Kinds PROVE g[k] - Looked(m)[k] = h[k] - Looked(l)[k]
  <2>1. CASE k = "dirs"
    <3>1. Looked(l)[k] = i - 1 /\ Looked(m)[k] = j - 1
      BY <1>2, <2>1 DEF Looked
    <3>2. g[k] = h[k] + (j - i)
      BY <1>2, <2>1
    <3> HIDE DEF i, j
    <3> QED BY <1>0, <1>1, <1>2, <3>1, <3>2
  <2>2. CASE k # "dirs"
    <3>1. Looked(l)[k] = Looked(m)[k]
      BY <1>2, <2>2 DEF Looked
    <3>2. g[k] = h[k]
      BY <1>2, <2>2
    <3> QED BY <3>1, <3>2
  <2> QED BY <2>1, <2>2
<1> QED BY <1>2 DEF Keeps

(* ... stays when neither stack changes ...                                *)
LEMMA KeepsAll ==
  ASSUME NEW h, h \in Counts, NEW l, NEW m, l.pc # "idle", m.pc # "idle",
         Len(m.fds) = Len(l.fds), Len(m.paths) = Len(l.paths)
  PROVE  Keeps(h, l, h, m)
BY DEF Keeps, Looked

(* ... and follows them through two changes.                               *)
LEMMA KeepsThen ==
  ASSUME NEW h, NEW l, NEW g, NEW m, NEW f, NEW n, Keeps(h, l, g, m), Keeps(g, m, f, n)
  PROVE  Keeps(h, l, f, n)
BY DEF Keeps

(* The end of a turn of the loop.                                          *)
LEMMA TurnEnds ==
  ASSUME NEW l, Walking(l), l.pc = "loop", NEW h, h \in Counts, EndOfTurn(l, h)
  PROVE  Walking(lk') /\ lk'.pc # "idle" /\ Keeps(h, l, held', lk')
<1> DEFINE p == l.paths
           n == Len(p)
           e == Butlast(p)
           m == lk'
           g == held'
<1>1. /\ n \in Nat \ {0} /\ e \in Seq(Seq(Components)) /\ Len(e) = n - 1
  BY WalkIs, Parts, ButlastIs
<1>2. /\ l.fds \in Seq(Below) /\ Len(l.fds) \in Nat \ {0} /\ Shaped(l)
      /\ l.file \in Components /\ Nameable(l.file.name)
  BY WalkIs
<1>3. CASE p[n] # <<>>
  <2>1. m = l /\ g = h
    BY <1>3 DEF EndOfTurn
  <2> QED BY <2>1, KeepsAll
<1>6. /\ Minus(h, "blocks", 1) \in Counts
      /\ \A k \in Kinds : Minus(h, "blocks", 1)[k] = IF k = "blocks" THEN h[k] + (n - 1 - n) ELSE h[k]
  <2>1. n - 1 - n = 0 - 1
    BY <1>1
  <2>2. /\ Minus(h, "blocks", 1) \in Counts
        /\ \A k \in Kinds : Minus(h, "blocks", 1)[k] = IF k = "blocks" THEN h[k] - 1 ELSE h[k]
    BY CountingDown, KindsAre
  <2> HIDE DEF n
  <2> QED BY <2>1, <2>2, CountsAre
<1>7. p[n] = <<>> => g = Minus(h, "blocks", 1)
  BY DEF EndOfTurn
<1>4. CASE p[n] = <<>> /\ n = 1
  <2> DEFINE o == <<>>
  <2>0. o \in Seq(Seq(Components)) /\ Len(o) = 0
    BY Nil
  <2>1. m = [l EXCEPT !.pc = "success", !.paths = o]
    BY <1>4 DEF EndOfTurn
  <2> HIDE DEF o, m
  <2>2. m.pc = "success" /\ m.paths = o /\ m.fds = l.fds /\ m.file = l.file /\ Shaped(m)
    BY <1>2, <2>1 DEF Shaped, Fields
  <2>3. Len(m.paths) = n - 1 /\ m.paths \in Seq(Seq(Components)) /\ Len(m.paths) <= 1
    BY <1>4, <2>0, <2>2
  <2>4. m.pc \in Pcs \ {"idle"} /\ m.pc \notin {"loop", "readlink"} /\ m.pc # "readlink" /\ m.pc # "idle"
    BY <2>2 DEF Pcs
  <2> HIDE DEF n, p, g
  <2>5. Walking(m)
    BY <1>2, <2>2, <2>3, <2>4, Walks
  <2>6. g \in Counts /\ \A k \in Kinds : g[k] = IF k = "blocks" THEN h[k] + (n - 1 - n) ELSE h[k]
    BY <1>4, <1>6, <1>7
  <2>7. Keeps(h, l, g, m)
    <3>1. Len(l.paths) = n /\ Len(l.paths) \in Int /\ Len(m.paths) \in Int
      BY <1>1, <2>3 DEF n, p
    <3>2. g \in Counts /\ \A k \in Kinds : g[k] = IF k = "blocks" THEN h[k] + (Len(m.paths) - Len(l.paths)) ELSE h[k]
      BY <2>6, <2>3, <3>1
    <3>3. Len(m.fds) = Len(l.fds) /\ l.pc # "idle" /\ m.pc # "idle"
      BY <2>2, <2>4
    <3> QED BY ONLY <3>1, <3>2, <3>3, h \in Counts, KeepsBlocks
  <2> QED BY <2>4, <2>5, <2>7 DEF m, g
<1>5. CASE p[n] = <<>> /\ n # 1
  <2>1. m = [l EXCEPT !.paths = e]
    BY <1>5 DEF EndOfTurn
  <2> HIDE DEF e, m
  <2>2. m.pc = "loop" /\ m.paths = e /\ m.fds = l.fds /\ m.file = l.file /\ Shaped(m)
    BY <1>2, <2>1 DEF Shaped, Fields
  <2> HIDE DEF n, p, g
  <2>0. n # 1
    BY <1>5
  <2>3. Len(e) >= 1
    BY <1>1, <2>0
  <2>8. Len(m.paths) = n - 1 /\ m.paths \in Seq(Seq(Components)) /\ Len(m.paths) >= 1
    BY <1>1, <2>2, <2>3
  <2>4. m.pc \in Pcs \ {"idle"} /\ m.pc # "readlink" /\ m.pc # "success" /\ m.pc # "idle"
    BY <2>2 DEF Pcs
  <2>5. Walking(m)
    BY <1>2, <2>2, <2>8, <2>4, Walks
  <2>6. g \in Counts /\ \A k \in Kinds : g[k] = IF k = "blocks" THEN h[k] + (n - 1 - n) ELSE h[k]
    BY <1>5, <1>6, <1>7
  <2>7. Keeps(h, l, g, m)
    <3>1. Len(l.paths) = n /\ Len(l.paths) \in Int /\ Len(m.paths) \in Int
      BY <1>1, <2>8 DEF n, p
    <3>2. g \in Counts /\ \A k \in Kinds : g[k] = IF k = "blocks" THEN h[k] + (Len(m.paths) - Len(l.paths)) ELSE h[k]
      BY <2>6, <2>8, <3>1
    <3>3. Len(m.fds) = Len(l.fds) /\ l.pc # "idle" /\ m.pc # "idle"
      BY <2>2, <2>4
    <3> QED BY ONLY <3>1, <3>2, <3>3, h \in Counts, KeepsBlocks
  <2> QED BY <2>4, <2>5, <2>7 DEF m, g
<1> QED BY <1>3, <1>4, <1>5

(* A lookup that fails keeps what it has.                                  *)
LEMMA WalkFails ==
  ASSUME NEW l, Walking(l), l.pc # "idle", NEW h, h \in Counts, Failed(l, h)
  PROVE  Walking(lk') /\ lk'.pc # "idle" /\ Keeps(h, l, held', lk')
<1> DEFINE m == lk'
<1>1. m = [l EXCEPT !.pc = "fail"] /\ held' = h
  BY DEF Failed
<1>2. /\ Len(l.fds) \in Nat \ {0} /\ l.fds \in Seq(Below) /\ Shaped(l)
      /\ l.paths \in Seq(Seq(Components)) /\ l.file \in Components /\ Nameable(l.file.name)
  BY WalkIs
<1> HIDE DEF m
<1>3. m.pc = "fail" /\ m.paths = l.paths /\ m.fds = l.fds /\ m.file = l.file /\ Shaped(m)
  BY <1>1, <1>2 DEF Shaped, Fields
<1>4. Walking(m)
  BY <1>2, <1>3, Walks DEF Pcs
<1>5. Keeps(h, l, h, m)
  BY <1>3, KeepsAll
<1> QED BY <1>1, <1>3, <1>4, <1>5 DEF m

----------------------------------------------------------------------------
(* The turns of the loop                                                   *)

Walked == Walking(lk') /\ lk'.pc # "idle" /\ Keeps(held, lk, held', lk')

(* What the turns begin with.                                              *)
LEMMA TurnBegins ==
  ASSUME NEW t, Walking(lk), Looping, t = Taken
  PROVE  /\ Shaped(lk) /\ lk.pc = "loop" /\ Top # <<>>
         /\ lk.fds \in Seq(Below) /\ Len(lk.fds) \in Nat \ {0}
         /\ lk.file \in Components /\ Nameable(lk.file.name)
         /\ t \in Seq(Seq(Components)) /\ Len(t) = Len(lk.paths) /\ Len(t) >= 1
         /\ File \in Components
<1>1. lk.pc = "loop" /\ Top # <<>>
  BY Zenon DEF Looping
<1>2. /\ Shaped(lk) /\ lk.fds \in Seq(Below) /\ Len(lk.fds) \in Nat \ {0}
      /\ lk.file \in Components /\ Nameable(lk.file.name)
  BY <1>1, WalkIs
<1>3. /\ t \in Seq(Seq(Components)) /\ Len(t) = Len(lk.paths) /\ Len(lk.paths) \in Nat \ {0}
      /\ File \in Components
  BY <1>1, TopRead
<1>4. Len(t) >= 1
  <2> DEFINE n == Len(lk.paths)
  <2>1. n \in Nat \ {0} /\ Len(t) = n
    BY <1>3
  <2> HIDE DEF n
  <2> QED BY <2>1
<1> QED BY <1>1, <1>2, <1>3, <1>4

(* The loop with other stacks, at the end of a turn.                       *)
LEMMA LoopWalks ==
  ASSUME NEW m, Shaped(m), m.pc = "loop", m.fds \in Seq(Below), Len(m.fds) \in Nat \ {0},
         m.file \in Components, Nameable(m.file.name),
         m.paths \in Seq(Seq(Components)), Len(m.paths) >= 1
  PROVE  Walking(m) /\ m.pc # "idle"
<1>1. m.pc \in Pcs \ {"idle"} /\ m.pc # "readlink" /\ m.pc # "success" /\ m.pc # "idle"
  BY DEF Pcs
<1> QED BY <1>1, Walks

(* The end of a turn of the loop, from what it has made.                   *)
LEMMA TurnFrom ==
  ASSUME NEW m, Walking(m), m.pc = "loop", NEW h, h \in Counts, EndOfTurn(m, h),
         Keeps(held, lk, h, m)
  PROVE  Walked
<1>1. Walking(lk') /\ lk'.pc # "idle" /\ Keeps(h, m, held', lk')
  BY TurnEnds
<1> QED BY <1>1, KeepsThen DEF Walked

(* The end of a lookup that fails.                                         *)
LEMMA FailFrom ==
  ASSUME NEW m, Walking(m), m.pc # "idle", NEW h, h \in Counts, Failed(m, h),
         Keeps(held, lk, h, m)
  PROVE  Walked
<1>1. Walking(lk') /\ lk'.pc # "idle" /\ Keeps(h, m, held', lk')
  BY WalkFails
<1> QED BY <1>1, KeepsThen DEF Walked

(* The component is taken.                                                 *)
LEMMA TakenWalks ==
  ASSUME NEW m, Walking(lk), Looping, held \in Counts, m = [lk EXCEPT !.paths = Taken]
  PROVE  /\ Walking(m) /\ Keeps(held, lk, held, m)
         /\ Shaped(m) /\ m.pc = "loop" /\ m.fds = lk.fds /\ m.file = lk.file /\ m.paths = Taken
<1> DEFINE t == Taken
<1>1. /\ Shaped(lk) /\ lk.pc = "loop" /\ lk.fds \in Seq(Below) /\ Len(lk.fds) \in Nat \ {0}
      /\ lk.file \in Components /\ Nameable(lk.file.name)
      /\ t \in Seq(Seq(Components)) /\ Len(t) = Len(lk.paths) /\ Len(t) >= 1
  BY TurnBegins
<1> HIDE DEF t
<1>2. m = [lk EXCEPT !.paths = t]
  BY DEF t
<1>3. m.pc = "loop" /\ m.paths = t /\ m.fds = lk.fds /\ m.file = lk.file /\ Shaped(m)
  BY <1>1, <1>2 DEF Shaped, Fields
<1>4. Walking(m) /\ m.pc # "idle"
  BY <1>1, <1>3, LoopWalks
<1>5. Len(m.fds) = Len(lk.fds) /\ Len(m.paths) = Len(lk.paths) /\ lk.pc # "idle"
  BY <1>1, <1>3
<1>6. Keeps(held, lk, held, m)
  BY <1>4, <1>5, KeepsAll
<1> QED BY <1>3, <1>4, <1>6 DEF t

(* The turns of the loop, one lemma each: an empty path or an absolute     *)
(* one.                                                                    *)
LEMMA UnresolvableWalks ==
  ASSUME Walking(lk), held \in Counts, Unresolvable
  PROVE  Walked
<1>1. lk.pc = "loop" /\ Failed(lk, held)
  BY Zenon DEF Unresolvable
<1>2. Keeps(held, lk, held, lk)
  BY DEF Keeps
<1>3. lk.pc # "idle"
  BY <1>1
<1> QED BY <1>1, <1>2, <1>3, FailFrom

(* ".".                                                                    *)
LEMMA SkipWalks ==
  ASSUME Walking(lk), held \in Counts, Skip
  PROVE  Walked
<1> DEFINE t == Taken
           m == [lk EXCEPT !.paths = t, !.file = Dot]
<1>1. Looping /\ EndOfTurn(m, held)
  BY Zenon DEF Skip
<1>2. /\ Shaped(lk) /\ lk.pc = "loop" /\ lk.fds \in Seq(Below) /\ Len(lk.fds) \in Nat \ {0}
      /\ t \in Seq(Seq(Components)) /\ Len(t) = Len(lk.paths) /\ Len(t) >= 1
  BY <1>1, TurnBegins
<1> HIDE DEF t
<1>3. m.pc = "loop" /\ m.paths = t /\ m.fds = lk.fds /\ m.file = Dot /\ Shaped(m)
  BY <1>2 DEF Shaped, Fields
<1> HIDE DEF m
<1>4. Walking(m) /\ m.pc # "idle"
  BY <1>2, <1>3, DotIs, LoopWalks
<1>5. Len(m.fds) = Len(lk.fds) /\ Len(m.paths) = Len(lk.paths) /\ lk.pc # "idle"
  BY <1>2, <1>3
<1>6. Keeps(held, lk, held, m)
  BY <1>4, <1>5, KeepsAll
<1> QED BY <1>1, <1>3, <1>4, <1>6, TurnFrom

(* "..": the directory that is left was below the preopened one.           *)
LEMMA ParentWalks ==
  ASSUME Walking(lk), held \in Counts, Parent
  PROVE  Walked
<1>0. Looping
  BY Zenon DEF Parent
<1>1. CASE Len(lk.fds) = 1
  <2> DEFINE m == [lk EXCEPT !.paths = Taken]
  <2>1. Failed(m, held)
    BY <1>1, Zenon DEF Parent
  <2>2. Walking(m) /\ Keeps(held, lk, held, m) /\ m.pc = "loop"
    BY <1>0, TakenWalks
  <2> HIDE DEF m
  <2>3. m.pc # "idle"
    BY <2>2
  <2> QED BY <2>1, <2>2, <2>3, FailFrom
<1>2. CASE Len(lk.fds) # 1
  <2> DEFINE t == Taken
             d == Butlast(lk.fds)
             m == [lk EXCEPT !.paths = t, !.fds = d]
             h == Minus(held, "dirs", 1)
             n == Len(lk.fds)
  <2>1. EndOfTurn(m, h)
    BY <1>2, Zenon DEF Parent, Popped
  <2>2. /\ Shaped(lk) /\ lk.pc = "loop" /\ lk.fds \in Seq(Below) /\ Len(lk.fds) \in Nat \ {0}
        /\ lk.file \in Components /\ Nameable(lk.file.name)
        /\ t \in Seq(Seq(Components)) /\ Len(t) = Len(lk.paths) /\ Len(t) >= 1
    BY <1>0, TurnBegins
  <2>3. d \in Seq(Below) /\ Len(d) = n - 1
    <3>1. lk.fds \in Seq(Below) /\ lk.fds # <<>>
      BY <2>2, Nil
    <3> QED BY <3>1, ButlastIs
  <2>4. n \in Nat \ {0} /\ n # 1
    BY <1>2, <2>2
  <2> HIDE DEF t, d
  <2>5. m.pc = "loop" /\ m.paths = t /\ m.fds = d /\ m.file = lk.file /\ Shaped(m)
    BY <2>2 DEF Shaped, Fields
  <2> HIDE DEF m, n
  <2>6. Len(d) \in Nat \ {0} /\ n - 1 - n = 0 - 1
    BY <2>3, <2>4
  <2>7. Walking(m) /\ m.pc # "idle"
    BY <2>2, <2>3, <2>5, <2>6, LoopWalks
  <2>8. h \in Counts /\ \A k \in Kinds : h[k] = IF k = "dirs" THEN held[k] - 1 ELSE held[k]
    BY CountingDown, KindsAre
  <2> HIDE DEF h
  <2>9. Keeps(held, lk, h, m)
    <3>1. Len(lk.fds) = n /\ Len(lk.fds) \in Int /\ Len(m.fds) \in Int /\ Len(m.fds) = n - 1
      BY <2>2, <2>3, <2>5, <2>6 DEF n
    <3>2. Len(m.paths) = Len(lk.paths) /\ lk.pc # "idle" /\ m.pc # "idle"
      BY <2>2, <2>5
    <3>3. \A k \in Kinds : h[k] = IF k = "dirs" THEN held[k] + (Len(m.fds) - Len(lk.fds)) ELSE held[k]
      BY <2>6, <2>8, <3>1, CountsAre
    <3> QED BY <2>8, <3>1, <3>2, <3>3, KeepsDirs
  <2> QED BY <2>1, <2>5, <2>7, <2>8, <2>9, TurnFrom
<1> QED BY <1>1, <1>2

(* A name that is looked up.                                               *)
LEMMA NamedIs ==
  ASSUME Walking(lk), NamedFile, fs \in FileSystems
  PROVE  /\ Looping /\ Named(File.name) /\ Nameable(File.name) /\ File \in Components
         /\ Entry(File.name).kind = "directory" => Entry(File.name).id \in Below
<1>1. Looping /\ File.name \notin {"", ".", ".."}
  BY Zenon DEF NamedFile
<1>2. File \in Components /\ lk.fds \in Seq(Below) /\ Len(lk.fds) \in Nat \ {0}
  BY <1>1, TurnBegins
<1>3. Named(File.name) /\ Nameable(File.name) /\ File.name \in Names
  BY <1>1, <1>2, Zenon, NamesAre
<1>4. CurrentDir \in Below
  BY <1>2 DEF CurrentDir
<1> HIDE DEF CurrentDir
<1>5. Entry(File.name).kind = "directory" => Entry(File.name).id \in Below
  BY <1>3, <1>4, EntryIs DEF Entry
<1> QED BY <1>1, <1>2, <1>3, <1>5

(* A directory is entered by a name, so it is below the preopened one.     *)
LEMMA EnterDirectoryWalks ==
  ASSUME Walking(lk), held \in Counts, fs \in FileSystems, EnterDirectory
  PROVE  Walked
<1> DEFINE l == [lk EXCEPT !.paths = Taken]
           entry == Entry(File.name)
           h == Plus(held, "dirs", 1)
           d == Append(l.fds, entry.id)
           m == [l EXCEPT !.fds = d]
           r == [l EXCEPT !.pc = "readlink", !.file = File]
<1>0. /\ NamedFile
      /\ \/ Failed(l, held)
         \/ entry.kind = "directory" /\ (Failed(l, held) \/ EndOfTurn(m, h))
         \/ lk' = r /\ held' = held
  BY Zenon DEF EnterDirectory
<1>1. /\ Looping /\ Named(File.name) /\ Nameable(File.name) /\ File \in Components
      /\ entry.kind = "directory" => entry.id \in Below
  BY <1>0, NamedIs
<1>2. /\ Walking(l) /\ Keeps(held, lk, held, l)
      /\ Shaped(l) /\ l.pc = "loop" /\ l.fds = lk.fds /\ l.file = lk.file
  BY <1>1, TakenWalks
<1>3. /\ l.fds \in Seq(Below) /\ Len(l.fds) \in Nat \ {0} /\ l.file \in Components
      /\ Nameable(l.file.name) /\ l.paths \in Seq(Seq(Components)) /\ l.paths # <<>>
  <2> HIDE DEF l
  <2>1. l.pc # "idle" /\ l.pc \in {"loop", "readlink"}
    BY <1>2
  <2> QED BY <1>2, <2>1, WalkIs
<1>4. Len(l.paths) >= 1
  BY <1>3, NotNil
<1> HIDE DEF l, entry
<1>5. CASE Failed(l, held)
  <2>1. l.pc # "idle"
    BY <1>2
  <2> QED BY <1>2, <1>5, <2>1, FailFrom
<1>6. CASE entry.kind = "directory" /\ EndOfTurn(m, h)
  <2>1. d \in Seq(Below) /\ Len(d) = Len(l.fds) + 1
    BY <1>1, <1>3, <1>6, Appending
  <2> HIDE DEF d
  <2>2. m.pc = "loop" /\ m.paths = l.paths /\ m.fds = d /\ m.file = l.file /\ Shaped(m)
    BY <1>2 DEF Shaped, Fields
  <2> DEFINE n == Len(l.fds)
  <2>3. n \in Nat \ {0} /\ Len(d) = n + 1
    BY <1>3, <2>1
  <2> HIDE DEF m, n
  <2>4. Len(d) \in Nat \ {0} /\ n + 1 - n = 1
    BY <2>3
  <2>5. Walking(m) /\ m.pc # "idle"
    BY <1>3, <1>4, <2>1, <2>2, <2>4, LoopWalks
  <2>6. h \in Counts /\ \A k \in Kinds : h[k] = IF k = "dirs" THEN held[k] + 1 ELSE held[k]
    BY CountingUp, KindsAre
  <2> HIDE DEF h
  <2>7. Keeps(held, l, h, m)
    <3>1. Len(l.fds) = n /\ Len(l.fds) \in Int /\ Len(m.fds) \in Int /\ Len(m.fds) = n + 1
      BY <2>2, <2>3, <2>4 DEF n
    <3>2. Len(m.paths) = Len(l.paths) /\ l.pc # "idle" /\ m.pc # "idle"
      BY <1>2, <2>2
    <3>3. \A k \in Kinds : h[k] = IF k = "dirs" THEN held[k] + (Len(m.fds) - Len(l.fds)) ELSE held[k]
      BY <2>4, <2>6, <3>1, CountsAre
    <3> QED BY <2>6, <3>1, <3>2, <3>3, KeepsDirs
  <2>8. Keeps(held, lk, h, m)
    BY <1>2, <2>7, KeepsThen
  <2> QED BY <1>6, <2>2, <2>5, <2>6, <2>8, TurnFrom
<1>7. CASE lk' = r /\ held' = held
  <2>1. r.pc = "readlink" /\ r.paths = l.paths /\ r.fds = l.fds /\ r.file = File /\ Shaped(r)
    BY <1>2 DEF Shaped, Fields
  <2> HIDE DEF r
  <2>2. r.pc \in Pcs \ {"idle"} /\ r.pc # "success" /\ r.pc # "idle" /\ l.pc # "idle"
    BY <1>2, <2>1 DEF Pcs
  <2>3. Walking(r)
    BY <1>1, <1>3, <1>4, <2>1, <2>2, Walks
  <2>4. Keeps(held, l, held, r)
    BY <2>1, <2>2, KeepsAll
  <2>5. Keeps(held, lk, held, r)
    BY <1>2, <2>4, KeepsThen
  <2> QED BY <1>7, <2>2, <2>3, <2>5 DEF Walked
<1> QED BY <1>0, <1>5, <1>6, <1>7

(* The final component.                                                    *)
LEMMA FinalComponentWalks ==
  ASSUME Walking(lk), held \in Counts, fs \in FileSystems, FinalComponent
  PROVE  Walked
<1> DEFINE t == Taken
           pc == IF File.slash \/ lk.follow THEN "readlink" ELSE "success"
           l == [lk EXCEPT !.paths = t, !.file = File]
           m == [l EXCEPT !.pc = pc]
<1>0. NamedFile /\ ~Inner /\ lk' = m /\ held' = held
  BY Zenon DEF FinalComponent
<1>1. Looping /\ Named(File.name) /\ Nameable(File.name) /\ File \in Components
  BY <1>0, NamedIs
<1>2. /\ Shaped(lk) /\ lk.pc = "loop" /\ lk.fds \in Seq(Below) /\ Len(lk.fds) \in Nat \ {0}
      /\ t \in Seq(Seq(Components)) /\ Len(t) = Len(lk.paths) /\ Len(t) >= 1
  BY <1>1, TurnBegins
<1>3. ~(Len(lk.paths) > 1)
  BY <1>0, Zenon DEF Inner
<1>4. Len(t) <= 1
  <2> DEFINE p == lk.paths
  <2>1. Len(t) = Len(p) /\ ~(Len(p) > 1) /\ Len(t) \in Nat
    BY <1>2, <1>3, NotNil
  <2> HIDE DEF p, t
  <2> QED BY <2>1
<1>9. pc = "readlink" \/ pc = "success"
  OBVIOUS
<1> HIDE DEF t, pc
<1>5. l.paths = t /\ l.fds = lk.fds /\ l.file = File /\ Shaped(l)
  BY <1>2 DEF Shaped, Fields
<1> HIDE DEF l
<1>6. m.pc = pc /\ m.paths = t /\ m.fds = lk.fds /\ m.file = File /\ Shaped(m)
  BY <1>5 DEF Shaped, Fields
<1> HIDE DEF m
<1>7. m.pc \in Pcs \ {"idle"} /\ m.pc # "idle" /\ lk.pc # "idle"
  BY <1>2, <1>6, <1>9 DEF Pcs
<1>8. Walking(m)
  BY <1>1, <1>2, <1>4, <1>6, <1>7, Walks
<1>10. Keeps(held, lk, held, m)
  <2>1. Len(m.fds) = Len(lk.fds) /\ Len(m.paths) = Len(lk.paths)
    BY <1>2, <1>6
  <2> QED BY <1>7, <2>1, KeepsAll
<1> QED BY <1>0, <1>7, <1>8, <1>10 DEF Walked

(* A target with the slash that followed the link.                         *)
LEMMA SlashedIs ==
  ASSUME NEW target, target \in Seq(Components), NEW slash, slash \in BOOLEAN
  PROVE  Slashed(target, slash) \in Seq(Components)
<1> DEFINE n == Len(target)
           s == Slashed(target, slash)
<1>1. n \in Nat /\ DOMAIN target = 1 .. n /\ \A i \in 1 .. n : target[i] \in Components
  OBVIOUS
<1>2. s = [i \in 1 .. n |-> [target[i] EXCEPT !.slash = @ \/ (slash /\ i = n)]]
  BY <1>1 DEF Slashed
<1> HIDE DEF n, s
<1>3. ASSUME NEW i, i \in 1 .. n PROVE [target[i] EXCEPT !.slash = @ \/ (slash /\ i = n)] \in Components
  <2> DEFINE c == target[i]
             b == c.slash \/ (slash /\ i = n)
  <2>1. c \in Components /\ b \in BOOLEAN
    BY <1>1, <1>3
  <2>2. [target[i] EXCEPT !.slash = @ \/ (slash /\ i = n)] = [c EXCEPT !.slash = b]
    OBVIOUS
  <2> HIDE DEF c, b
  <2>3. [c EXCEPT !.slash = b] \in Components
    <3> DEFINE N == Names \cup {"", ".", ".."}
    <3>1. c \in [name : N, slash : BOOLEAN]
      BY <2>1 DEF Components
    <3> HIDE DEF N
    <3>2. [c EXCEPT !.slash = b] \in [name : N, slash : BOOLEAN]
      BY <2>1, <3>1
    <3> QED BY <3>2 DEF Components, N
  <2> QED BY <2>2, <2>3
<1> QED BY <1>1, <1>2, <1>3 DEF s

(* A link is pushed.                                                       *)
LEMMA PushSymlinkWalks ==
  ASSUME Walking(lk), lk.pc = "readlink", held \in Counts,
         NEW target, target \in Seq(Components), PushSymlink(target)
  PROVE  Walked
<1> DEFINE c == Counted(lk.expansions)
           l == [lk EXCEPT !.expansions = c, !.pc = "loop", !.file = Dot]
           string == Slashed(target, lk.file.slash)
           over == Append(Butlast(lk.paths), string)
           more == Append(lk.paths, string)
           m == [l EXCEPT !.paths = over]
           q == [l EXCEPT !.paths = more]
           h == Plus(held, "blocks", 1)
           n == Len(lk.paths)
<1>0. \/ Failed(l, held)
      \/ lk' = m /\ held' = held
      \/ lk' = q /\ held' = h
  BY Zenon DEF PushSymlink
<1>1. /\ Shaped(lk) /\ lk.pc # "idle" /\ lk.fds \in Seq(Below) /\ Len(lk.fds) \in Nat \ {0}
      /\ lk.paths \in Seq(Seq(Components)) /\ lk.paths # <<>>
      /\ lk.file \in Components
  <2>1. lk.pc # "idle" /\ lk.pc \in {"loop", "readlink"}
    OBVIOUS
  <2> QED BY <2>1, WalkIs
<1>2. string \in Seq(Components)
  <2>1. lk.file.slash \in BOOLEAN
    BY <1>1 DEF Components
  <2> QED BY <2>1, SlashedIs
<1>3. n \in Nat \ {0} /\ Butlast(lk.paths) \in Seq(Seq(Components)) /\ Len(Butlast(lk.paths)) = n - 1
  BY <1>1, Parts, ButlastIs
<1> DEFINE b == Butlast(lk.paths)
<1> HIDE DEF string, c, b
<1>4. over \in Seq(Seq(Components)) /\ Len(over) = Len(b) + 1
  BY <1>2, <1>3, Appending DEF b
<1>5. more \in Seq(Seq(Components)) /\ Len(more) = n + 1
  BY <1>1, <1>2, Appending
<1> HIDE DEF over, more
<1>6. l.pc = "loop" /\ l.paths = lk.paths /\ l.fds = lk.fds /\ l.file = Dot /\ Shaped(l)
  BY <1>1 DEF Shaped, Fields
<1> HIDE DEF l
<1>7. m.pc = "loop" /\ m.paths = over /\ m.fds = lk.fds /\ m.file = Dot /\ Shaped(m)
  BY <1>6 DEF Shaped, Fields
<1>8. q.pc = "loop" /\ q.paths = more /\ q.fds = lk.fds /\ q.file = Dot /\ Shaped(q)
  BY <1>6 DEF Shaped, Fields
<1> HIDE DEF m, q, n
<1>9. Len(over) = n /\ Len(over) >= 1 /\ Len(more) >= 1
  BY <1>3, <1>4, <1>5 DEF b
<1>10. CASE Failed(l, held)
  <2>1. Len(l.paths) >= 1
    <3>1. Len(lk.paths) >= 1
      BY <1>3 DEF n
    <3> QED BY <1>6, <3>1
  <2>2. Walking(l) /\ l.pc # "idle"
    BY <1>1, <1>6, <2>1, DotIs, LoopWalks
  <2>3. Keeps(held, lk, held, l)
    BY <1>1, <1>6, <2>2, KeepsAll
  <2> QED BY <1>10, <2>2, <2>3, FailFrom
<1>11. CASE lk' = m /\ held' = held
  <2>1. Walking(m) /\ m.pc # "idle"
    BY <1>1, <1>4, <1>7, <1>9, DotIs, LoopWalks
  <2>2. Len(m.paths) = Len(lk.paths) /\ Len(m.fds) = Len(lk.fds)
    BY <1>7, <1>9 DEF n
  <2>3. Keeps(held, lk, held, m)
    BY <1>1, <2>1, <2>2, KeepsAll
  <2> QED BY <1>11, <2>1, <2>3 DEF Walked
<1>12. CASE lk' = q /\ held' = h
  <2>1. Walking(q) /\ q.pc # "idle"
    BY <1>1, <1>5, <1>8, <1>9, DotIs, LoopWalks
  <2>2. h \in Counts /\ \A k \in Kinds : h[k] = IF k = "blocks" THEN held[k] + 1 ELSE held[k]
    BY CountingUp, KindsAre
  <2> HIDE DEF h
  <2>3. Keeps(held, lk, h, q)
    <3>0. n + 1 - n = 1 /\ n + 1 \in Int /\ n \in Int
      BY <1>3
    <3>1. Len(lk.paths) = n /\ Len(lk.paths) \in Int /\ Len(q.paths) \in Int /\ Len(q.paths) = n + 1
      BY <1>5, <1>8, <3>0 DEF n
    <3>2. Len(q.fds) = Len(lk.fds) /\ lk.pc # "idle" /\ q.pc # "idle"
      BY <1>8
    <3>3. \A k \in Kinds : h[k] = IF k = "blocks" THEN held[k] + (Len(q.paths) - Len(lk.paths)) ELSE held[k]
      BY <2>2, <3>0, <3>1, CountsAre
    <3> QED BY <2>2, <3>1, <3>2, <3>3, KeepsBlocks
  <2> QED BY <1>12, <2>1, <2>3 DEF Walked
<1> QED BY <1>0, <1>10, <1>11, <1>12

(* A link is read, and its target is what remains to walk.                 *)
LEMMA ReadLinkWalks ==
  ASSUME Walking(lk), held \in Counts, fs \in FileSystems, ReadLink
  PROVE  Walked
<1> DEFINE entry == Entry(lk.file.name)
           m == [lk EXCEPT !.pc = "success"]
<1>0. /\ lk.pc = "readlink"
      /\ \/ Failed(lk, held)
         \/ entry.kind = "link" /\ PushSymlink(entry.target)
         \/ ~WasInner /\ lk' = m /\ held' = held
  BY Zenon DEF ReadLink
<1>1. /\ Shaped(lk) /\ lk.pc # "idle" /\ lk.fds \in Seq(Below) /\ Len(lk.fds) \in Nat \ {0}
      /\ lk.paths \in Seq(Seq(Components)) /\ Len(lk.paths) \in Nat
      /\ lk.file \in Components /\ Nameable(lk.file.name)
  <2>1. lk.pc # "idle"
    BY <1>0
  <2> QED BY <2>1, WalkIs
<1>2. CASE Failed(lk, held)
  <2>1. Keeps(held, lk, held, lk)
    BY DEF Keeps
  <2> QED BY <1>1, <1>2, <2>1, FailFrom
<1>3. CASE entry.kind = "link" /\ PushSymlink(entry.target)
  <2>1. Named(lk.file.name)
    BY <1>0 DEF Walking
  <2>2. lk.file.name \in Names
    BY <1>1, <2>1, NamesAre
  <2>3. CurrentDir \in Below
    BY <1>1 DEF CurrentDir
  <2>4. entry.target \in Seq(Components)
    <3> HIDE DEF CurrentDir
    <3> QED BY <1>3, <2>2, <2>3, EntryIs DEF Entry
  <2> HIDE DEF entry
  <2> QED BY <1>0, <1>3, <2>4, PushSymlinkWalks
<1>4. CASE ~WasInner /\ lk' = m /\ held' = held
  <2>1. ~(Len(lk.paths) > 1)
    BY <1>4, Zenon DEF WasInner
  <2> DEFINE p == lk.paths
  <2>2. p \in Seq(Seq(Components)) /\ Len(p) <= 1
    <3>1. p \in Seq(Seq(Components)) /\ ~(Len(p) > 1) /\ Len(p) \in Nat
      BY <1>1, <2>1
    <3> HIDE DEF p
    <3> QED BY <3>1
  <2>3. m.pc = "success" /\ m.paths = p /\ m.fds = lk.fds /\ m.file = lk.file /\ Shaped(m)
    BY <1>1 DEF Shaped, Fields
  <2>4. lk.paths = p
    OBVIOUS
  <2> HIDE DEF m, p
  <2>5. m.pc \in Pcs \ {"idle"} /\ m.pc \notin {"loop", "readlink"} /\ m.pc # "idle" /\ m.pc # "readlink"
    BY <2>3 DEF Pcs
  <2>6. Walking(m)
    BY <1>1, <2>2, <2>3, <2>5, Walks
  <2>7. Keeps(held, lk, held, m)
    BY <1>1, <2>3, <2>4, <2>5, KeepsAll
  <2> QED BY <1>4, <2>5, <2>6, <2>7 DEF Walked
<1> QED BY <1>0, <1>2, <1>3, <1>4

(* Every turn.                                                             *)
LEMMA LookupWalks ==
  ASSUME Walking(lk), held \in Counts, fs \in FileSystems, LookupStep
  PROVE  Walked /\ lk.pc \in {"loop", "readlink"} /\ lk'.pc # "idle" /\ UNCHANGED <<fs, changes>>
<1>1. Walked
  BY UnresolvableWalks, SkipWalks, ParentWalks, EnterDirectoryWalks, FinalComponentWalks,
     ReadLinkWalks DEF LookupStep
<1>2. UNCHANGED <<fs, changes>>
  BY Zenon DEF LookupStep, Unresolvable, Skip, Parent, EnterDirectory, FinalComponent, ReadLink, Otherwise
<1>3. lk.pc \in {"loop", "readlink"}
  <2>1. lk.pc = "loop" \/ lk.pc = "readlink"
    BY Zenon DEF LookupStep, Unresolvable, Skip, Parent, EnterDirectory, FinalComponent, ReadLink,
       NamedFile, Looping
  <2> QED BY <2>1
<1>4. lk'.pc # "idle"
  BY <1>1 DEF Walked
<1> QED BY <1>1, <1>2, <1>3, <1>4

----------------------------------------------------------------------------
(* Every directory of a lookup and of a lease is below the preopened one   *)

IsLease(p) ==
  p = NoLease \/ (p.dir \in Below /\ Nameable(p.name.name))

PollFields == {"pc", "subs", "next", "clock", "good", "events"}
PollShaped(p) == p = [x \in PollFields |-> p[x]]

(* The types, and where lookups and leases are.                            *)
WalkInv ==
  /\ fs \in FileSystems /\ Walking(lk) /\ held \in Counts
  /\ pa = [s \in Slots |-> pa[s]] /\ \A s \in Slots : IsLease(pa[s])
  /\ PollShaped(poll) /\ IsFiniteSet(poll.good)

(* Counting a kind that may be none.                                       *)
LEMMA Counted1 ==
  ASSUME NEW h, h \in Counts, NEW kind, NEW n, n \in Int
  PROVE  Plus(h, kind, n) \in Counts /\ Minus(h, kind, n) \in Counts
<1>1. CASE kind \in Kinds
  BY <1>1, CountingUp, CountingDown
<1>2. CASE kind \notin Kinds
  BY <1>2 DEF Counts, Plus, Minus
<1> QED BY <1>1, <1>2

(* At first nothing is held.                                               *)
LEMMA NothingCounts == Nothing \in Counts
BY DEF Nothing, Counts

(* No poll, at first.                                                      *)
LEMMA NoPollShaped == PollShaped(NoPoll) /\ IsFiniteSet(NoPoll.good)
<1>1. PollShaped(NoPoll) /\ NoPoll.good = {}
  BY DEF NoPoll, PollShaped, PollFields
<1> QED BY <1>1, FS_EmptySet

(* A step that changes only what is held.                                  *)
LEMMA WalkStays ==
  ASSUME WalkInv, UNCHANGED <<fs, lk, pa, poll>>, held' \in Counts
  PROVE  WalkInv'
BY DEF WalkInv

(* A step of a poll.                                                       *)
LEMMA PollWalks ==
  ASSUME WalkInv, UNCHANGED <<fs, lk, pa>>, held' \in Counts, PollShaped(poll'), IsFiniteSet(poll'.good)
  PROVE  WalkInv'
BY DEF WalkInv

(* The invariant holds at first.                                           *)
LEMMA WalkInit == Init => WalkInv
<1> SUFFICES ASSUME Init PROVE WalkInv
  OBVIOUS
<1>1. /\ fs \in FileSystems /\ lk = NoLookup /\ held = Nothing
      /\ pa = [s \in Slots |-> NoLease] /\ poll = NoPoll
  BY DEF Init
<1>2. pa = [s \in Slots |-> pa[s]] /\ \A s \in Slots : IsLease(pa[s])
  BY <1>1 DEF IsLease
<1> QED BY <1>1, <1>2, NoWalk, NothingCounts, NoPollShaped DEF WalkInv

(* Steps that leave lookups, leases and polls alone.                       *)
PlainStep ==
  \/ Begin \/ CheckAddress \/ CheckArgument \/ Take \/ Give
  \/ GetReference \/ ReleaseReference \/ SystemCall \/ ReportResult
  \/ InsertDescriptor \/ UnlessUnsupported \/ Throw \/ Randomness
  \/ OpenDirectory \/ SeekDirectory \/ ReadEntry \/ EndListing

(* The other steps change only what is held.                               *)
LEMMA PlainStays ==
  ASSUME held \in Counts, PlainStep
  PROVE  UNCHANGED <<fs, lk, pa, poll>> /\ held' \in Counts
<1>0. \A kind : Plus(held, kind, 1) \in Counts /\ Minus(held, kind, 1) \in Counts
  BY Counted1
<1>1. CASE Begin
  BY <1>1 DEF Begin, lookupVars
<1>2. CASE CheckAddress \/ CheckArgument \/ ReportResult \/ Throw \/ Randomness
  BY <1>2, Zenon DEF CheckAddress, CheckArgument, ReportResult, Throw, Randomness, Lookup, Locals, lookupVars
<1>3. CASE Take \/ Give
  BY <1>0, <1>3, Zenon DEF Take, Give, Hold, Lookup, Locals, lookupVars
<1>4. CASE GetReference \/ ReleaseReference
  BY <1>0, <1>4, Zenon DEF GetReference, ReleaseReference, Hold, Lookup, lookupVars
<1>5. CASE SystemCall
  BY <1>0, <1>5, Zenon DEF SystemCall, Hold, Lookup, Locals, lookupVars
<1>6. CASE InsertDescriptor \/ UnlessUnsupported
  BY <1>0, <1>6, Zenon DEF InsertDescriptor, UnlessUnsupported, Hold, Lookup, Locals, lookupVars
<1>7. CASE OpenDirectory \/ SeekDirectory \/ ReadEntry \/ EndListing
  BY <1>7, Zenon DEF OpenDirectory, SeekDirectory, ReadEntry, EndListing, ListOnly, lookupVars
<1> QED BY <1>1, <1>2, <1>3, <1>4, <1>5, <1>6, <1>7 DEF PlainStep

(* Steps of poll_oneoff.                                                   *)
PollStep == StartPoll \/ Subscribe \/ EndPoll \/ Sleep \/ Wait

(* The steps of a poll change only it and what is held.                    *)
LEMMA PollStays ==
  ASSUME WalkInv, PollStep
  PROVE  /\ UNCHANGED <<fs, lk, pa>> /\ held' \in Counts
         /\ PollShaped(poll') /\ IsFiniteSet(poll'.good)
<1>0. held \in Counts /\ PollShaped(poll) /\ IsFiniteSet(poll.good)
  BY DEF WalkInv
<1>1. CASE StartPoll
  <2>1. UNCHANGED <<fs, lk, pa>>
    BY <1>1, Zenon DEF StartPoll, PollOnly
  <2>2. PICK subs \in Subscriptions :
          LET p == [NoPoll EXCEPT !.subs = subs, !.next = 1]
          IN  \/ poll' = [p EXCEPT !.pc = "sleep"] /\ held' = held
              \/ poll' = [p EXCEPT !.pc = "subscribe"] /\ held' = Plus(Plus(held, "blocks", 2), "locks", 1)
              \/ poll' = poll /\ held' = held
    BY <1>1, Zenon DEF StartPoll
  <2> DEFINE p == [NoPoll EXCEPT !.subs = subs, !.next = 1]
  <2>3. PollShaped(p) /\ p.good = {}
    BY NoPollShaped DEF PollShaped, PollFields, NoPoll
  <2> HIDE DEF p
  <2>4. CASE poll' = [p EXCEPT !.pc = "sleep"] /\ held' = held
    <3>1. PollShaped(poll') /\ poll'.good = {}
      BY <2>3, <2>4 DEF PollShaped, PollFields
    <3> QED BY <1>0, <2>1, <2>4, <3>1, FS_EmptySet
  <2>5. CASE poll' = [p EXCEPT !.pc = "subscribe"] /\ held' = Plus(Plus(held, "blocks", 2), "locks", 1)
    <3>1. PollShaped(poll') /\ poll'.good = {}
      BY <2>3, <2>5 DEF PollShaped, PollFields
    <3>2. held' \in Counts
      BY <1>0, <2>5, Counted1
    <3> QED BY <2>1, <3>1, <3>2, FS_EmptySet
  <2>6. CASE poll' = poll /\ held' = held
    BY <1>0, <2>1, <2>6
  <2> QED BY <2>2, <2>4, <2>5, <2>6 DEF p
<1>2. CASE Subscribe
  <2> DEFINE i == poll.next
             p == [poll EXCEPT !.next = i + 1]
             e == p.events \o Event(i, "error")
             g == p.good \cup {i}
  <2>1. UNCHANGED <<fs, lk, pa>>
    BY <1>2, Zenon DEF Subscribe, PollOnly
  <2>2. \/ poll' = [poll EXCEPT !.pc = "wait"] /\ held' = Minus(held, "locks", 1)
        \/ poll' = [p EXCEPT !.good = g] /\ held' = Plus(held, "references", 1)
        \/ poll' = [p EXCEPT !.clock = i] /\ held' = held
        \/ poll' = [p EXCEPT !.events = e] /\ held' = held
    BY <1>2, Zenon DEF Subscribe
  <2>3. held' \in Counts
    BY <1>0, <2>2, Counted1
  <2>4. PollShaped(p) /\ p.good = poll.good
    BY <1>0 DEF PollShaped, PollFields
  <2>5. IsFiniteSet(g)
    BY <1>0, <2>4, FS_AddElement
  <2> HIDE DEF p, e, g
  <2>6. PollShaped(poll') /\ (poll'.good = poll.good \/ poll'.good = g)
    <3>1. CASE poll' = [poll EXCEPT !.pc = "wait"]
      BY <1>0, <3>1 DEF PollShaped, PollFields
    <3>2. CASE poll' = [p EXCEPT !.good = g]
      BY <2>4, <3>2 DEF PollShaped, PollFields
    <3>3. CASE poll' = [p EXCEPT !.clock = i]
      BY <2>4, <3>3 DEF PollShaped, PollFields
    <3>4. CASE poll' = [p EXCEPT !.events = e]
      BY <2>4, <3>4 DEF PollShaped, PollFields
    <3> QED BY <2>2, <3>1, <3>2, <3>3, <3>4
  <2> QED BY <1>0, <2>1, <2>3, <2>5, <2>6
<1>3. CASE EndPoll
  <2>1. UNCHANGED <<fs, lk, pa>>
    BY <1>3, Zenon DEF EndPoll, PollOnly
  <2>2. \/ /\ poll' = [poll EXCEPT !.pc = "done"]
           /\ held' = Minus(Minus(held, "references", Cardinality(poll.good)), "blocks", 2)
        \/ poll' = poll /\ held' = held
    BY <1>3, Zenon DEF EndPoll
  <2>3. Cardinality(poll.good) \in Int
    BY <1>0, FS_CardinalityType
  <2>4. held' \in Counts
    BY <1>0, <2>2, <2>3, Counted1
  <2>5. PollShaped(poll') /\ poll'.good = poll.good
    BY <1>0, <2>2 DEF PollShaped, PollFields
  <2> QED BY <1>0, <2>1, <2>4, <2>5
<1>4. CASE Sleep
  <2>1. UNCHANGED <<fs, lk, pa>> /\ held' = held
    BY <1>4, Zenon DEF Sleep, PollOnly
  <2>2. PICK kind : poll' = [poll EXCEPT !.pc = "done", !.events = Event(1, kind)]
    BY <1>4, Zenon DEF Sleep
  <2> DEFINE e == Event(1, kind)
  <2>4. poll' = [poll EXCEPT !.pc = "done", !.events = e]
    BY <2>2
  <2> HIDE DEF e
  <2>3. PollShaped(poll') /\ poll'.good = poll.good
    BY <1>0, <2>4 DEF PollShaped, PollFields
  <2> QED BY <1>0, <2>1, <2>3
<1>5. CASE Wait
  <2>1. UNCHANGED <<fs, lk, pa>> /\ held' = held
    BY <1>5, Zenon DEF Wait, PollOnly
  <2>2. \E events : poll' = [poll EXCEPT !.pc = "release", !.events = events]
    BY <1>5, Zenon DEF Wait
  <2>3. PICK events : poll' = [poll EXCEPT !.pc = "release", !.events = events]
    BY <2>2
  <2>4. PollShaped(poll') /\ poll'.good = poll.good
    BY <1>0, <2>3 DEF PollShaped, PollFields
  <2> QED BY <1>0, <2>1, <2>4
<1> QED BY <1>1, <1>2, <1>3, <1>4, <1>5 DEF PollStep

(* A lookup begins.                                                        *)
LEMMA LookupBegins ==
  ASSUME NEW path, path \in Paths, NEW follow, NEW needsFinal
  PROVE  LET l == LookupOf(path, follow, needsFinal)
         IN  /\ Walking(l) /\ l.pc = "loop" /\ l.follow = follow /\ l.needsFinal = needsFinal
             /\ Len(l.fds) = 1 /\ Len(l.paths) = 1
<1> DEFINE l == LookupOf(path, follow, needsFinal)
<1>1. Shaped(l)
  BY DEF LookupOf, Shaped, Fields
<1>2. /\ l.pc = "loop" /\ l.follow = follow /\ l.needsFinal = needsFinal
      /\ l.fds = <<Root>> /\ l.paths = <<path>> /\ l.file = Dot
  BY DEF LookupOf
<1>3. path \in Seq(Components) /\ Root \in Below
  BY PathLookupAssumption, OutsideAssumption DEF Below
<1>4. <<path>> \in Seq(Seq(Components)) /\ Len(<<path>>) = 1 /\ <<Root>> \in Seq(Below) /\ Len(<<Root>>) = 1
  BY <1>3
<1> HIDE DEF l
<1>5. Len(l.paths) >= 1 /\ Len(l.fds) \in Nat \ {0}
  BY <1>2, <1>4
<1>6. Walking(l)
  BY <1>1, <1>2, <1>4, <1>5, DotIs, LoopWalks
<1> QED BY <1>2, <1>4, <1>6 DEF l

(* What a lookup has found.                                                *)
LEMMA FoundLease ==
  ASSUME Walking(lk), lk.pc = "success"
  PROVE  /\ Lease.dir \in Below /\ Nameable(Lease.name.name) /\ Lease # NoLease
         /\ Lease.start = (lk.paths # <<>>) /\ Lease.opened = (Len(lk.fds) > 1)
<1>1. /\ lk.fds \in Seq(Below) /\ Len(lk.fds) \in Nat \ {0} /\ Nameable(lk.file.name)
  <2>1. lk.pc # "idle"
    OBVIOUS
  <2> QED BY <2>1, WalkIs
<1>2. CurrentDir \in Below
  BY <1>1 DEF CurrentDir
<1>3. /\ Lease.dir = CurrentDir /\ Lease.name = lk.file
      /\ Lease.start = (lk.paths # <<>>) /\ Lease.opened = (Len(lk.fds) > 1)
  BY Zenon DEF Lease
<1>4. NoLease.dir = "none" /\ "none" \notin Below
  BY PathLookupAssumption DEF NoLease, Below
<1> HIDE DEF CurrentDir
<1>5. Lease # NoLease
  BY <1>2, <1>3, <1>4
<1> QED BY <1>1, <1>2, <1>3, <1>5

(* The steps of a lookup, and the end of a call.                           *)
LEMMA PathWalks ==
  ASSUME WalkInv, StartPath \/ StepPath \/ Interfere \/ PathFound \/ PathRefused \/ PutPath \/ Return
  PROVE  WalkInv'
<1>0. /\ fs \in FileSystems /\ Walking(lk) /\ held \in Counts
      /\ pa = [s \in Slots |-> pa[s]] /\ \A s \in Slots : IsLease(pa[s])
      /\ PollShaped(poll) /\ IsFiniteSet(poll.good)
  BY DEF WalkInv
<1>1. CASE StartPath
  <2>1. UNCHANGED <<fs, pa, poll>>
    BY <1>1, Zenon DEF StartPath, Lookup, lookupVars
  <2>2. \/ /\ \E path \in Paths : lk' = LookupOf(path, Current.arg.follow, Current.arg.needsFinal)
           /\ held' = Plus(Plus(held, "blocks", 1), "references", 1)
        \/ lk' = lk /\ held' = held
    BY <1>1, Zenon DEF StartPath, Lookup, lookupVars
  <2>3. Walking(lk')
    BY <1>0, <2>2, LookupBegins
  <2>4. held' \in Counts
    BY <1>0, <2>2, Counted1
  <2> QED BY <1>0, <2>1, <2>3, <2>4 DEF WalkInv
<1>2. CASE StepPath
  <2>1. UNCHANGED <<pa, poll>> /\ LookupStep
    BY <1>2, Zenon DEF StepPath, callVars
  <2>2. Walked /\ fs' = fs
    BY <1>0, <2>1, LookupWalks
  <2>3. Walking(lk') /\ held' \in Counts
    BY <2>2 DEF Walked, Keeps
  <2> QED BY <1>0, <2>1, <2>2, <2>3 DEF WalkInv
<1>3. CASE Interfere
  <2>1. fs' \in FileSystems /\ UNCHANGED <<lk, held, pa, poll>>
    BY <1>3, Zenon DEF Interfere, ChangeFileSystem, callVars
  <2> QED BY <1>0, <2>1 DEF WalkInv
<1>4. CASE PathFound
  <2> DEFINE s == Current.arg.slot
  <2>1. /\ lk.pc = "success" /\ lk' = NoLookup /\ held' = Minus(held, "dirs", Between(lk.fds))
        /\ pa' = [pa EXCEPT ![s] = Lease] /\ UNCHANGED <<fs, poll>>
    BY <1>4, Zenon DEF PathFound, HeldAfterSuccess
  <2>2. Between(lk.fds) \in Int
    <3>1. Len(lk.fds) \in Nat
      <4>1. lk.pc # "idle"
        BY <2>1
      <4> QED BY <1>0, <4>1, WalkIs
    <3> QED BY <3>1 DEF Between
  <2>3. held' \in Counts
    BY <1>0, <2>1, <2>2, Counted1
  <2>4. IsLease(Lease)
    BY <1>0, <2>1, FoundLease DEF IsLease
  <2> HIDE DEF s
  <2>5. pa' = [r \in Slots |-> pa'[r]] /\ \A r \in Slots : IsLease(pa'[r])
    BY <1>0, <2>1, <2>4
  <2> QED BY <1>0, <2>1, <2>3, <2>5, NoWalk DEF WalkInv
<1>5. CASE PathRefused
  <2>1. lk.pc = "fail" /\ lk' = NoLookup /\ held' = HeldAfterFail /\ UNCHANGED <<fs, pa, poll>>
    BY <1>5, Zenon DEF PathRefused
  <2>2. Len(lk.fds) - 1 \in Int /\ Len(lk.paths) \in Int
    <3>1. lk.pc # "idle"
      BY <2>1
    <3>2. Len(lk.fds) \in Nat \ {0} /\ Len(lk.paths) \in Nat
      BY <1>0, <3>1, WalkIs
    <3> QED BY <3>2
  <2>3. held' \in Counts
    <3> DEFINE h == Minus(held, "dirs", Len(lk.fds) - 1)
               g == Minus(h, "blocks", Len(lk.paths))
    <3>1. held' = Minus(g, "references", 1)
      BY <2>1 DEF HeldAfterFail
    <3>2. h \in Counts
      BY <1>0, <2>2, Counted1
    <3> HIDE DEF h
    <3>3. g \in Counts
      BY <2>2, <3>2, Counted1
    <3> HIDE DEF g
    <3> QED BY <3>1, <3>3, Counted1
  <2> QED BY <1>0, <2>1, <2>3, NoWalk DEF WalkInv
<1>6. CASE PutPath
  <2> DEFINE s == Current.arg
  <2>1. /\ held' = Put(held, pa[s]) /\ pa' = [pa EXCEPT ![s] = NoLease]
        /\ UNCHANGED <<fs, lk, poll>>
    BY <1>6, Zenon DEF PutPath, Hold
  <2>2. \A p : Put(held, p) \in Counts
    <3> TAKE p
    <3> DEFINE a == IF p.start THEN 1 ELSE 0
               b == IF p.opened THEN 1 ELSE 0
    <3>1. a \in Int /\ b \in Int
      OBVIOUS
    <3>2. Put(held, p) = Minus(Minus(Minus(held, "blocks", a), "dirs", b), "references", 1)
      BY DEF Put
    <3> HIDE DEF a, b
    <3>3. Minus(held, "blocks", a) \in Counts
      BY <1>0, <3>1, Counted1
    <3>4. Minus(Minus(held, "blocks", a), "dirs", b) \in Counts
      BY <3>1, <3>3, Counted1
    <3> QED BY <3>2, <3>4, Counted1
  <2> HIDE DEF s
  <2>5. pa' = [r \in Slots |-> pa'[r]] /\ \A r \in Slots : IsLease(pa'[r])
    BY <1>0, <2>1 DEF IsLease
  <2> QED BY <1>0, <2>1, <2>2, <2>5 DEF WalkInv
<1>7. CASE Return
  <2>1. UNCHANGED <<fs, lk, held>> /\ pa' = [s \in Slots |-> NoLease] /\ poll' = NoPoll
    BY <1>7, Zenon DEF Return
  <2>2. pa' = [s \in Slots |-> pa'[s]] /\ \A s \in Slots : IsLease(pa'[s])
    BY <2>1 DEF IsLease
  <2> QED BY <1>0, <2>1, <2>2, NoPollShaped DEF WalkInv
<1> QED BY <1>1, <1>2, <1>3, <1>4, <1>5, <1>6, <1>7

(* Every step is of one of three sorts.                                    *)
LEMMA StepSorts ==
  Next => PlainStep \/ PollStep
          \/ (StartPath \/ StepPath \/ Interfere \/ PathFound \/ PathRefused \/ PutPath \/ Return)
BY Zenon DEF Next, Progress, PlainStep, PollStep

(* Every step keeps the invariant.                                         *)
LEMMA WalkNext == WalkInv /\ [Next]_vars => WalkInv'
<1> SUFFICES ASSUME WalkInv, [Next]_vars PROVE WalkInv'
  OBVIOUS
<1>0. held \in Counts
  BY DEF WalkInv
<1>1. CASE PlainStep
  BY <1>0, <1>1, PlainStays, WalkStays
<1>2. CASE PollStep
  BY <1>2, PollStays, PollWalks
<1>3. CASE StartPath \/ StepPath \/ Interfere \/ PathFound \/ PathRefused \/ PutPath \/ Return
  BY <1>3, PathWalks
<1>4. CASE UNCHANGED vars
  <2>1. UNCHANGED <<fs, lk, held, pa, poll>>
    BY <1>4, Zenon DEF vars, lookupVars, callVars
  <2> QED BY <1>0, <2>1, WalkStays
<1> QED BY <1>1, <1>2, <1>3, <1>4, StepSorts

(* It always holds.                                                        *)
LEMMA WalkAlways == Spec => []WalkInv
BY WalkInit, WalkNext, PTL DEF Spec

(* Whatever the paths, the links in them and the changes of the file       *)
(* system: no lookup enters, and no call is given, a directory that is not *)
(* below the preopened one, nor a name that leads out of it (path_get in   *)
(* posix.c).                                                               *)
THEOREM AlwaysInside == Spec => []Inside
<1>1. WalkInv => Inside
  <2> SUFFICES ASSUME WalkInv PROVE Inside
    OBVIOUS
  <2>1. Walking(lk) /\ \A s \in Slots : IsLease(pa[s])
    BY DEF WalkInv
  <2>2. lk.fds \in Seq(Below)
    BY <2>1 DEF Walking
  <2>3. \A i \in DOMAIN lk.fds : lk.fds[i] \notin Outside
    BY <2>2 DEF Below
  <2>4. \A s \in Leased : pa[s].dir \notin Outside /\ Nameable(pa[s].name.name)
    BY <2>1 DEF Leased, IsLease, Below
  <2>5. \A s \in Leased : pa[s].name.name \notin {"..", ""}
    BY <2>4, Zenon DEF Nameable
  <2> QED BY <2>3, <2>4, <2>5 DEF Inside
<1> QED BY <1>1, WalkAlways, PTL

----------------------------------------------------------------------------
(* What is held, and for what                                              *)

LeasedIn(p) == {s \in Slots : p[s] # NoLease}

(* By kind: what the leases have to give back, and a poll.                 *)
LeasesIn(p, kind) ==
  {s \in LeasedIn(p) : \/ kind = "references"
                       \/ kind = "blocks" /\ p[s].start
                       \/ kind = "dirs" /\ p[s].opened}
Leases(p) == [kind \in Kinds |-> Cardinality(LeasesIn(p, kind))]

Busy == {"subscribe", "wait", "release"}
Polled(q) ==
  [kind \in Kinds |->
     IF q.pc \notin Busy THEN 0 ELSE
     IF kind = "blocks" THEN 2 ELSE
     IF kind = "locks" THEN (IF q.pc = "subscribe" THEN 1 ELSE 0) ELSE
     IF kind = "references" THEN Cardinality(q.good) ELSE 0]

Owed(p, l, q) == [kind \in Kinds |-> Leases(p)[kind] + Looked(l)[kind] + Polled(q)[kind]]

(* What remains is what the steps of the program have got.                 *)
Need(h, o) == [kind \in Kinds |-> h[kind] - o[kind]]
Has == Resources(Need(held, Owed(pa, lk, poll)), LeasedIn(pa), granted)
Now(placed) == Stand(ret, failed, placed, Has)

(* What a call needs, kind by kind.                                        *)
LEMMA NeedIs ==
  ASSUME NEW h, h \in Counts, NEW o, o \in Counts
  PROVE  Need(h, o) \in Counts /\ \A k \in Kinds : Need(h, o)[k] = h[k] - o[k]
BY DEF Need, Counts

(* Two functions on the kinds are equal when their values are.             *)
LEMMA SameCounts ==
  ASSUME NEW h, h \in Counts, NEW g, g \in Counts, \A k \in Kinds : h[k] = g[k]
  PROVE  h = g
BY DEF Counts

(* When what is held changes as what is owed does, the need stays.         *)
LEMMA NeedSame ==
  ASSUME NEW h, h \in Counts, NEW o, o \in Counts, NEW g, g \in Counts, NEW u, u \in Counts,
         \A k \in Kinds : g[k] - u[k] = h[k] - o[k]
  PROVE  Need(g, u) = Need(h, o)
<1>1. \A k \in Kinds : Need(g, u)[k] = Need(h, o)[k]
  BY NeedIs
<1> QED BY <1>1, NeedIs, SameCounts

(* One more is held ...                                                    *)
LEMMA NeedPlus ==
  ASSUME NEW h, h \in Counts, NEW o, o \in Counts, NEW kind, kind \in Kinds
  PROVE  Need(Plus(h, kind, 1), o) = Plus(Need(h, o), kind, 1)
<1> DEFINE g == Plus(h, kind, 1)
           n == Need(h, o)
           m == Plus(n, kind, 1)
<1>1. g \in Counts /\ \A k \in Kinds : g[k] = IF k = kind THEN h[k] + 1 ELSE h[k]
  BY CountingUp
<1>2. n \in Counts /\ \A k \in Kinds : n[k] = h[k] - o[k]
  BY NeedIs
<1> HIDE DEF n
<1>3. m \in Counts /\ \A k \in Kinds : m[k] = IF k = kind THEN n[k] + 1 ELSE n[k]
  BY <1>2, CountingUp
<1> HIDE DEF g, m
<1>4. Need(g, o) \in Counts /\ \A k \in Kinds : Need(g, o)[k] = g[k] - o[k]
  BY <1>1, NeedIs
<1>5. \A k \in Kinds : Need(g, o)[k] = m[k]
  BY <1>1, <1>2, <1>3, <1>4, CountsAre
<1>6. Need(g, o) = m
  BY <1>3, <1>4, <1>5, SameCounts
<1> QED BY <1>6 DEF g, m, n

(* ... or one less.                                                        *)
LEMMA NeedMinus ==
  ASSUME NEW h, h \in Counts, NEW o, o \in Counts, NEW kind, kind \in Kinds
  PROVE  Need(Minus(h, kind, 1), o) = Minus(Need(h, o), kind, 1)
<1> DEFINE g == Minus(h, kind, 1)
           n == Need(h, o)
           m == Minus(n, kind, 1)
<1>1. g \in Counts /\ \A k \in Kinds : g[k] = IF k = kind THEN h[k] - 1 ELSE h[k]
  BY CountingDown
<1>2. n \in Counts /\ \A k \in Kinds : n[k] = h[k] - o[k]
  BY NeedIs
<1> HIDE DEF n
<1>3. m \in Counts /\ \A k \in Kinds : m[k] = IF k = kind THEN n[k] - 1 ELSE n[k]
  BY <1>2, CountingDown
<1> HIDE DEF g, m
<1>4. Need(g, o) \in Counts /\ \A k \in Kinds : Need(g, o)[k] = g[k] - o[k]
  BY <1>1, NeedIs
<1>5. \A k \in Kinds : Need(g, o)[k] = m[k]
  BY <1>1, <1>2, <1>3, <1>4, CountsAre
<1>6. Need(g, o) = m
  BY <1>3, <1>4, <1>5, SameCounts
<1> QED BY <1>6 DEF g, m, n

(* There are four slots.                                                   *)
LEMMA SlotsFinite == IsFiniteSet(Slots)
<1>1. IsFiniteSet({"fd"})
  BY FS_Singleton
<1>2. IsFiniteSet({"fd"} \cup {"pa"})
  BY <1>1, FS_AddElement
<1>3. IsFiniteSet(({"fd"} \cup {"pa"}) \cup {"old"})
  BY <1>2, FS_AddElement
<1>4. IsFiniteSet((({"fd"} \cup {"pa"}) \cup {"old"}) \cup {"new"})
  BY <1>3, FS_AddElement
<1>5. (({"fd"} \cup {"pa"}) \cup {"old"}) \cup {"new"} = Slots
  BY DEF Slots
<1> QED BY <1>4, <1>5

(* So the leases can be counted.                                           *)
LEMMA LeasesFinite ==
  ASSUME NEW p, NEW kind
  PROVE  IsFiniteSet(LeasesIn(p, kind)) /\ Cardinality(LeasesIn(p, kind)) \in Nat
<1>1. LeasesIn(p, kind) \subseteq Slots
  BY DEF LeasesIn, LeasedIn
<1>2. IsFiniteSet(LeasesIn(p, kind))
  BY <1>1, SlotsFinite, FS_Subset
<1> QED BY <1>2, FS_CardinalityType

(* How many leases there are, by kind.                                     *)
LEMMA LeasesCount ==
  ASSUME NEW p
  PROVE  Leases(p) \in Counts /\ \A k \in Kinds : Leases(p)[k] \in Nat
<1>1. \A k \in Kinds : Cardinality(LeasesIn(p, k)) \in Nat
  BY LeasesFinite
<1>2. \A k \in Kinds : Leases(p)[k] = Cardinality(LeasesIn(p, k))
  BY DEF Leases
<1>3. Leases(p) = [k \in Kinds |-> Leases(p)[k]]
  BY DEF Leases
<1> HIDE DEF Leases
<1> QED BY <1>1, <1>2, <1>3 DEF Counts

(* How much a lookup has, by kind.                                         *)
LEMMA LookedCounts ==
  ASSUME NEW l, Walking(l)
  PROVE  Looked(l) \in Counts
<1>1. CASE l.pc = "idle"
  BY <1>1 DEF Looked, Counts
<1>2. CASE l.pc # "idle"
  <2> DEFINE i == Len(l.paths)
             j == Len(l.fds) - 1
  <2>0. Len(l.paths) \in Nat /\ Len(l.fds) \in Nat \ {0}
    BY <1>2, WalkIs
  <2>1. i \in Int /\ j \in Int
    BY <2>0
  <2>2. Looked(l) = [kind \in Kinds |-> IF kind = "blocks" THEN i ELSE IF kind = "dirs" THEN j ELSE
                                        IF kind = "references" THEN 1 ELSE 0]
    BY <1>2 DEF Looked
  <2> HIDE DEF i, j
  <2> QED BY <2>1, <2>2 DEF Counts
<1> QED BY <1>1, <1>2

(* How much a poll has, by kind.                                           *)
LEMMA PolledCounts ==
  ASSUME NEW q, IsFiniteSet(q.good)
  PROVE  Polled(q) \in Counts
<1> DEFINE c == Cardinality(q.good)
           b == IF q.pc = "subscribe" THEN 1 ELSE 0
<1>1. c \in Int /\ b \in Int
  BY FS_CardinalityType
<1>2. Polled(q) = [kind \in Kinds |-> IF q.pc \notin Busy THEN 0 ELSE IF kind = "blocks" THEN 2 ELSE
                     IF kind = "locks" THEN b ELSE IF kind = "references" THEN c ELSE 0]
  BY DEF Polled
<1> HIDE DEF c, b
<1> QED BY <1>1, <1>2 DEF Counts

(* What is owed is the sum of the three.                                   *)
LEMMA OwedIs ==
  ASSUME NEW p, NEW l, NEW q, Walking(l), IsFiniteSet(q.good)
  PROVE  /\ Owed(p, l, q) \in Counts
         /\ Leases(p) \in Counts /\ Looked(l) \in Counts /\ Polled(q) \in Counts
         /\ \A k \in Kinds : Owed(p, l, q)[k] = Leases(p)[k] + Looked(l)[k] + Polled(q)[k]
<1> DEFINE a == Leases(p)
           b == Looked(l)
           c == Polled(q)
<1>1. a \in Counts /\ b \in Counts /\ c \in Counts
  BY LeasesCount, LookedCounts, PolledCounts
<1>2. Owed(p, l, q) = [k \in Kinds |-> a[k] + b[k] + c[k]]
  BY DEF Owed
<1> HIDE DEF a, b, c
<1>3. Owed(p, l, q) \in Counts /\ \A k \in Kinds : Owed(p, l, q)[k] = a[k] + b[k] + c[k]
  BY <1>1, <1>2 DEF Counts
<1> QED BY <1>1, <1>3 DEF a, b, c

----------------------------------------------------------------------------
(* What a step does to what the call has                                   *)

(* The parts of what a call has.                                           *)
LEMMA HasParts ==
  /\ Has.need = Need(held, Owed(pa, lk, poll)) /\ Has.leased = LeasedIn(pa) /\ Has.granted = granted
  /\ Has = Resources(Has.need, Has.leased, Has.granted)
BY DEF Has, Resources

(* What is held and what is owed are numbers.                              *)
LEMMA OwedCounts ==
  ASSUME WalkInv
  PROVE  held \in Counts /\ Owed(pa, lk, poll) \in Counts
BY OwedIs DEF WalkInv

(* What a call has is well-formed.                                         *)
LEMMA HasIs ==
  ASSUME WalkInv, granted = [s \in Slots |-> granted[s]]
  PROVE  IsResources(Has)
<1>1. Need(held, Owed(pa, lk, poll)) \in [Kinds -> Int]
  BY OwedCounts, NeedIs DEF Counts
<1>2. LeasedIn(pa) \subseteq Slots
  BY DEF LeasedIn
<1> QED BY <1>1, <1>2, HasParts DEF IsResources

(* It depends on nothing else.                                             *)
LEMMA HasSame ==
  ASSUME UNCHANGED <<held, pa, lk, poll, granted>>
  PROVE  Has' = Has
BY DEF Has

(* The call gets one of a kind ...                                         *)
LEMMA HasGains ==
  ASSUME WalkInv, UNCHANGED <<pa, lk, poll, granted>>, NEW kind, kind \in Kinds,
         held' = Plus(held, kind, 1)
  PROVE  Has' = Gained(Has, kind)
<1> DEFINE o == Owed(pa, lk, poll)
<1>1. Need(held', o) = Plus(Need(held, o), kind, 1)
  BY OwedCounts, NeedPlus
<1>2. Has' = Resources(Need(held', o), LeasedIn(pa), granted)
  BY DEF Has
<1> HIDE DEF o
<1>3. Has.need = Need(held, o) /\ Has.leased = LeasedIn(pa) /\ Has.granted = granted
  BY HasParts DEF o
<1> QED BY <1>1, <1>2, <1>3 DEF Gained

(* ... or gives one back.                                                  *)
LEMMA HasGives ==
  ASSUME WalkInv, UNCHANGED <<pa, lk, poll, granted>>, NEW kind, kind \in Kinds,
         held' = Minus(held, kind, 1)
  PROVE  Has' = Given(Has, kind)
<1> DEFINE o == Owed(pa, lk, poll)
<1>1. Need(held', o) = Minus(Need(held, o), kind, 1)
  BY OwedCounts, NeedMinus
<1>2. Has' = Resources(Need(held', o), LeasedIn(pa), granted)
  BY DEF Has
<1> HIDE DEF o
<1>3. Has.need = Need(held, o) /\ Has.leased = LeasedIn(pa) /\ Has.granted = granted
  BY HasParts DEF o
<1> QED BY <1>1, <1>2, <1>3 DEF Given

(* It gets a reference with some rights ...                                *)
LEMMA HasReferred ==
  ASSUME WalkInv, UNCHANGED <<pa, lk, poll>>, NEW rights,
         held' = Plus(held, "references", 1), granted' = [granted EXCEPT !["fd"] = rights]
  PROVE  Has' = Entitled(Gained(Has, "references"), "fd", rights)
<1> DEFINE o == Owed(pa, lk, poll)
<1>1. Need(held', o) = Plus(Need(held, o), "references", 1)
  BY OwedCounts, KindsAre, NeedPlus
<1>2. Has' = Resources(Need(held', o), LeasedIn(pa), granted')
  BY DEF Has
<1> HIDE DEF o
<1>3. Has.need = Need(held, o) /\ Has.leased = LeasedIn(pa) /\ Has.granted = granted
  BY HasParts DEF o
<1> QED BY <1>1, <1>2, <1>3 DEF Gained, Entitled, Resources

(* ... or gives it back.                                                   *)
LEMMA HasReleased ==
  ASSUME WalkInv, UNCHANGED <<pa, lk, poll>>, NEW rights,
         held' = Minus(held, "references", 1), granted' = [granted EXCEPT !["fd"] = rights]
  PROVE  Has' = Entitled(Given(Has, "references"), "fd", rights)
<1> DEFINE o == Owed(pa, lk, poll)
<1>1. Need(held', o) = Minus(Need(held, o), "references", 1)
  BY OwedCounts, KindsAre, NeedMinus
<1>2. Has' = Resources(Need(held', o), LeasedIn(pa), granted')
  BY DEF Has
<1> HIDE DEF o
<1>3. Has.need = Need(held, o) /\ Has.leased = LeasedIn(pa) /\ Has.granted = granted
  BY HasParts DEF o
<1> QED BY <1>1, <1>2, <1>3 DEF Given, Entitled, Resources

(* What is held changes as what is owed does.                              *)
LEMMA NeedKept ==
  ASSUME WalkInv, WalkInv',
         \A k \in Kinds : held'[k] - Owed(pa, lk, poll)'[k] = held[k] - Owed(pa, lk, poll)[k]
  PROVE  Has' = Resources(Has.need, LeasedIn(pa'), granted')
<1>1. held \in Counts /\ Owed(pa, lk, poll) \in Counts
  BY OwedCounts
<1>2. held' \in Counts /\ Owed(pa', lk', poll') \in Counts
  BY OwedIs DEF WalkInv
<1>3. Need(held', Owed(pa', lk', poll')) = Need(held, Owed(pa, lk, poll))
  BY <1>1, <1>2, NeedSame
<1> QED BY <1>3, HasParts DEF Has

(* The same, with the leases, the lookup and the poll one by one.          *)
LEMMA NeedParts ==
  ASSUME WalkInv, WalkInv',
         \A k \in Kinds : held'[k] - Leases(pa')[k] - Looked(lk')[k] - Polled(poll')[k]
                          = held[k] - Leases(pa)[k] - Looked(lk)[k] - Polled(poll)[k]
  PROVE  Has' = Resources(Has.need, LeasedIn(pa'), granted')
<1> DEFINE o == Owed(pa, lk, poll)
           a == Leases(pa)
           b == Looked(lk)
           c == Polled(poll)
           u == Owed(pa', lk', poll')
           d == Leases(pa')
           e == Looked(lk')
           f == Polled(poll')
<1>0. Walking(lk) /\ IsFiniteSet(poll.good) /\ Walking(lk') /\ IsFiniteSet(poll'.good)
  BY DEF WalkInv
<1>1. /\ a \in Counts /\ b \in Counts /\ c \in Counts
      /\ \A k \in Kinds : o[k] = a[k] + b[k] + c[k]
  <2>1. a \in Counts /\ b \in Counts /\ c \in Counts
    BY <1>0, OwedIs
  <2> QED BY <2>1 DEF Owed
<1>2. /\ d \in Counts /\ e \in Counts /\ f \in Counts
      /\ \A k \in Kinds : u[k] = d[k] + e[k] + f[k]
  BY <1>0, OwedIs
<1>3. held \in Counts /\ held' \in Counts
  BY DEF WalkInv
<1>4. ASSUME NEW k, k \in Kinds PROVE held'[k] - u[k] = held[k] - o[k]
  <2>1. held'[k] - d[k] - e[k] - f[k] = held[k] - a[k] - b[k] - c[k]
    BY <1>4
  <2> HIDE DEF o, u, a, b, c, d, e, f
  <2>2. o[k] = a[k] + b[k] + c[k] /\ u[k] = d[k] + e[k] + f[k]
    BY <1>1, <1>2, <1>4
  <2>3. /\ a[k] \in Int /\ b[k] \in Int /\ c[k] \in Int
        /\ d[k] \in Int /\ e[k] \in Int /\ f[k] \in Int
    BY <1>1, <1>2, <1>4, CountsAre
  <2>4. held[k] \in Int /\ held'[k] \in Int
    BY <1>3, <1>4, CountsAre
  <2> QED BY <2>1, <2>2, <2>3, <2>4
<1>5. \A k \in Kinds : held'[k] - Owed(pa, lk, poll)'[k] = held[k] - Owed(pa, lk, poll)[k]
  BY <1>4
<1> HIDE DEF o, u, a, b, c, d, e, f
<1> QED BY <1>5, NeedKept

(* A turn of the loop of path_get.                                         *)
LEMMA HasWalked ==
  ASSUME WalkInv, WalkInv', UNCHANGED <<pa, poll, granted>>, Keeps(held, lk, held', lk')
  PROVE  Has' = Has
<1> DEFINE a == Leases(pa)
           b == Looked(lk)
           c == Polled(poll)
           d == Looked(lk')
<1>0. Walking(lk) /\ IsFiniteSet(poll.good) /\ Walking(lk') /\ held \in Counts /\ held' \in Counts
  BY DEF WalkInv
<1>1. a \in Counts /\ b \in Counts /\ c \in Counts /\ d \in Counts
  BY <1>0, OwedIs
<1>2. ASSUME NEW k, k \in Kinds PROVE held'[k] - a[k] - d[k] - c[k] = held[k] - a[k] - b[k] - c[k]
  <2>1. held'[k] - d[k] = held[k] - b[k]
    BY <1>2 DEF Keeps
  <2> HIDE DEF a, b, c, d
  <2>2. /\ a[k] \in Int /\ b[k] \in Int /\ c[k] \in Int /\ d[k] \in Int
        /\ held[k] \in Int /\ held'[k] \in Int
    BY <1>0, <1>1, <1>2, CountsAre
  <2> QED BY <2>1, <2>2
<1>3. \A k \in Kinds : held'[k] - Leases(pa')[k] - Looked(lk')[k] - Polled(poll')[k]
                       = held[k] - Leases(pa)[k] - Looked(lk)[k] - Polled(poll)[k]
  BY <1>2
<1> HIDE DEF a, b, c, d
<1>4. Has' = Resources(Has.need, LeasedIn(pa'), granted')
  BY <1>3, NeedParts
<1> QED BY <1>4, HasParts

(* path_get begins.                                                        *)
LEMMA HasLooks ==
  ASSUME WalkInv, WalkInv', UNCHANGED <<pa, poll>>, lk.pc = "idle",
         lk'.pc # "idle", Len(lk'.fds) = 1, Len(lk'.paths) = 1,
         held' = Plus(Plus(held, "blocks", 1), "references", 1),
         NEW slot, NEW rights, granted' = [granted EXCEPT ![slot] = rights]
  PROVE  Has' = Entitled(Has, slot, rights)
<1> DEFINE a == Leases(pa)
           b == Looked(lk)
           c == Polled(poll)
           d == Looked(lk')
           h == Plus(held, "blocks", 1)
<1>0. Walking(lk) /\ IsFiniteSet(poll.good) /\ Walking(lk') /\ held \in Counts /\ held' \in Counts
  BY DEF WalkInv
<1>1. a \in Counts /\ b \in Counts /\ c \in Counts /\ d \in Counts
  BY <1>0, OwedIs
<1>2. \A k \in Kinds : b[k] = 0 /\ d[k] = IF k \in {"blocks", "references"} THEN 1 ELSE 0
  BY DEF Looked
<1>3. h \in Counts /\ \A k \in Kinds : h[k] = IF k = "blocks" THEN held[k] + 1 ELSE held[k]
  BY <1>0, KindsAre, CountingUp
<1> HIDE DEF h
<1>4. \A k \in Kinds : held'[k] = IF k = "references" THEN h[k] + 1 ELSE h[k]
  BY <1>3, KindsAre, CountingUp DEF h
<1>5. ASSUME NEW k, k \in Kinds PROVE held'[k] - a[k] - d[k] - c[k] = held[k] - a[k] - b[k] - c[k]
  <2> HIDE DEF a, b, c, d
  <2>2. /\ a[k] \in Int /\ b[k] \in Int /\ c[k] \in Int /\ d[k] \in Int
        /\ held[k] \in Int /\ held'[k] \in Int
    BY <1>0, <1>1, <1>5, CountsAre
  <2>3. held'[k] = held[k] + d[k] /\ b[k] = 0
    BY <1>2, <1>3, <1>4, <1>5, <2>2
  <2> QED BY <2>2, <2>3
<1>6. \A k \in Kinds : held'[k] - Leases(pa')[k] - Looked(lk')[k] - Polled(poll')[k]
                       = held[k] - Leases(pa)[k] - Looked(lk)[k] - Polled(poll)[k]
  BY <1>5
<1> HIDE DEF a, b, c, d
<1>7. Has' = Resources(Has.need, LeasedIn(pa'), granted')
  BY <1>6, NeedParts
<1> QED BY <1>7, HasParts DEF Entitled

(* path_get fails: what it has is given back.                              *)
LEMMA HasRefused ==
  ASSUME WalkInv, WalkInv', UNCHANGED <<pa, poll>>, lk.pc = "fail", lk' = NoLookup,
         held' = HeldAfterFail
  PROVE  Has' = Resources(Has.need, LeasedIn(pa), granted')
<1> DEFINE a == Leases(pa)
           b == Looked(lk)
           c == Polled(poll)
           d == Looked(lk')
           i == Len(lk.fds) - 1
           j == Len(lk.paths)
           h == Minus(held, "dirs", i)
           g == Minus(h, "blocks", j)
<1>0. Walking(lk) /\ IsFiniteSet(poll.good) /\ Walking(lk') /\ held \in Counts /\ held' \in Counts
  BY DEF WalkInv
<1>1. a \in Counts /\ b \in Counts /\ c \in Counts /\ d \in Counts
  BY <1>0, OwedIs
<1>8. i \in Int /\ j \in Int
  <2>1. lk.pc # "idle"
    OBVIOUS
  <2>2. Len(lk.fds) \in Nat \ {0} /\ Len(lk.paths) \in Nat
    BY <1>0, <2>1, WalkIs
  <2> QED BY <2>2
<1>2. \A k \in Kinds : /\ b[k] = IF k = "dirs" THEN i ELSE IF k = "blocks" THEN j ELSE
                                 IF k = "references" THEN 1 ELSE 0
                       /\ d[k] = 0
  <2>1. NoLookup.pc = "idle"
    BY DEF NoLookup
  <2> QED BY <2>1 DEF Looked
<1>9. held' = Minus(g, "references", 1)
  BY DEF HeldAfterFail
<1> HIDE DEF i, j
<1>3. h \in Counts /\ \A k \in Kinds : h[k] = IF k = "dirs" THEN held[k] - i ELSE held[k]
  BY <1>0, <1>8, KindsAre, CountingDown
<1> HIDE DEF h
<1>4. g \in Counts /\ \A k \in Kinds : g[k] = IF k = "blocks" THEN h[k] - j ELSE h[k]
  BY <1>3, <1>8, KindsAre, CountingDown
<1> HIDE DEF g
<1>10. \A k \in Kinds : held'[k] = IF k = "references" THEN g[k] - 1 ELSE g[k]
  BY <1>4, <1>9, KindsAre, CountingDown
<1>5. ASSUME NEW k, k \in Kinds PROVE held'[k] - a[k] - d[k] - c[k] = held[k] - a[k] - b[k] - c[k]
  <2> HIDE DEF a, b, c, d
  <2>2. /\ a[k] \in Int /\ b[k] \in Int /\ c[k] \in Int /\ d[k] \in Int
        /\ held[k] \in Int /\ held'[k] \in Int
    BY <1>0, <1>1, <1>5, CountsAre
  <2>3. held'[k] = held[k] - b[k] /\ d[k] = 0
    BY <1>2, <1>3, <1>4, <1>5, <1>8, <1>10, <2>2
  <2> QED BY <2>2, <2>3
<1>6. \A k \in Kinds : held'[k] - Leases(pa')[k] - Looked(lk')[k] - Polled(poll')[k]
                       = held[k] - Leases(pa)[k] - Looked(lk)[k] - Polled(poll)[k]
  BY <1>5
<1> HIDE DEF a, b, c, d
<1>7. Has' = Resources(Has.need, LeasedIn(pa'), granted')
  BY <1>6, NeedParts
<1> QED BY <1>7

(* One more lease, and one less.                                           *)
Takes(x, kind) == kind = "references" \/ (kind = "blocks" /\ x.start) \/ (kind = "dirs" /\ x.opened)
Due(x, kind) == IF Takes(x, kind) THEN 1 ELSE 0

(* A slot gets a lease ...                                                 *)
LEMMA LeaseAdded ==
  ASSUME NEW p, p = [s \in Slots |-> p[s]], NEW slot, slot \in Slots, slot \notin LeasedIn(p),
         NEW x, x # NoLease, NEW q, q = [p EXCEPT ![slot] = x]
  PROVE  /\ LeasedIn(q) = LeasedIn(p) \cup {slot}
         /\ \A k \in Kinds : Leases(q)[k] = Leases(p)[k] + Due(x, k)
<1>1. q[slot] = x /\ \A s \in Slots : s # slot => q[s] = p[s]
  OBVIOUS
<1>2. LeasedIn(q) = LeasedIn(p) \cup {slot}
  BY <1>1 DEF LeasedIn
<1>3. ASSUME NEW k, k \in Kinds PROVE Leases(q)[k] = Leases(p)[k] + Due(x, k)
  <2> DEFINE P == LeasesIn(p, k)
             Q == LeasesIn(q, k)
  <2>1. slot \notin P /\ IsFiniteSet(P) /\ Cardinality(P) \in Nat
    BY LeasesFinite DEF LeasesIn
  <2>2. CASE Takes(x, k)
    <3>1. Q = P \cup {slot}
      BY <1>1, <1>2, <2>2 DEF LeasesIn, LeasedIn, Takes
    <3> HIDE DEF P, Q
    <3>2. Cardinality(Q) = Cardinality(P) + 1
      BY <2>1, <3>1, FS_AddElement
    <3>3. Leases(q)[k] = Cardinality(Q) /\ Leases(p)[k] = Cardinality(P)
      BY <1>3 DEF Leases, P, Q
    <3> QED BY <2>2, <3>2, <3>3 DEF Due
  <2>3. CASE ~Takes(x, k)
    <3>1. Q = P
      BY <1>1, <1>2, <2>3 DEF LeasesIn, LeasedIn, Takes
    <3> HIDE DEF P, Q
    <3>3. Leases(q)[k] = Cardinality(Q) /\ Leases(p)[k] = Cardinality(P)
      BY <1>3 DEF Leases, P, Q
    <3> QED BY <2>1, <2>3, <3>1, <3>3 DEF Due
  <2> QED BY <2>2, <2>3
<1> QED BY <1>2, <1>3

(* ... or loses it.                                                        *)
LEMMA LeaseRemoved ==
  ASSUME NEW p, p = [s \in Slots |-> p[s]], NEW slot, slot \in LeasedIn(p),
         NEW q, q = [p EXCEPT ![slot] = NoLease]
  PROVE  /\ LeasedIn(q) = LeasedIn(p) \ {slot}
         /\ \A k \in Kinds : Leases(q)[k] = Leases(p)[k] - Due(p[slot], k)
<1> DEFINE x == p[slot]
<1>1. slot \in Slots /\ x # NoLease /\ slot \notin LeasedIn(q)
  BY DEF LeasedIn
<1>2. q = [s \in Slots |-> q[s]] /\ p = [q EXCEPT ![slot] = x]
  OBVIOUS
<1>3. /\ LeasedIn(p) = LeasedIn(q) \cup {slot}
      /\ \A k \in Kinds : Leases(p)[k] = Leases(q)[k] + Due(x, k)
  <2> HIDE DEF x
  <2> QED BY <1>1, <1>2, LeaseAdded
<1>4. \A k \in Kinds : Leases(p)[k] \in Int /\ Leases(q)[k] \in Int
  BY LeasesCount, CountsAre
<1>5. \A k : Due(x, k) \in Int
  BY DEF Due
<1> HIDE DEF x
<1>6. \A k \in Kinds : Leases(q)[k] = Leases(p)[k] - Due(x, k)
  BY <1>3, <1>4, <1>5
<1>7. LeasedIn(q) = LeasedIn(p) \ {slot}
  BY <1>1, <1>3
<1> QED BY <1>6, <1>7 DEF x

(* path_get succeeds: what it has becomes the lease.                       *)
LEMMA HasFound ==
  ASSUME WalkInv, WalkInv', UNCHANGED <<poll, granted>>, lk.pc = "success", lk' = NoLookup,
         held' = HeldAfterSuccess, NEW slot, slot \in Slots, slot \notin LeasedIn(pa),
         pa' = [pa EXCEPT ![slot] = Lease]
  PROVE  Has' = Resources(Has.need, LeasedIn(pa) \cup {slot}, granted)
<1> DEFINE a == Leases(pa)
           b == Looked(lk)
           c == Polled(poll)
           d == Looked(lk')
           e == Leases(pa')
           i == Len(lk.fds)
           j == Len(lk.paths)
           t == Between(lk.fds)
<1>0. /\ Walking(lk) /\ IsFiniteSet(poll.good) /\ Walking(lk') /\ held \in Counts /\ held' \in Counts
      /\ pa = [s \in Slots |-> pa[s]]
  BY DEF WalkInv
<1>1. a \in Counts /\ b \in Counts /\ c \in Counts /\ d \in Counts /\ e \in Counts
  BY <1>0, OwedIs
<1>2. i \in Nat \ {0} /\ j \in Nat /\ lk.paths \in Seq(Seq(Components))
  <2>1. lk.pc # "idle"
    OBVIOUS
  <2> QED BY <1>0, <2>1, WalkIs
<1>3. j <= 1
  BY <1>0 DEF Walking
<1>4. /\ Lease # NoLease /\ Lease.start = (lk.paths # <<>>) /\ Lease.opened = (Len(lk.fds) > 1)
  BY <1>0, FoundLease
<1>5. /\ LeasedIn(pa') = LeasedIn(pa) \cup {slot}
      /\ \A k \in Kinds : e[k] = a[k] + Due(Lease, k)
  <2> DEFINE x == Lease
  <2>1. x # NoLease /\ pa' = [pa EXCEPT ![slot] = x]
    BY <1>4
  <2> HIDE DEF x
  <2>2. /\ LeasedIn(pa') = LeasedIn(pa) \cup {slot}
        /\ \A k \in Kinds : Leases(pa')[k] = Leases(pa)[k] + Due(x, k)
    BY <1>0, <2>1, LeaseAdded
  <2> QED BY <2>2 DEF x
<1>6. t = IF i > 2 THEN i - 2 ELSE 0
  BY DEF Between
<1>7. Lease.start <=> j >= 1
  BY <1>2, <1>4, NotNil
<1>8. Lease.opened <=> i > 1
  BY <1>4
<1>9. held' = Minus(held, "dirs", t)
  BY DEF HeldAfterSuccess
<1>10. \A k \in Kinds : /\ b[k] = IF k = "dirs" THEN i - 1 ELSE IF k = "blocks" THEN j ELSE
                                  IF k = "references" THEN 1 ELSE 0
                        /\ d[k] = 0
  <2>1. NoLookup.pc = "idle"
    BY DEF NoLookup
  <2> QED BY <2>1 DEF Looked
<1> DEFINE x == Lease
<1> HIDE DEF i, j, t, x
<1>13. t \in Int
  BY <1>2, <1>6
<1>11. \A k \in Kinds : held'[k] = IF k = "dirs" THEN held[k] - t ELSE held[k]
  <2>1. held \in Counts
    BY <1>0
  <2>2. \A k \in Kinds : Minus(held, "dirs", t)[k] = IF k = "dirs" THEN held[k] - t ELSE held[k]
    BY <1>13, <2>1, KindsAre, CountingDown
  <2> QED BY <1>9, <2>2
<1>12. ASSUME NEW k, k \in Kinds PROVE held'[k] - e[k] - d[k] - c[k] = held[k] - a[k] - b[k] - c[k]
  <2> HIDE DEF a, b, c, d, e
  <2>2. /\ a[k] \in Int /\ b[k] \in Int /\ c[k] \in Int /\ d[k] \in Int
        /\ held[k] \in Int /\ held'[k] \in Int
    BY <1>0, <1>1, <1>12, CountsAre
  <2>3. e[k] = a[k] + Due(x, k) /\ d[k] = 0
    BY <1>5, <1>10, <1>12 DEF x
  <2>4. CASE k = "dirs"
    <3>1. Due(x, k) = IF i > 1 THEN 1 ELSE 0
      BY <1>8, <2>4 DEF Due, Takes, x
    <3>2. t + Due(x, k) = i - 1
      BY <1>2, <1>6, <3>1
    <3>4. Due(x, k) \in Int
      BY <3>1
    <3>3. held'[k] = held[k] - t /\ b[k] = i - 1
      BY <1>10, <1>11, <1>12, <2>4
    <3> QED BY <1>2, <1>13, <2>2, <2>3, <3>2, <3>3, <3>4
  <2>5. CASE k = "blocks"
    <3>1. Due(x, k) = IF j >= 1 THEN 1 ELSE 0
      BY <1>7, <2>5 DEF Due, Takes, x
    <3>2. Due(x, k) = j
      BY <1>2, <1>3, <3>1
    <3>3. held'[k] = held[k] /\ b[k] = j
      BY <1>10, <1>11, <1>12, <2>5
    <3> QED BY <1>2, <2>2, <2>3, <3>2, <3>3
  <2>6. CASE k = "references"
    <3>1. Due(x, k) = 1
      BY <2>6 DEF Due, Takes
    <3>3. held'[k] = held[k] /\ b[k] = 1
      BY <1>10, <1>11, <1>12, <2>6
    <3> QED BY <2>2, <2>3, <3>1, <3>3
  <2>7. CASE k \notin {"dirs", "blocks", "references"}
    <3>1. Due(x, k) = 0
      BY <2>7 DEF Due, Takes
    <3>3. held'[k] = held[k] /\ b[k] = 0
      BY <1>10, <1>11, <1>12, <2>7
    <3> QED BY <2>2, <2>3, <3>1, <3>3
  <2> QED BY <2>4, <2>5, <2>6, <2>7
<1>14. \A k \in Kinds : held'[k] - Leases(pa')[k] - Looked(lk')[k] - Polled(poll')[k]
                        = held[k] - Leases(pa)[k] - Looked(lk)[k] - Polled(poll)[k]
  BY <1>12
<1> HIDE DEF a, b, c, d, e
<1>15. Has' = Resources(Has.need, LeasedIn(pa'), granted')
  BY <1>14, NeedParts
<1> QED BY <1>5, <1>15

(* Counting three kinds down.                                              *)
LEMMA ThreeDown ==
  ASSUME NEW held0, held0 \in Counts, NEW i, i \in Int, NEW j, j \in Int
  PROVE  \A k \in Kinds :
           Minus(Minus(Minus(held0, "blocks", i), "dirs", j), "references", 1)[k] =
             held0[k] - IF k = "references" THEN 1 ELSE IF k = "blocks" THEN i ELSE IF k = "dirs" THEN j ELSE 0
<1> DEFINE h == Minus(held0, "blocks", i)
           g == Minus(h, "dirs", j)
           m == Minus(g, "references", 1)
<1>1. h \in Counts /\ \A k \in Kinds : h[k] = IF k = "blocks" THEN held0[k] - i ELSE held0[k]
  BY KindsAre, CountingDown
<1> HIDE DEF h
<1>2. g \in Counts /\ \A k \in Kinds : g[k] = IF k = "dirs" THEN h[k] - j ELSE h[k]
  BY <1>1, KindsAre, CountingDown
<1> HIDE DEF g
<1>3. \A k \in Kinds : m[k] = IF k = "references" THEN g[k] - 1 ELSE g[k]
  BY <1>2, KindsAre, CountingDown
<1> HIDE DEF m
<1>4. \A k \in Kinds : m[k] = held0[k] - IF k = "references" THEN 1 ELSE IF k = "blocks" THEN i ELSE
                                         IF k = "dirs" THEN j ELSE 0
  BY <1>1, <1>2, <1>3, CountsAre
<1> QED BY <1>4 DEF m, g, h

(* path_put gives back what the lease has.                                 *)
LEMMA HasPut ==
  ASSUME WalkInv, WalkInv', UNCHANGED <<lk, poll>>, NEW slot, slot \in LeasedIn(pa),
         held' = Put(held, pa[slot]), pa' = [pa EXCEPT ![slot] = NoLease]
  PROVE  Has' = Resources(Has.need, LeasedIn(pa) \ {slot}, granted')
<1> DEFINE a == Leases(pa)
           b == Looked(lk)
           c == Polled(poll)
           e == Leases(pa')
           x == pa[slot]
           i == IF x.start THEN 1 ELSE 0
           j == IF x.opened THEN 1 ELSE 0
<1>0. /\ Walking(lk) /\ IsFiniteSet(poll.good) /\ held \in Counts /\ held' \in Counts
      /\ pa = [s \in Slots |-> pa[s]]
  BY DEF WalkInv
<1>1. a \in Counts /\ b \in Counts /\ c \in Counts /\ e \in Counts
  BY <1>0, OwedIs
<1>5. /\ LeasedIn(pa') = LeasedIn(pa) \ {slot}
      /\ \A k \in Kinds : e[k] = a[k] - Due(x, k)
  BY <1>0, LeaseRemoved
<1>2. i \in Int /\ j \in Int
  OBVIOUS
<1>9. held' = Minus(Minus(Minus(held, "blocks", i), "dirs", j), "references", 1)
  BY DEF Put
<1>6. \A k \in Kinds : Due(x, k) = IF k = "references" THEN 1 ELSE IF k = "blocks" THEN i ELSE
                                   IF k = "dirs" THEN j ELSE 0
  BY DEF Due, Takes
<1> HIDE DEF x, i, j
<1>3. held \in Counts /\ i \in Int /\ j \in Int
  BY <1>0, <1>2
<1>7. \A k \in Kinds : held'[k] = held[k] - IF k = "references" THEN 1 ELSE IF k = "blocks" THEN i ELSE
                                            IF k = "dirs" THEN j ELSE 0
  BY <1>3, <1>9, ThreeDown
<1>12. ASSUME NEW k, k \in Kinds PROVE held'[k] - e[k] - b[k] - c[k] = held[k] - a[k] - b[k] - c[k]
  <2> HIDE DEF a, b, c, e
  <2>2. /\ a[k] \in Int /\ b[k] \in Int /\ c[k] \in Int
        /\ held[k] \in Int /\ held'[k] \in Int
    BY <1>0, <1>1, <1>12, CountsAre
  <2>3. e[k] = a[k] - Due(x, k)
    BY <1>5, <1>12
  <2>4. held'[k] = held[k] - Due(x, k) /\ Due(x, k) \in Int
    BY <1>2, <1>6, <1>7, <1>12, <2>2
  <2> QED BY <2>2, <2>3, <2>4
<1>14. \A k \in Kinds : held'[k] - Leases(pa')[k] - Looked(lk')[k] - Polled(poll')[k]
                        = held[k] - Leases(pa)[k] - Looked(lk)[k] - Polled(poll)[k]
  BY <1>12
<1> HIDE DEF a, b, c, e
<1>15. Has' = Resources(Has.need, LeasedIn(pa'), granted')
  BY <1>14, NeedParts
<1> QED BY <1>5, <1>15

----------------------------------------------------------------------------
(* What a poll does to what the call has                                   *)

(* The subscriptions that were taken are behind the next one.              *)
PollCounted(q) == q.next \in Nat /\ \A j \in q.good : j \in Nat /\ j < q.next

(* Polling changes what is held as it changes what the poll has.           *)
LEMMA HasPolled ==
  ASSUME WalkInv, WalkInv', UNCHANGED <<lk, pa, granted>>,
         \A k \in Kinds : held'[k] - Polled(poll')[k] = held[k] - Polled(poll)[k]
  PROVE  Has' = Has
<1> DEFINE a == Leases(pa)
           b == Looked(lk)
           c == Polled(poll)
           d == Polled(poll')
<1>0. /\ Walking(lk) /\ IsFiniteSet(poll.good) /\ IsFiniteSet(poll'.good)
      /\ held \in Counts /\ held' \in Counts
  BY DEF WalkInv
<1>1. a \in Counts /\ b \in Counts /\ c \in Counts /\ d \in Counts
  BY <1>0, OwedIs
<1>2. ASSUME NEW k, k \in Kinds PROVE held'[k] - a[k] - b[k] - d[k] = held[k] - a[k] - b[k] - c[k]
  <2>1. held'[k] - d[k] = held[k] - c[k]
    BY <1>2
  <2> HIDE DEF a, b, c, d
  <2>2. /\ a[k] \in Int /\ b[k] \in Int /\ c[k] \in Int /\ d[k] \in Int
        /\ held[k] \in Int /\ held'[k] \in Int
    BY <1>0, <1>1, <1>2, CountsAre
  <2> QED BY <2>1, <2>2
<1>3. \A k \in Kinds : held'[k] - Leases(pa')[k] - Looked(lk')[k] - Polled(poll')[k]
                       = held[k] - Leases(pa)[k] - Looked(lk)[k] - Polled(poll)[k]
  BY <1>2
<1> HIDE DEF a, b, c, d
<1>4. Has' = Resources(Has.need, LeasedIn(pa'), granted')
  BY <1>3, NeedParts
<1> QED BY <1>4, HasParts

(* A poll that begins: nothing for one clock, else the arrays and the lock *)
LEMMA HasSubscribes ==
  ASSUME WalkInv, WalkInv', UNCHANGED <<lk, pa, granted>>, poll.pc \notin Busy,
         poll'.pc = "subscribe", poll'.good = {},
         held' = Plus(Plus(held, "blocks", 2), "locks", 1)
  PROVE  Has' = Has
<1> DEFINE h == Plus(held, "blocks", 2)
<1>1. held \in Counts
  BY DEF WalkInv
<1>2. h \in Counts /\ \A k \in Kinds : h[k] = IF k = "blocks" THEN held[k] + 2 ELSE held[k]
  BY <1>1, KindsAre, CountingUp
<1>3. held' = Plus(h, "locks", 1)
  OBVIOUS
<1> HIDE DEF h
<1>4. \A k \in Kinds : Plus(h, "locks", 1)[k] = IF k = "locks" THEN h[k] + 1 ELSE h[k]
  BY <1>2, KindsAre, CountingUp
<1>5. Cardinality(poll'.good) = 0
  BY FS_EmptySet
<1>6. \A k \in Kinds : /\ Polled(poll)[k] = 0
                       /\ Polled(poll')[k] = IF k = "blocks" THEN 2 ELSE IF k = "locks" THEN 1 ELSE 0
  BY <1>5 DEF Polled, Busy
<1>7. \A k \in Kinds : held'[k] - Polled(poll')[k] = held[k] - Polled(poll)[k]
  BY <1>1, <1>2, <1>3, <1>4, <1>6, CountsAre
<1> QED BY <1>7, HasPolled

(* What it has does not depend on the rest of the poll.                    *)
LEMMA HasSits ==
  ASSUME WalkInv, WalkInv', UNCHANGED <<lk, pa, granted, held>>,
         \/ poll.pc \notin Busy /\ poll'.pc \notin Busy
         \/ poll'.pc = poll.pc /\ poll'.good = poll.good
         \/ poll.pc = "wait" /\ poll'.pc = "release" /\ poll'.good = poll.good
  PROVE  Has' = Has
<1>1. \A k \in Kinds : Polled(poll')[k] = Polled(poll)[k]
  BY DEF Polled, Busy
<1>2. \A k \in Kinds : held'[k] - Polled(poll')[k] = held[k] - Polled(poll)[k]
  BY <1>1
<1> QED BY <1>2, HasPolled

(* A reference of a subscription is got.                                   *)
LEMMA HasSubscribed ==
  ASSUME WalkInv, WalkInv', UNCHANGED <<lk, pa, granted>>, poll.pc = "subscribe", poll'.pc = "subscribe",
         NEW i, i \notin poll.good, poll'.good = poll.good \cup {i},
         held' = Plus(held, "references", 1)
  PROVE  Has' = Has
<1> DEFINE m == Cardinality(poll.good)
<1>1. held \in Counts /\ IsFiniteSet(poll.good)
  BY DEF WalkInv
<1>4. \A k \in Kinds : Plus(held, "references", 1)[k] = IF k = "references" THEN held[k] + 1 ELSE held[k]
  BY <1>1, KindsAre, CountingUp
<1>5. Cardinality(poll'.good) = m + 1 /\ m \in Nat
  BY <1>1, FS_AddElement, FS_CardinalityType
<1>6. \A k \in Kinds : /\ Polled(poll)[k] = IF k = "blocks" THEN 2 ELSE IF k = "locks" THEN 1 ELSE
                                            IF k = "references" THEN m ELSE 0
                       /\ Polled(poll')[k] = IF k = "blocks" THEN 2 ELSE IF k = "locks" THEN 1 ELSE
                                             IF k = "references" THEN m + 1 ELSE 0
  BY <1>5 DEF Polled, Busy
<1>8. m \in Int
  BY <1>5
<1> HIDE DEF m
<1>9. \A k \in Kinds : held[k] \in Int
  BY <1>1, CountsAre
<1>7. \A k \in Kinds : held'[k] - Polled(poll')[k] = held[k] - Polled(poll)[k]
  BY <1>8, <1>9, <1>4, <1>6
<1> QED BY <1>7, HasPolled

(* The table is unlocked before the wait.                                  *)
LEMMA HasUnlocked ==
  ASSUME WalkInv, WalkInv', UNCHANGED <<lk, pa, granted>>, poll.pc = "subscribe", poll'.pc = "wait",
         poll'.good = poll.good, held' = Minus(held, "locks", 1)
  PROVE  Has' = Has
<1>1. held \in Counts
  BY DEF WalkInv
<1>4. \A k \in Kinds : Minus(held, "locks", 1)[k] = IF k = "locks" THEN held[k] - 1 ELSE held[k]
  BY <1>1, KindsAre, CountingDown
<1>6. \A k \in Kinds : Polled(poll')[k] = IF k = "locks" THEN 0 ELSE Polled(poll)[k]
  BY DEF Polled, Busy
<1>5. Polled(poll)["locks"] = 1 /\ Polled(poll) \in Counts
  <2>1. IsFiniteSet(poll.good)
    BY DEF WalkInv
  <2>2. Polled(poll)["locks"] = 1
    BY KindsAre DEF Polled, Busy
  <2> QED BY <2>1, <2>2, PolledCounts
<1>8. \A k \in Kinds : held[k] \in Int /\ Polled(poll)[k] \in Int
  BY <1>1, <1>5, CountsAre
<1>7. \A k \in Kinds : held'[k] - Polled(poll')[k] = held[k] - Polled(poll)[k]
  BY <1>8, <1>4, <1>5, <1>6
<1> QED BY <1>7, HasPolled

(* The references and the arrays are given back.                           *)
LEMMA HasAnswered ==
  ASSUME WalkInv, WalkInv', UNCHANGED <<lk, pa, granted>>, poll.pc = "release", poll'.pc = "done",
         held' = Minus(Minus(held, "references", Cardinality(poll.good)), "blocks", 2)
  PROVE  Has' = Has
<1> DEFINE m == Cardinality(poll.good)
           h == Minus(held, "references", m)
<1>1. held \in Counts /\ m \in Int
  BY FS_CardinalityType DEF WalkInv
<1>6. \A k \in Kinds : /\ Polled(poll')[k] = 0
                       /\ Polled(poll)[k] = IF k = "blocks" THEN 2 ELSE IF k = "references" THEN m ELSE 0
  BY KindsAre DEF Polled, Busy
<1>3. held' = Minus(h, "blocks", 2)
  OBVIOUS
<1> HIDE DEF m
<1>2. h \in Counts /\ \A k \in Kinds : h[k] = IF k = "references" THEN held[k] - m ELSE held[k]
  BY <1>1, KindsAre, CountingDown
<1> HIDE DEF h
<1>4. \A k \in Kinds : Minus(h, "blocks", 2)[k] = IF k = "blocks" THEN h[k] - 2 ELSE h[k]
  BY <1>2, KindsAre, CountingDown
<1>8. \A k \in Kinds : held[k] \in Int
  BY <1>1, CountsAre
<1>9. m \in Int
  BY <1>1
<1>7. \A k \in Kinds : held'[k] - Polled(poll')[k] = held[k] - Polled(poll)[k]
  BY <1>8, <1>9, <1>2, <1>3, <1>4, <1>6
<1> QED BY <1>7, HasPolled

----------------------------------------------------------------------------
(* Where a call is                                                         *)

Resting == {"idle", "done"}
Polls == {"sleep", "subscribe", "wait"}

(* An outline of the program, with its ends.                               *)
Outlined(name, p, A, Post, Err) ==
  /\ IsProgram(p) /\ Outline(name, p, A, Post, Err)
  /\ \A c \in Post : Settled(name, c)
  /\ \A r \in Err : Abandoned(name, r)

(* Step n of p is next, or the end: l is the counter of the lookup, q that *)
(* of the poll, and c where the call stands.                               *)
Ahead(p, A, n, k, l, q, c) ==
  k = 0 /\ n \in 1 .. Len(p) + 1 /\ l = "idle" /\ q \in Resting /\ c \in A[n]

(* Step n polls: the result is not known yet, or is.                       *)
Polling(p, A, n, k, l, q, c) ==
  /\ k = 0 /\ n \in 1 .. Len(p) /\ p[n].op = "poll" /\ l = "idle"
  /\ \/ q \in Polls /\ c \in A[n]
     \/ q \in {"release", "done"} /\ c \in A[n + 1]

(* Step n is a lookup on its way, with a reference for its slot.           *)
Before(step, c) == Stand(c.ret, c.failed, c.placed, Entitled(c.has, step.arg.slot, {}))
Looking(p, A, n, k, l, q, c) ==
  /\ k = 0 /\ n \in 1 .. Len(p) /\ p[n].op = "path_get" /\ l # "idle" /\ q \in Resting
  /\ Before(p[n], c) \in A[n]
  /\ c.has.granted[p[n].arg.slot] = p[n].arg.rights

(* Step n failed, and step k of its cleanup is next, or the end.           *)
Cleaned(p, Err, n, k, l, q, r) ==
  /\ n \in 1 .. Len(p) /\ k \in 1 .. Len(p[n].undo) + 1 /\ l = "idle" /\ q \in Resting
  /\ \E B : Undoing(p[n].undo, B, Err) /\ r = B[k]

Stands(p, A, Err, n, k, l, q, c) ==
  \/ Ahead(p, A, n, k, l, q, c)
  \/ Polling(p, A, n, k, l, q, c)
  \/ Looking(p, A, n, k, l, q, c)
  \/ Cleaned(p, Err, n, k, l, q, c.has)

(* The lengths are numbers.                                                *)
LEMMA StepsCounted ==
  ASSUME NEW p, IsProgram(p)
  PROVE  Len(p) \in Nat /\ \A n \in 1 .. Len(p) : IsStep(p[n]) /\ Len(p[n].undo) \in Nat
<1>1. \A q : IsSteps(q) => Len(q) \in Nat
  BY DEF IsSteps
<1>2. IsSteps(p) /\ \A n \in 1 .. Len(p) : IsStep(p[n]) /\ IsSteps(p[n].undo)
  BY DEF IsProgram, IsStep
<1> QED BY <1>1, <1>2

(* A step that succeeds.                                                   *)
LEMMA Advances ==
  ASSUME NEW name, NEW p, NEW A, NEW Post, NEW Err, Outlined(name, p, A, Post, Err),
         NEW n, n \in 1 .. Len(p), NEW c, c \in A[n], NEW d, d \in After(p[n], c),
         NEW q, q \in Resting
  PROVE  Stands(p, A, Err, n + 1, 0, "idle", q, d)
<1>1. d \in A[n + 1]
  BY OutlineStep DEF Outlined
<1>2. Len(p) \in Nat
  BY StepsCounted DEF Outlined
<1>3. n + 1 \in 1 .. Len(p) + 1
  BY <1>2
<1> QED BY <1>1, <1>3 DEF Stands, Ahead

(* A step that skips others.                                               *)
LEMMA Skips ==
  ASSUME NEW name, NEW p, NEW A, NEW Post, NEW Err, Outlined(name, p, A, Post, Err),
         NEW n, n \in 1 .. Len(p), NEW c, c \in A[n], NEW d, d \in Skipping(p[n], c),
         NEW q, q \in Resting
  PROVE  Stands(p, A, Err, n + 1 + p[n].arg, 0, "idle", q, d)
<1>1. n + 1 + p[n].arg \in 1 .. Len(p) + 1 /\ d \in A[n + 1 + p[n].arg]
  BY OutlineStep DEF Outlined
<1> QED BY <1>1 DEF Stands, Ahead

(* A step that fails.                                                      *)
LEMMA Fails ==
  ASSUME NEW name, NEW p, NEW A, NEW Post, NEW Err, Outlined(name, p, A, Post, Err),
         NEW n, n \in 1 .. Len(p), NEW c, c \in A[n], NEW d, d.has \in Failing(p[n], c),
         NEW q, q \in Resting
  PROVE  Stands(p, A, Err, n, 1, "idle", q, d)
<1> DEFINE u == p[n].undo
           r == d.has
<1>1. CleansUp(u, r, Err)
  BY OutlineStep DEF Outlined
<1>2. \E B : Undoing(u, B, Err) /\ r = B[1]
  BY <1>1 DEF CleansUp
<1>3. Len(u) \in Nat
  BY StepsCounted DEF Outlined
<1>4. 1 \in 1 .. Len(u) + 1
  BY <1>3
<1>5. Cleaned(p, Err, n, 1, "idle", q, r)
  BY <1>2, <1>4 DEF Cleaned
<1> QED BY <1>5 DEF Stands

(* A step of a cleanup: it is one of five, and is done.                    *)
LEMMA Cleans ==
  ASSUME NEW name, NEW p, NEW A, NEW Post, NEW Err, Outlined(name, p, A, Post, Err),
         NEW n, NEW k, NEW l, NEW q, NEW r, Cleaned(p, Err, n, k, l, q, r), k # Len(p[n].undo) + 1
  PROVE  LET s == p[n].undo[k]
         IN  /\ s.op \in Cleaning /\ (s.op = "path_put" => s.arg \in r.leased)
             /\ \A d : d.has = Effect(s, r) => Stands(p, A, Err, n, k + 1, l, q, d)
<1> DEFINE u == p[n].undo
           s == u[k]
<1>1. n \in 1 .. Len(p) /\ k \in 1 .. Len(u) + 1 /\ l = "idle" /\ q \in Resting
  BY DEF Cleaned
<1>2. Len(u) \in Nat
  BY <1>1, StepsCounted DEF Outlined
<1>3. PICK B : Undoing(u, B, Err) /\ r = B[k]
  BY DEF Cleaned
<1>4. k \in 1 .. Len(u) /\ k + 1 \in 1 .. Len(u) + 1
  BY <1>1, <1>2
<1>5. /\ s.op \in Cleaning /\ (s.op = "path_put" => s.arg \in r.leased)
      /\ B[k + 1] = Effect(s, r)
  BY <1>3, <1>4 DEF Undoing
<1>6. \A e : e = Effect(s, r) => Cleaned(p, Err, n, k + 1, l, q, e)
  BY <1>1, <1>3, <1>4, <1>5 DEF Cleaned
<1>7. \A d : d.has = Effect(s, r) => Stands(p, A, Err, n, k + 1, l, q, d)
  BY <1>6 DEF Stands
<1> QED BY <1>5, <1>7

(* How a call ends: with success, or with its cleanup.                     *)
LEMMA Ends ==
  ASSUME NEW name, NEW p, NEW A, NEW Post, NEW Err, Outlined(name, p, A, Post, Err),
         NEW n, NEW k, NEW l, NEW q, NEW c, Stands(p, A, Err, n, k, l, q, c),
         IF k = 0 THEN n > Len(p) ELSE k > Len(p[n].undo)
  PROVE  /\ l = "idle" /\ q \in Resting
         /\ k = 0 => Settled(name, c)
         /\ k # 0 => k > 0 /\ Abandoned(name, c.has)
<1>0. Len(p) \in Nat /\ \A i \in 1 .. Len(p) : Len(p[i].undo) \in Nat
  BY StepsCounted DEF Outlined
<1>1. CASE Ahead(p, A, n, k, l, q, c)
  <2>1. n = Len(p) + 1 /\ k = 0 /\ l = "idle" /\ q \in Resting /\ c \in A[n]
    BY <1>0, <1>1 DEF Ahead
  <2>2. A[Len(p) + 1] \subseteq Post
    BY DEF Outlined, Outline
  <2> QED BY <2>1, <2>2 DEF Outlined
<1>2. CASE Polling(p, A, n, k, l, q, c)
  <2>1. k = 0 /\ n \in 1 .. Len(p)
    BY <1>2 DEF Polling
  <2> QED BY <1>0, <2>1
<1>3. CASE Looking(p, A, n, k, l, q, c)
  <2>1. k = 0 /\ n \in 1 .. Len(p)
    BY <1>3 DEF Looking
  <2> QED BY <1>0, <2>1
<1>4. CASE Cleaned(p, Err, n, k, l, q, c.has)
  <2> DEFINE u == p[n].undo
             r == c.has
  <2>1. n \in 1 .. Len(p) /\ k \in 1 .. Len(u) + 1 /\ l = "idle" /\ q \in Resting
    BY <1>4 DEF Cleaned
  <2>2. Len(u) \in Nat
    BY <1>0, <2>1
  <2>3. PICK B : Undoing(u, B, Err) /\ r = B[k]
    BY <1>4 DEF Cleaned
  <2>4. k = Len(u) + 1 /\ k # 0 /\ k > 0
    <3> HIDE DEF u
    <3>1. k # 0
      BY <2>1
    <3>2. k > Len(u)
      BY <3>1 DEF u
    <3> QED BY <2>1, <2>2, <3>2
  <2>5. r \in Err
    BY <2>3, <2>4 DEF Undoing
  <2> QED BY <2>1, <2>4, <2>5 DEF Outlined
<1> QED BY <1>1, <1>2, <1>3, <1>4 DEF Stands

(* The step that is next, unless it is a poll or a lookup on its way.      *)
LEMMA NextStep ==
  ASSUME NEW name, NEW p, NEW A, NEW Post, NEW Err, Outlined(name, p, A, Post, Err),
         NEW n, NEW k, NEW l, NEW q, NEW c, Stands(p, A, Err, n, k, l, q, c),
         ~ (IF k = 0 THEN n > Len(p) ELSE k > Len(p[n].undo)),
         NEW s, s = IF k = 0 THEN p[n] ELSE p[n].undo[k],
         l = "idle" \/ s.op # "path_get", s.op # "poll"
  PROVE  /\ l = "idle" /\ q \in Resting
         /\ \/ k = 0 /\ n \in 1 .. Len(p) /\ c \in A[n] /\ s = p[n] /\ Allowed(name, s, c)
            \/ /\ k # 0 /\ s.op \in Cleaning /\ (s.op = "path_put" => s.arg \in c.has.leased)
               /\ s = p[n].undo[k]
               /\ \A d : d.has = Effect(s, c.has) => Stands(p, A, Err, n, k + 1, l, q, d)
<1>0. Len(p) \in Nat /\ \A i \in 1 .. Len(p) : Len(p[i].undo) \in Nat
  BY StepsCounted DEF Outlined
<1>1. CASE Ahead(p, A, n, k, l, q, c)
  <2>1. k = 0 /\ n \in 1 .. Len(p) + 1 /\ l = "idle" /\ q \in Resting /\ c \in A[n]
    BY <1>1 DEF Ahead
  <2>2. n \in 1 .. Len(p) /\ s = p[n]
    BY <1>0, <2>1
  <2>3. Allowed(name, p[n], c)
    BY <2>1, <2>2, OutlineStep DEF Outlined
  <2> QED BY <2>1, <2>2, <2>3
<1>2. CASE Polling(p, A, n, k, l, q, c)
  <2>1. k = 0 /\ p[n].op = "poll"
    BY <1>2 DEF Polling
  <2> QED BY <2>1
<1>3. CASE Looking(p, A, n, k, l, q, c)
  <2>1. k = 0 /\ p[n].op = "path_get" /\ l # "idle"
    BY <1>3 DEF Looking
  <2> QED BY <2>1
<1>4. CASE Cleaned(p, Err, n, k, l, q, c.has)
  <2> DEFINE u == p[n].undo
             r == c.has
  <2>1. n \in 1 .. Len(p) /\ k \in 1 .. Len(u) + 1 /\ l = "idle" /\ q \in Resting
    BY <1>4 DEF Cleaned
  <2>2. Len(u) \in Nat
    BY <1>0, <2>1
  <2>3. k # 0 /\ k # Len(u) + 1
    <3> HIDE DEF u
    <3>1. k # 0
      BY <2>1
    <3>2. ~ (k > Len(u))
      BY <3>1 DEF u
    <3> QED BY <2>1, <2>2, <3>1, <3>2
  <2>4. s = u[k]
    BY <2>3
  <2>5. /\ u[k].op \in Cleaning /\ (u[k].op = "path_put" => u[k].arg \in r.leased)
        /\ \A d : d.has = Effect(u[k], r) => Stands(p, A, Err, n, k + 1, l, q, d)
    BY <1>4, <2>3, Cleans
  <2> QED BY <2>1, <2>3, <2>4, <2>5
<1> QED BY <1>1, <1>2, <1>3, <1>4 DEF Stands

(* Cleaning is none of the other steps.                                    *)
LEMMA NotCleaning ==
  ASSUME NEW op, op \in Cleaning
  PROVE  /\ op \notin {"address", "argument", "refuse", "allocate", "lock", "reference", "host", "refused",
                        "ignored", "if_succeeded", "report", "insert", "unless_unsupported", "throw"}
         /\ op \notin {"random", "path_get", "poll", "opendir", "seekdir", "readdir"}
BY DEF Cleaning

(* A step of a program, one way or the other.                              *)
Moves(p, n, k, m, j) == IF k = 0 THEN m = n + 1 /\ j = k ELSE m = n /\ j = k + 1

(* The step that is next is done: the call stands at the one after it.     *)
LEMMA MovesOn ==
  ASSUME NEW name, NEW p, NEW A, NEW Post, NEW Err, Outlined(name, p, A, Post, Err),
         NEW n, NEW k, NEW l, NEW q, NEW c, Stands(p, A, Err, n, k, l, q, c),
         ~ (IF k = 0 THEN n > Len(p) ELSE k > Len(p[n].undo)),
         NEW s, s = IF k = 0 THEN p[n] ELSE p[n].undo[k],
         l = "idle" \/ s.op # "path_get", s.op # "poll",
         NEW d, k = 0 => d \in After(s, c), k # 0 => d.has = Effect(s, c.has),
         NEW m, NEW j, Moves(p, n, k, m, j)
  PROVE  Stands(p, A, Err, m, j, l, q, d)
<1>1. CASE k = 0
  <2>1. /\ l = "idle" /\ q \in Resting /\ n \in 1 .. Len(p) /\ c \in A[n] /\ s = p[n]
    BY <1>1, NextStep
  <2>2. m = n + 1 /\ j = 0
    BY <1>1 DEF Moves
  <2>3. Stands(p, A, Err, n + 1, 0, "idle", q, d)
    BY <1>1, <2>1, Advances
  <2> QED BY <2>1, <2>2, <2>3
<1>2. CASE k # 0
  <2>1. \A e : e.has = Effect(s, c.has) => Stands(p, A, Err, n, k + 1, l, q, e)
    BY <1>2, NextStep
  <2>2. m = n /\ j = k + 1
    BY <1>2 DEF Moves
  <2> QED BY <1>2, <2>1, <2>2
<1> QED BY <1>1, <1>2

----------------------------------------------------------------------------
(* The steps of a call                                                     *)

(* The directory stands behind the entries that were listed.               *)
Placed == dir.pos = list.cookie + Len(list.entries)

(* The call is at a place of an outline of its program.                    *)
Standing(A, Post, Err, b) ==
  /\ Outlined(call.name, Prog, A, Post, Err)
  /\ Stands(Prog, A, Err, at, back, lk.pc, poll.pc, Now(b))
  /\ b => Placed

(* Where the call stands, part by part.                                    *)
LEMMA NowIs ==
  ASSUME NEW b
  PROVE  /\ Now(b) = Stand(ret, failed, b, Has) /\ Now(b).has = Has /\ Now(b).ret = ret
         /\ Now(b).failed = failed /\ Now(b).placed = b
BY DEF Now, Stand

(* The step that is next, unless it is a poll or a lookup on its way.      *)
LEMMA AtStep ==
  ASSUME NEW A, NEW Post, NEW Err, NEW b, Standing(A, Post, Err, b),
         NEW op, At(op), lk.pc = "idle" \/ op # "path_get", op # "poll"
  PROVE  /\ lk.pc = "idle" /\ poll.pc \in Resting /\ Current.op = op
         /\ \/ /\ back = 0 /\ at \in 1 .. Len(Prog) /\ Now(b) \in A[at] /\ Current = Prog[at]
               /\ Allowed(call.name, Current, Now(b))
            \/ back # 0 /\ op \in Cleaning /\ (op = "path_put" => Current.arg \in Has.leased)
<1> DEFINE s == Current
           p == Prog
           l == lk.pc
           q == poll.pc
           c == Now(b)
           name == call.name
<1>1. /\ Outlined(name, p, A, Post, Err) /\ Stands(p, A, Err, at, back, l, q, c)
  BY DEF Standing
<1>2. /\ ~ (IF back = 0 THEN at > Len(p) ELSE back > Len(p[at].undo))
      /\ s.op = op
  BY DEF At, Finished
<1>3. s = IF back = 0 THEN p[at] ELSE p[at].undo[back]
  BY DEF Current
<1>4. c.has = Has
  BY NowIs
<1> HIDE DEF s, p, l, q, c, name
<1>6. l = "idle" \/ s.op # "path_get"
  BY <1>2 DEF l
<1>7. s.op # "poll"
  BY <1>2
<1>5. /\ l = "idle" /\ q \in Resting
      /\ \/ back = 0 /\ at \in 1 .. Len(p) /\ c \in A[at] /\ s = p[at] /\ Allowed(name, s, c)
         \/ back # 0 /\ s.op \in Cleaning /\ (s.op = "path_put" => s.arg \in c.has.leased)
  BY <1>1, <1>2, <1>3, <1>6, <1>7, NextStep
<1> QED BY <1>2, <1>4, <1>5 DEF s, p, l, q, c, name

(* A step succeeds.                                                        *)
LEMMA MoveTo ==
  ASSUME NEW A, NEW Post, NEW Err, NEW b, Standing(A, Post, Err, b),
         NEW op, At(op), lk.pc = "idle" \/ op # "path_get", op # "poll",
         Move, call' = call, lk'.pc = lk.pc, poll'.pc = poll.pc,
         NEW e, e => Placed',
         back = 0 => Now(e)' \in After(Current, Now(b)),
         back # 0 => Has' = Effect(Current, Has)
  PROVE  Standing(A, Post, Err, e)'
<1> DEFINE s == Current
           p == Prog
           l == lk.pc
           q == poll.pc
           c == Now(b)
           d == Now(e)'
           name == call.name
<1>1. /\ Outlined(name, p, A, Post, Err) /\ Stands(p, A, Err, at, back, l, q, c)
  BY DEF Standing
<1>2. /\ ~ (IF back = 0 THEN at > Len(p) ELSE back > Len(p[at].undo))
      /\ s.op = op
  BY DEF At, Finished
<1>3. s = IF back = 0 THEN p[at] ELSE p[at].undo[back]
  BY DEF Current
<1>4. c.has = Has /\ d.has = Has'
  BY NowIs DEF Now, Stand
<1>5. Prog' = p
  BY DEF Prog
<1>8. Moves(p, at, back, at', back')
  BY DEF Move, Moves
<1>9. back = 0 => d \in After(s, c)
  OBVIOUS
<1>10. back # 0 => d.has = Effect(s, c.has)
  BY <1>4
<1>6. l = "idle" \/ s.op # "path_get"
  BY <1>2 DEF l
<1>7. s.op # "poll"
  BY <1>2
<1>11. name' = name
  OBVIOUS
<1> HIDE DEF s, p, l, q, c, d, name
<1>12. Stands(p, A, Err, at', back', l, q, d)
  BY <1>1, <1>2, <1>3, <1>6, <1>7, <1>8, <1>9, <1>10, MovesOn
<1>13. Outlined(call.name, Prog, A, Post, Err)'
  BY <1>1, <1>5 DEF name
<1>14. Stands(Prog, A, Err, at, back, lk.pc, poll.pc, Now(e))'
  BY <1>12, <1>5 DEF l, q, d
<1> QED BY <1>13, <1>14 DEF Standing

(* A step fails.                                                           *)
LEMMA ErrorTo ==
  ASSUME NEW A, NEW Post, NEW Err, NEW b, Standing(A, Post, Err, b),
         NEW op, At(op), lk.pc = "idle" \/ op # "path_get", op # "poll", op \notin Cleaning,
         Error, call' = call, lk'.pc = lk.pc, poll'.pc = poll.pc,
         Has' \in Failing(Current, Now(b))
  PROVE  Standing(A, Post, Err, FALSE)'
<1> DEFINE p == Prog
           q == poll.pc
           c == Now(b)
           d == Now(FALSE)'
<1>1. /\ lk.pc = "idle" /\ q \in Resting /\ at \in 1 .. Len(p) /\ c \in A[at] /\ Current = p[at]
  BY AtStep
<1>2. Outlined(call.name, p, A, Post, Err)
  BY DEF Standing
<1>3. d.has = Has'
  BY DEF Now, Stand
<1>4. d.has \in Failing(p[at], c)
  BY <1>1, <1>3
<1>5. Prog' = p
  BY DEF Prog
<1>6. at' = at /\ back' = 1
  BY DEF Error
<1> HIDE DEF p, q, c, d
<1>7. Stands(p, A, Err, at, 1, "idle", q, d)
  BY <1>1, <1>2, <1>4, Fails
<1>8. Stands(Prog, A, Err, at, back, lk.pc, poll.pc, Now(FALSE))'
  BY <1>1, <1>5, <1>6, <1>7 DEF q, d
<1>9. Outlined(call.name, Prog, A, Post, Err)'
  BY <1>2, <1>5
<1> QED BY <1>8, <1>9 DEF Standing

(* What the steps do that need nothing but what the call has.              *)
Ordinary == {"address", "argument", "allocate", "lock", "free", "unlock", "close", "insert", "reference",
             "release", "path_get", "path_put", "throw", "random", "opendir"}

(* An ordinary step does what its effect says.                             *)
LEMMA AfterOrdinary ==
  ASSUME NEW s, s.op \in Ordinary, NEW c
  PROVE  After(s, c) = {Stand(c.ret, c.failed, c.placed, Effect(s, c.has))}
BY DEF Ordinary, After

(* The effect of each sort of step.                                        *)
LEMMA Effects ==
  ASSUME NEW s, NEW r
  PROVE  /\ s.op = "allocate" => Effect(s, r) = Gained(r, "blocks")
         /\ s.op = "free" => Effect(s, r) = Given(r, "blocks")
         /\ s.op = "lock" => Effect(s, r) = Gained(r, "locks")
         /\ s.op = "unlock" => Effect(s, r) = Given(r, "locks")
         /\ s.op \in {"close", "insert"} => Effect(s, r) = Given(r, "fds")
         /\ s.op = "reference" => Effect(s, r) = Entitled(Gained(r, "references"), "fd", s.arg)
         /\ s.op = "release" => Effect(s, r) = Entitled(Given(r, "references"), "fd", {})
         /\ s.op = "path_get" => Effect(s, r) = Leasing(r, s.arg.slot, s.arg.rights)
         /\ s.op = "path_put" => Effect(s, r) = Returning(r, s.arg)
         /\ s.op \in {"address", "argument", "throw", "random", "opendir"} => Effect(s, r) = r
BY DEF Effect

(* What a step that fails leaves.                                          *)
LEMMA Failures ==
  ASSUME NEW s, NEW c
  PROVE  /\ s.op \in {"address", "argument", "refuse", "allocate", "reference",
                      "path_get", "poll", "opendir"} => Failing(s, c) = {c.has}
         /\ s.op = "report" /\ c.ret # "ok" => Failing(s, c) = {c.has}
         /\ s.op = "insert" => Failing(s, c) = {Effect(s, c.has)}
BY DEF Failing

(* An ordinary step, and one that fails and leaves everything as it was.   *)
LEMMA OrdinaryMove ==
  ASSUME NEW A, NEW Post, NEW Err, NEW b, Standing(A, Post, Err, b),
         NEW op, At(op), op \in Ordinary, lk.pc = "idle" \/ op # "path_get",
         Move, UNCHANGED <<call, ret, failed, dir, list>>, lk'.pc = lk.pc, poll'.pc = poll.pc,
         Has' = Effect(Current, Has)
  PROVE  Standing(A, Post, Err, b)'
<1> DEFINE s == Current
           c == Now(b)
           d == Now(b)'
           r == Has
<1>1. s.op = op
  BY DEF At
<1>2. c.ret = ret /\ c.failed = failed /\ c.placed = b /\ c.has = r
  BY NowIs
<1>3. d = Stand(ret, failed, b, Has')
  BY DEF Now
<1>6. Has' = Effect(s, r)
  OBVIOUS
<1>5. b => Placed'
  BY DEF Standing, Placed
<1>7. op # "poll"
  BY DEF Ordinary
<1> HIDE DEF s, c, d, r
<1>4. d \in After(s, c)
  BY <1>1, <1>2, <1>3, <1>6, AfterOrdinary
<1> QED BY <1>4, <1>5, <1>7, MoveTo DEF s, c, d

(* A step fails that has changed nothing.                                  *)
LEMMA PlainError ==
  ASSUME NEW A, NEW Post, NEW Err, NEW b, Standing(A, Post, Err, b),
         NEW op, At(op), lk.pc = "idle" \/ op # "path_get",
         op \in {"address", "argument", "refuse", "allocate", "reference", "path_get", "opendir"},
         Error, UNCHANGED <<call, held, pa, lk, poll, granted>>
  PROVE  Standing(A, Post, Err, FALSE)'
<1> DEFINE s == Current
           c == Now(b)
           r == Has
<1>1. s.op = op
  BY DEF At
<1>2. c.has = r
  BY NowIs
<1>3. Has' = r
  BY HasSame
<1>4. op # "poll" /\ op \notin Cleaning
  BY DEF Cleaning
<1>6. lk'.pc = lk.pc /\ poll'.pc = poll.pc
  OBVIOUS
<1> HIDE DEF s, c, r
<1>5. Has' \in Failing(s, c)
  BY <1>1, <1>2, <1>3, Failures
<1> QED BY <1>4, <1>5, <1>6, ErrorTo DEF s, c

----------------------------------------------------------------------------
(* The actions                                                             *)

(* The call goes on along the same outline.                                *)
Onward(A, Post, Err) == \E e \in BOOLEAN : Standing(A, Post, Err, e)

(* What every step of a call may rely on.                                  *)
Underway(A, Post, Err, b) ==
  b \in BOOLEAN /\ Standing(A, Post, Err, b) /\ WalkInv /\ WalkInv' /\ granted = [s \in Slots |-> granted[s]]

(* A step jumps.                                                           *)
LEMMA SkipTo ==
  ASSUME NEW A, NEW Post, NEW Err, NEW b, Standing(A, Post, Err, b),
         NEW op, At(op), op \in {"if_succeeded", "unless_unsupported"},
         at' = at + 1 + Current.arg, UNCHANGED <<back, call, ret, failed, held, pa, lk, poll, granted, dir, list>>,
         Now(b) \in Skipping(Current, Now(b))
  PROVE  Standing(A, Post, Err, b)'
<1> DEFINE p == Prog
           q == poll.pc
           c == Now(b)
<1>0. op # "poll" /\ op # "path_get" /\ op \notin Cleaning
  BY DEF Cleaning
<1>1. /\ lk.pc = "idle" /\ q \in Resting /\ at \in 1 .. Len(p) /\ c \in A[at] /\ Current = p[at] /\ back = 0
  BY <1>0, AtStep
<1>2. Outlined(call.name, p, A, Post, Err) /\ (b => Placed)
  BY DEF Standing
<1>3. Has' = Has
  BY HasSame
<1>4. Now(b)' = c /\ (b => Placed')
  BY <1>2, <1>3 DEF Now, Placed
<1>5. Prog' = p
  BY DEF Prog
<1>6. at' = at + 1 + p[at].arg /\ back' = 0 /\ lk'.pc = "idle" /\ poll'.pc = q /\ call' = call
  BY <1>1
<1>7. c \in Skipping(p[at], c)
  BY <1>1
<1> HIDE DEF p, q, c
<1>8. Stands(p, A, Err, at + 1 + p[at].arg, 0, "idle", q, c)
  BY <1>1, <1>2, <1>7, Skips
<1>9. Stands(Prog, A, Err, at, back, lk.pc, poll.pc, Now(b))'
  BY <1>4, <1>5, <1>6, <1>8
<1>10. Outlined(call.name, Prog, A, Post, Err)'
  BY <1>2, <1>5, <1>6
<1> QED BY <1>4, <1>9, <1>10 DEF Standing

(* One lemma for each action: an address is checked.                       *)
LEMMA CheckAddressGoesOn ==
  ASSUME NEW A, NEW Post, NEW Err, NEW b, Underway(A, Post, Err, b), CheckAddress
  PROVE  Onward(A, Post, Err)'
<1>0. b \in BOOLEAN /\ Standing(A, Post, Err, b)
  BY DEF Underway
<1>1. /\ At("address") /\ (Move \/ Error)
      /\ UNCHANGED <<call, ret, failed, lk, held, pa, granted, poll, dir, list>>
  BY Zenon DEF CheckAddress, Lookup, Locals, lookupVars, result
<1>2. Has' = Has
  BY <1>1, HasSame
<1>3. CASE Move
  <2>1. Current.op = "address"
    BY <1>1 DEF At
  <2>2. Has' = Effect(Current, Has)
    BY <1>2, <2>1, Effects
  <2>3. Standing(A, Post, Err, b)'
    BY <1>0, <1>1, <1>3, <2>2, OrdinaryMove DEF Ordinary
  <2> QED BY <1>0, <2>3 DEF Onward
<1>4. CASE Error
  <2>1. Standing(A, Post, Err, FALSE)'
    BY <1>0, <1>1, <1>4, PlainError
  <2> QED BY <2>1 DEF Onward
<1> QED BY <1>1, <1>3, <1>4

(* An argument is checked.                                                 *)
LEMMA CheckArgumentGoesOn ==
  ASSUME NEW A, NEW Post, NEW Err, NEW b, Underway(A, Post, Err, b), CheckArgument
  PROVE  Onward(A, Post, Err)'
<1>0. b \in BOOLEAN /\ Standing(A, Post, Err, b)
  BY DEF Underway
<1>1. /\ (At("argument") /\ (Move \/ Error)) \/ (At("refuse") /\ Error)
      /\ UNCHANGED <<call, ret, failed, lk, held, pa, granted, poll, dir, list>>
  BY Zenon DEF CheckArgument, Lookup, Locals, lookupVars, result
<1>2. Has' = Has
  BY <1>1, HasSame
<1>3. CASE At("argument") /\ Move
  <2>1. Current.op = "argument"
    BY <1>3 DEF At
  <2>2. Has' = Effect(Current, Has)
    BY <1>2, <2>1, Effects
  <2>3. Standing(A, Post, Err, b)'
    BY <1>0, <1>1, <1>3, <2>2, OrdinaryMove DEF Ordinary
  <2> QED BY <1>0, <2>3 DEF Onward
<1>4. CASE At("argument") /\ Error
  <2>1. Standing(A, Post, Err, FALSE)'
    BY <1>0, <1>1, <1>4, PlainError
  <2> QED BY <2>1 DEF Onward
<1>5. CASE At("refuse") /\ Error
  <2>1. Standing(A, Post, Err, FALSE)'
    BY <1>0, <1>1, <1>5, PlainError
  <2> QED BY <2>1 DEF Onward
<1> QED BY <1>1, <1>3, <1>4, <1>5

(* A buffer is allocated, or the lock is taken.                            *)
LEMMA TakeGoesOn ==
  ASSUME NEW A, NEW Post, NEW Err, NEW b, Underway(A, Post, Err, b), Take
  PROVE  Onward(A, Post, Err)'
<1>0. b \in BOOLEAN /\ Standing(A, Post, Err, b) /\ WalkInv
  BY DEF Underway
<1>1. /\ \/ At("allocate") /\ Move /\ held' = Plus(held, "blocks", 1)
         \/ At("allocate") /\ Error /\ held' = held
         \/ At("lock") /\ Move /\ held' = Plus(held, "locks", 1)
      /\ UNCHANGED <<call, ret, failed, lk, pa, granted, poll, dir, list>>
  BY Zenon DEF Take, Hold, Lookup, Locals, lookupVars, result
<1>3. CASE At("allocate") /\ Move /\ held' = Plus(held, "blocks", 1)
  <2>1. Current.op = "allocate"
    BY <1>3 DEF At
  <2>2. Has' = Gained(Has, "blocks")
    BY <1>0, <1>1, <1>3, KindsAre, HasGains
  <2>4. Has' = Effect(Current, Has)
    BY <2>1, <2>2, Effects
  <2>3. Standing(A, Post, Err, b)'
    BY <1>0, <1>1, <1>3, <2>4, OrdinaryMove DEF Ordinary
  <2> QED BY <1>0, <2>3 DEF Onward
<1>4. CASE At("allocate") /\ Error /\ held' = held
  <2>1. Standing(A, Post, Err, FALSE)'
    BY <1>0, <1>1, <1>4, PlainError
  <2> QED BY <2>1 DEF Onward
<1>5. CASE At("lock") /\ Move /\ held' = Plus(held, "locks", 1)
  <2>1. Current.op = "lock"
    BY <1>5 DEF At
  <2>2. Has' = Gained(Has, "locks")
    BY <1>0, <1>1, <1>5, KindsAre, HasGains
  <2>4. Has' = Effect(Current, Has)
    BY <2>1, <2>2, Effects
  <2>3. Standing(A, Post, Err, b)'
    BY <1>0, <1>1, <1>5, <2>4, OrdinaryMove DEF Ordinary
  <2> QED BY <1>0, <2>3 DEF Onward
<1> QED BY <1>1, <1>3, <1>4, <1>5

(* A buffer, the lock or a descriptor is given back.                       *)
LEMMA GiveGoesOn ==
  ASSUME NEW A, NEW Post, NEW Err, NEW b, Underway(A, Post, Err, b), Give
  PROVE  Onward(A, Post, Err)'
<1>0. b \in BOOLEAN /\ Standing(A, Post, Err, b) /\ WalkInv
  BY DEF Underway
<1>1. /\ Move
      /\ \/ At("free") /\ held' = Minus(held, "blocks", 1)
         \/ At("unlock") /\ held' = Minus(held, "locks", 1)
         \/ At("close") /\ held' = Minus(held, "fds", 1)
      /\ UNCHANGED <<call, ret, failed, lk, pa, granted, poll, dir, list>>
  BY Zenon DEF Give, Hold, Lookup, Locals, lookupVars, result
<1>3. CASE At("free") /\ held' = Minus(held, "blocks", 1)
  <2>1. Current.op = "free"
    BY <1>3 DEF At
  <2>2. Has' = Given(Has, "blocks")
    BY <1>0, <1>1, <1>3, KindsAre, HasGives
  <2>4. Has' = Effect(Current, Has)
    BY <2>1, <2>2, Effects
  <2>3. Standing(A, Post, Err, b)'
    BY <1>0, <1>1, <1>3, <2>4, OrdinaryMove DEF Ordinary
  <2> QED BY <1>0, <2>3 DEF Onward
<1>4. CASE At("unlock") /\ held' = Minus(held, "locks", 1)
  <2>1. Current.op = "unlock"
    BY <1>4 DEF At
  <2>2. Has' = Given(Has, "locks")
    BY <1>0, <1>1, <1>4, KindsAre, HasGives
  <2>4. Has' = Effect(Current, Has)
    BY <2>1, <2>2, Effects
  <2>3. Standing(A, Post, Err, b)'
    BY <1>0, <1>1, <1>4, <2>4, OrdinaryMove DEF Ordinary
  <2> QED BY <1>0, <2>3 DEF Onward
<1>5. CASE At("close") /\ held' = Minus(held, "fds", 1)
  <2>1. Current.op = "close"
    BY <1>5 DEF At
  <2>2. Has' = Given(Has, "fds")
    BY <1>0, <1>1, <1>5, KindsAre, HasGives
  <2>4. Has' = Effect(Current, Has)
    BY <2>1, <2>2, Effects
  <2>3. Standing(A, Post, Err, b)'
    BY <1>0, <1>1, <1>5, <2>4, OrdinaryMove DEF Ordinary
  <2> QED BY <1>0, <2>3 DEF Onward
<1> QED BY <1>1, <1>3, <1>4, <1>5

(* A reference is got or released.                                         *)
LEMMA ReferenceGoesOn ==
  ASSUME NEW A, NEW Post, NEW Err, NEW b, Underway(A, Post, Err, b), GetReference \/ ReleaseReference
  PROVE  Onward(A, Post, Err)'
<1>0. b \in BOOLEAN /\ Standing(A, Post, Err, b) /\ WalkInv
  BY DEF Underway
<1>1. /\ \/ /\ At("reference") /\ Move /\ held' = Plus(held, "references", 1)
            /\ granted' = [granted EXCEPT !["fd"] = Current.arg]
         \/ At("reference") /\ Error /\ held' = held /\ granted' = granted
         \/ /\ At("release") /\ Move /\ held' = Minus(held, "references", 1)
            /\ granted' = [granted EXCEPT !["fd"] = {}]
      /\ UNCHANGED <<call, ret, failed, lk, pa, poll, dir, list>>
  BY Zenon DEF GetReference, ReleaseReference, Hold, Lookup, lookupVars, result
<1>3. CASE /\ At("reference") /\ Move /\ held' = Plus(held, "references", 1)
           /\ granted' = [granted EXCEPT !["fd"] = Current.arg]
  <2> DEFINE x == Current.arg
  <2>1. Current.op = "reference"
    BY <1>3 DEF At
  <2>5. granted' = [granted EXCEPT !["fd"] = x]
    BY <1>3
  <2>4. Has' = Effect(Current, Has)
    <3>1. Effect(Current, Has) = Entitled(Gained(Has, "references"), "fd", x)
      BY <2>1, Effects
    <3> HIDE DEF x
    <3>2. Has' = Entitled(Gained(Has, "references"), "fd", x)
      BY <1>0, <1>1, <1>3, <2>5, HasReferred
    <3> QED BY <3>1, <3>2
  <2>3. Standing(A, Post, Err, b)'
    BY <1>0, <1>1, <1>3, <2>4, OrdinaryMove DEF Ordinary
  <2> QED BY <1>0, <2>3 DEF Onward
<1>4. CASE At("reference") /\ Error /\ held' = held /\ granted' = granted
  <2>1. Standing(A, Post, Err, FALSE)'
    BY <1>0, <1>1, <1>4, PlainError
  <2> QED BY <2>1 DEF Onward
<1>5. CASE /\ At("release") /\ Move /\ held' = Minus(held, "references", 1)
           /\ granted' = [granted EXCEPT !["fd"] = {}]
  <2>1. Current.op = "release"
    BY <1>5 DEF At
  <2>2. Has' = Entitled(Given(Has, "references"), "fd", {})
    BY <1>0, <1>1, <1>5, HasReleased
  <2>4. Has' = Effect(Current, Has)
    BY <2>1, <2>2, Effects
  <2>3. Standing(A, Post, Err, b)'
    BY <1>0, <1>1, <1>5, <2>4, OrdinaryMove DEF Ordinary
  <2> QED BY <1>0, <2>3 DEF Onward
<1> QED BY <1>1, <1>3, <1>4, <1>5

(* A step that the host answers.                                           *)
LEMMA AnswerTo ==
  ASSUME NEW A, NEW Post, NEW Err, NEW b, Underway(A, Post, Err, b),
         NEW op, At(op), op \in {"host", "refused", "ignored", "unless_unsupported", "report", "if_succeeded"},
         Move, UNCHANGED <<call, lk, poll, dir, list>>,
         Now(b)' \in After(Current, Now(b))
  PROVE  Onward(A, Post, Err)'
<1>0. b \in BOOLEAN /\ Standing(A, Post, Err, b) /\ lk'.pc = lk.pc /\ poll'.pc = poll.pc
  BY DEF Underway
<1>1. op # "poll" /\ op # "path_get" /\ op \notin Cleaning
  BY DEF Cleaning
<1>2. back = 0
  BY <1>0, <1>1, AtStep
<1>3. b => Placed'
  BY <1>0 DEF Standing, Placed
<1>4. Standing(A, Post, Err, b)'
  BY <1>0, <1>1, <1>2, <1>3, MoveTo
<1> QED BY <1>0, <1>4 DEF Onward

(* What the answer of the host leads to.                                   *)
LEMMA AfterAnswer ==
  ASSUME NEW s, NEW c
  PROVE  /\ s.op = "host" =>
              After(s, c) = {Stand("ok", c.failed, c.placed,
                                   IF s.arg = "nothing" THEN c.has ELSE Gained(c.has, s.arg)),
                             Stand("failed", TRUE, c.placed, c.has)}
         /\ s.op = "refused" => After(s, c) = {Stand("failed", TRUE, c.placed, c.has)}
         /\ s.op = "ignored" => After(s, c) = {Stand("ok", c.failed, c.placed, c.has)}
         /\ s.op = "report" /\ c.ret = "ok" => After(s, c) = {c}
         /\ s.op = "if_succeeded" /\ c.ret = "ok" => After(s, c) = {c}
         /\ s.op = "if_succeeded" /\ c.ret # "ok" => Skipping(s, c) = {c}
         /\ s.op = "unless_unsupported" => Skipping(s, c) = {c}
         /\ s.op = "unless_unsupported" /\ c.ret = "failed" =>
              After(s, c) = {Stand("failed", c.failed, c.placed, Gained(c.has, "blocks"))}
BY DEF After, Skipping

(* The host answers.                                                       *)
LEMMA SystemCallGoesOn ==
  ASSUME NEW A, NEW Post, NEW Err, NEW b, Underway(A, Post, Err, b), SystemCall
  PROVE  Onward(A, Post, Err)'
<1> DEFINE s == Current
           c == Now(b)
           x == s.arg
<1>0. b \in BOOLEAN /\ Standing(A, Post, Err, b) /\ WalkInv
  BY DEF Underway
<1>1. /\ \/ /\ At("host") /\ Move /\ ret' = "ok" /\ failed' = failed
            /\ IF x = "nothing" THEN held' = held /\ lk' = lk ELSE held' = Plus(held, x, 1) /\ lk' = lk
         \/ /\ At("host") \/ At("refused")
            /\ Move /\ ret' = "failed" /\ failed' = TRUE /\ held' = held /\ lk' = lk
         \/ At("ignored") /\ Move /\ ret' = "ok" /\ failed' = failed /\ held' = held /\ lk' = lk
         \/ /\ At("if_succeeded") /\ back = 0 /\ held' = held /\ lk' = lk /\ UNCHANGED <<back, ret, failed>>
            /\ at' = IF ret = "ok" THEN at + 1 ELSE at + 1 + x
      /\ UNCHANGED <<call, pa, granted, poll, dir, list>>
  BY Zenon DEF SystemCall, Hold, Lookup, Locals, lookupVars, result
<1>2. c = Stand(ret, failed, b, Has) /\ c.ret = ret /\ c.failed = failed /\ c.placed = b /\ c.has = Has
  BY NowIs
<1>3. Now(b)' = Stand(ret', failed', b, Has')
  BY DEF Now
<1>4. CASE /\ At("host") /\ Move /\ ret' = "ok" /\ failed' = failed
           /\ IF x = "nothing" THEN held' = held /\ lk' = lk ELSE held' = Plus(held, x, 1) /\ lk' = lk
  <2>1. s.op = "host"
    BY <1>4 DEF At
  <2>2. x \in {"nothing"} \cup Kinds
    <3>0. "host" # "poll" /\ "host" # "path_get" /\ "host" \notin Cleaning
      BY DEF Cleaning
    <3>1. Allowed(call.name, s, c)
      BY <1>0, <1>4, <3>0, AtStep
    <3> HIDE DEF s, c
    <3>2. s.arg \in {"nothing"} \cup Kinds
      BY <2>1, <3>1 DEF Allowed
    <3> QED BY <3>2
  <2> HIDE DEF x
  <2>3. Has' = IF x = "nothing" THEN Has ELSE Gained(Has, x)
    <3>1. CASE x = "nothing"
      BY <1>1, <1>4, <3>1, HasSame
    <3>2. CASE x # "nothing"
      BY <1>0, <1>1, <1>4, <2>2, <3>2, HasGains
    <3> QED BY <3>1, <3>2
  <2>4. Now(b)' \in After(s, c)
    <3>1. After(s, c) = {Stand("ok", c.failed, c.placed, IF x = "nothing" THEN c.has ELSE Gained(c.has, x)),
                         Stand("failed", TRUE, c.placed, c.has)}
      <4> HIDE DEF s, c
      <4> QED BY <2>1, AfterAnswer DEF x
    <3> HIDE DEF s, c
    <3> QED BY <1>2, <1>3, <1>4, <2>3, <3>1
  <2>5. UNCHANGED <<call, lk, poll, dir, list>>
    BY <1>1, <1>4
  <2> QED BY <1>4, <2>4, <2>5, AnswerTo
<1>5. CASE /\ At("host") \/ At("refused")
           /\ Move /\ ret' = "failed" /\ failed' = TRUE /\ held' = held /\ lk' = lk
  <2>1. s.op \in {"host", "refused"}
    BY <1>5 DEF At
  <2>3. Has' = Has
    BY <1>1, <1>5, HasSame
  <2> HIDE DEF s, c
  <2>4. Now(b)' \in After(s, c)
    <3>1. Stand("failed", TRUE, c.placed, c.has) \in After(s, c)
      <4>1. CASE s.op = "host"
        BY <4>1 DEF After
      <4>2. CASE s.op = "refused"
        BY <4>2 DEF After
      <4> QED BY <2>1, <4>1, <4>2
    <3> QED BY <1>2, <1>3, <1>5, <2>3, <3>1
  <2>5. UNCHANGED <<call, lk, poll, dir, list>>
    BY <1>1, <1>5
  <2> QED BY <1>5, <2>4, <2>5, AnswerTo DEF s, c
<1>6. CASE At("ignored") /\ Move /\ ret' = "ok" /\ failed' = failed /\ held' = held /\ lk' = lk
  <2>1. s.op = "ignored"
    BY <1>6 DEF At
  <2>3. Has' = Has
    BY <1>1, <1>6, HasSame
  <2> HIDE DEF s, c
  <2>4. Now(b)' \in After(s, c)
    <3>1. After(s, c) = {Stand("ok", c.failed, c.placed, c.has)}
      BY <2>1, AfterAnswer
    <3> QED BY <1>2, <1>3, <1>6, <2>3, <3>1
  <2>5. UNCHANGED <<call, lk, poll, dir, list>>
    BY <1>1, <1>6
  <2> QED BY <1>6, <2>4, <2>5, AnswerTo DEF s, c
<1>7. CASE /\ At("if_succeeded") /\ back = 0 /\ held' = held /\ lk' = lk /\ UNCHANGED <<back, ret, failed>>
           /\ at' = IF ret = "ok" THEN at + 1 ELSE at + 1 + x
  <2>1. s.op = "if_succeeded"
    BY <1>7 DEF At
  <2>3. Has' = Has
    BY <1>1, <1>7, HasSame
  <2>4. Now(b)' = c
    BY <1>2, <1>3, <1>7, <2>3
  <2>5. UNCHANGED <<call, lk, poll, dir, list>>
    BY <1>1, <1>7
  <2>6. CASE ret = "ok"
    <3> HIDE DEF s, c
    <3>1. c \in After(s, c)
      <4>1. c.ret = "ok" => After(s, c) = {c}
        BY <2>1, AfterAnswer
      <4> QED BY <1>2, <2>6, <4>1
    <3>2. Move
      BY <1>7, <2>6 DEF Move
    <3> QED BY <1>7, <2>4, <2>5, <3>1, <3>2, AnswerTo DEF s, c
  <2>7. CASE ret # "ok"
    <3>2. at' = at + 1 + s.arg
      BY <1>7, <2>7
    <3>3. UNCHANGED <<back, call, ret, failed, held, pa, lk, poll, granted, dir, list>>
      BY <1>1, <1>7
    <3> HIDE DEF s, c
    <3>1. c \in Skipping(s, c)
      <4>1. c.ret # "ok" => Skipping(s, c) = {c}
        BY <2>1, AfterAnswer
      <4> QED BY <1>2, <2>7, <4>1
    <3>4. Standing(A, Post, Err, b)'
      BY <1>0, <1>7, <3>1, <3>2, <3>3, SkipTo DEF s, c
    <3> QED BY <1>0, <3>4 DEF Onward
  <2> QED BY <2>6, <2>7
<1> QED BY <1>1, <1>4, <1>5, <1>6, <1>7

(* The answer is reported.                                                 *)
LEMMA ReportGoesOn ==
  ASSUME NEW A, NEW Post, NEW Err, NEW b, Underway(A, Post, Err, b), ReportResult
  PROVE  Onward(A, Post, Err)'
<1> DEFINE s == Current
           c == Now(b)
<1>0. b \in BOOLEAN /\ Standing(A, Post, Err, b) /\ WalkInv
  BY DEF Underway
<1>1. /\ At("report") /\ IF ret = "ok" THEN Move ELSE Error
      /\ UNCHANGED <<call, ret, failed, lk, held, pa, granted, poll, dir, list>>
  BY Zenon DEF ReportResult, Lookup, Locals, lookupVars, result
<1>2. c = Stand(ret, failed, b, Has) /\ c.ret = ret /\ c.has = Has
  BY NowIs
<1>3. Has' = Has /\ s.op = "report"
  BY <1>1, HasSame DEF At
<1>4. Now(b)' = c
  BY <1>1, <1>3 DEF Now
<1>7. lk'.pc = lk.pc /\ poll'.pc = poll.pc
  BY <1>1
<1> HIDE DEF s, c
<1>5. CASE ret = "ok"
  <2>1. c \in After(s, c)
    <3>1. c.ret = "ok" => After(s, c) = {c}
      BY <1>3, AfterAnswer
    <3> QED BY <1>2, <1>5, <3>1
  <2> QED BY <1>1, <1>4, <1>5, <2>1, AnswerTo DEF s, c
<1>6. CASE ret # "ok"
  <2>1. Has' \in Failing(s, c)
    BY <1>2, <1>3, <1>6, Failures
  <2>2. "report" # "poll" /\ "report" # "path_get" /\ "report" \notin Cleaning
    BY DEF Cleaning
  <2>3. Standing(A, Post, Err, FALSE)'
    BY <1>0, <1>1, <1>6, <1>7, <2>1, <2>2, ErrorTo DEF s, c
  <2> QED BY <2>3 DEF Onward
<1> QED BY <1>5, <1>6

(* A descriptor is inserted, or closed.                                    *)
LEMMA InsertGoesOn ==
  ASSUME NEW A, NEW Post, NEW Err, NEW b, Underway(A, Post, Err, b), InsertDescriptor
  PROVE  Onward(A, Post, Err)'
<1> DEFINE s == Current
           c == Now(b)
<1>0. b \in BOOLEAN /\ Standing(A, Post, Err, b) /\ WalkInv
  BY DEF Underway
<1>1. /\ At("insert") /\ (Move \/ Error) /\ held' = Minus(held, "fds", 1)
      /\ UNCHANGED <<call, ret, failed, lk, pa, granted, poll, dir, list>>
  BY Zenon DEF InsertDescriptor, Hold, Locals, lookupVars, result
<1>2. c.has = Has /\ s.op = "insert"
  BY <1>1, NowIs DEF At
<1>3. Has' = Given(Has, "fds")
  BY <1>0, <1>1, KindsAre, HasGives
<1>4. Has' = Effect(s, Has)
  <2> HIDE DEF s
  <2> QED BY <1>2, <1>3, Effects
<1>5. CASE Move
  <2>1. Standing(A, Post, Err, b)'
    BY <1>0, <1>1, <1>4, <1>5, OrdinaryMove DEF Ordinary
  <2> QED BY <1>0, <2>1 DEF Onward
<1>6. CASE Error
  <2>1. Has' \in Failing(s, c)
    <3> HIDE DEF s, c
    <3> QED BY <1>2, <1>4, Failures
  <2>2. "insert" # "poll" /\ "insert" # "path_get" /\ "insert" \notin Cleaning
    BY DEF Cleaning
  <2>3. Standing(A, Post, Err, FALSE)'
    BY <1>0, <1>1, <1>6, <2>1, <2>2, ErrorTo
  <2> QED BY <2>3 DEF Onward
<1> QED BY <1>1, <1>5, <1>6

(* The host does not support a link to a link.                             *)
LEMMA UnsupportedGoesOn ==
  ASSUME NEW A, NEW Post, NEW Err, NEW b, Underway(A, Post, Err, b), UnlessUnsupported
  PROVE  Onward(A, Post, Err)'
<1> DEFINE s == Current
           c == Now(b)
<1>0. b \in BOOLEAN /\ Standing(A, Post, Err, b) /\ WalkInv
  BY DEF Underway
<1>1. /\ At("unless_unsupported")
      /\ \/ ret = "failed" /\ Move /\ held' = Plus(held, "blocks", 1) /\ lk' = lk
         \/ at' = at + 1 + s.arg /\ back' = back /\ held' = held /\ lk' = lk
      /\ UNCHANGED <<call, ret, failed, pa, granted, poll, dir, list>>
  BY Zenon DEF UnlessUnsupported, Hold, Lookup, Locals, lookupVars, result
<1>2. /\ c = Stand(ret, failed, b, Has) /\ c.ret = ret /\ c.failed = failed /\ c.placed = b /\ c.has = Has
      /\ s.op = "unless_unsupported"
  BY <1>1, NowIs DEF At
<1>3. CASE ret = "failed" /\ Move /\ held' = Plus(held, "blocks", 1) /\ lk' = lk
  <2>1. Has' = Gained(Has, "blocks")
    BY <1>0, <1>1, <1>3, KindsAre, HasGains
  <2>2. Now(b)' = Stand(ret, failed, b, Has')
    BY <1>1 DEF Now
  <2>3. UNCHANGED <<call, lk, poll, dir, list>>
    BY <1>1, <1>3
  <2> HIDE DEF s, c
  <2>4. Now(b)' \in After(s, c)
    <3>1. s.op = "unless_unsupported" /\ c.ret = "failed"
      BY <1>2, <1>3
    <3>2. After(s, c) = {Stand("failed", c.failed, c.placed, Gained(c.has, "blocks"))}
      BY <3>1 DEF After
    <3> QED BY <1>2, <1>3, <2>1, <2>2, <3>2
  <2> QED BY <1>1, <1>3, <2>3, <2>4, AnswerTo DEF s, c
<1>4. CASE at' = at + 1 + s.arg /\ back' = back /\ held' = held /\ lk' = lk
  <2>1. UNCHANGED <<back, call, ret, failed, held, pa, lk, poll, granted, dir, list>>
    BY <1>1, <1>4
  <2>2. c \in Skipping(s, c)
    <3> HIDE DEF s, c
    <3>1. s.op = "unless_unsupported"
      BY <1>2
    <3>2. Skipping(s, c) = {c}
      BY <3>1, AfterAnswer
    <3> QED BY <3>2
  <2>3. Standing(A, Post, Err, b)'
    BY <1>0, <1>1, <1>4, <2>1, <2>2, SkipTo
  <2> QED BY <1>0, <2>3 DEF Onward
<1> QED BY <1>1, <1>3, <1>4

(* An exception is set, or random bytes are asked for.                     *)
LEMMA SilentGoesOn ==
  ASSUME NEW A, NEW Post, NEW Err, NEW b, Underway(A, Post, Err, b), Throw \/ Randomness
  PROVE  Onward(A, Post, Err)'
<1>0. b \in BOOLEAN /\ Standing(A, Post, Err, b)
  BY DEF Underway
<1>1. /\ Move /\ (At("throw") \/ At("random"))
      /\ UNCHANGED <<call, ret, failed, lk, held, pa, granted, poll, dir, list>>
  BY Zenon DEF Throw, Randomness, Lookup, Locals, lookupVars, result
<1>2. Has' = Has
  BY <1>1, HasSame
<1>3. PICK op \in {"throw", "random"} : At(op)
  BY <1>1
<1>4. Current.op = op
  BY <1>3 DEF At
<1>5. Has' = Effect(Current, Has)
  BY <1>2, <1>4, Effects
<1>6. op \in Ordinary /\ op # "path_get"
  BY DEF Ordinary
<1>7. Standing(A, Post, Err, b)'
  BY <1>0, <1>1, <1>3, <1>5, <1>6, OrdinaryMove
<1> QED BY <1>0, <1>7 DEF Onward

(* A change of the file system is none of the call.                        *)
LEMMA InterfereGoesOn ==
  ASSUME NEW A, NEW Post, NEW Err, NEW b, Underway(A, Post, Err, b), Interfere
  PROVE  Onward(A, Post, Err)'
<1>0. b \in BOOLEAN /\ Standing(A, Post, Err, b)
  BY DEF Underway
<1>1. UNCHANGED <<call, at, back, ret, failed, lk, held, pa, granted, poll, dir, list>>
  BY Zenon DEF Interfere, ChangeFileSystem, callVars
<1>2. Has' = Has
  BY <1>1, HasSame
<1>3. Now(b)' = Now(b) /\ Placed' = Placed /\ Prog' = Prog
  BY <1>1, <1>2 DEF Now, Placed, Prog
<1>4. Standing(A, Post, Err, b)'
  BY <1>0, <1>1, <1>3 DEF Standing
<1> QED BY <1>0, <1>4 DEF Onward

(* Asking for a right and giving it back, and the other way round.         *)
LEMMA EntitledUndone ==
  ASSUME NEW r, IsResources(r), NEW slot, slot \in Slots, NEW rights, r.granted[slot] = {},
         NEW q, q = Entitled(r, slot, rights)
  PROVE  q.granted[slot] = rights /\ Entitled(q, slot, {}) = r
<1> DEFINE g == r.granted
           h == [g EXCEPT ![slot] = rights]
<1>1. g = [s \in Slots |-> g[s]] /\ r = Resources(r.need, r.leased, g) /\ g[slot] = {}
  BY DEF IsResources
<1>5. q = Resources(r.need, r.leased, h)
  BY DEF Entitled
<1> HIDE DEF g
<1>2. h[slot] = rights
  BY <1>1
<1>3. [h EXCEPT ![slot] = {}] = g
  BY <1>1
<1> HIDE DEF h
<1>7. Entitled(q, slot, {}) = Resources(r.need, r.leased, [h EXCEPT ![slot] = {}])
  BY <1>5 DEF Entitled, Resources
<1>9. q.granted = h
  BY <1>5 DEF Resources
<1> QED BY <1>1, <1>2, <1>3, <1>7, <1>9

(* The rights come with the reference, the lease at the end.               *)
LEMMA LeasingBack ==
  ASSUME NEW r, IsResources(r), NEW slot, slot \in Slots, NEW rights, r.granted[slot] = rights
  PROVE  Leasing(Entitled(r, slot, {}), slot, rights) = Resources(r.need, r.leased \cup {slot}, r.granted)
<1> DEFINE g == r.granted
           e == [g EXCEPT ![slot] = {}]
<1>1. g = [s \in Slots |-> g[s]] /\ g[slot] = rights
  BY DEF IsResources
<1>6. Entitled(r, slot, {}) = Resources(r.need, r.leased, e)
  BY DEF Entitled
<1> HIDE DEF g
<1>4. [e EXCEPT ![slot] = rights] = g
  BY <1>1
<1> HIDE DEF e
<1>8. Leasing(Entitled(r, slot, {}), slot, rights)
        = Resources(r.need, r.leased \cup {slot}, [e EXCEPT ![slot] = rights])
  BY <1>6 DEF Leasing, Resources
<1> QED BY <1>4, <1>8 DEF g

(* A lookup begins, or cannot.                                             *)
LEMMA StartPathGoesOn ==
  ASSUME NEW A, NEW Post, NEW Err, NEW b, Underway(A, Post, Err, b), StartPath
  PROVE  Onward(A, Post, Err)'
<1> DEFINE s == Current
           p == Prog
           c == Now(b)
           x == s.arg.slot
           rights == s.arg.rights
<1>0. /\ b \in BOOLEAN /\ Standing(A, Post, Err, b) /\ WalkInv /\ WalkInv'
      /\ granted = [y \in Slots |-> granted[y]]
  BY DEF Underway
<1>1. /\ At("path_get") /\ lk.pc = "idle"
      /\ \/ /\ \E path \in Paths : lk' = LookupOf(path, s.arg.follow, s.arg.needsFinal)
            /\ held' = Plus(Plus(held, "blocks", 1), "references", 1)
            /\ granted' = [granted EXCEPT ![x] = rights]
            /\ UNCHANGED <<at, back>>
         \/ Error /\ lk' = lk /\ held' = held /\ granted' = granted
      /\ UNCHANGED <<call, ret, failed, pa, poll, dir, list>>
  BY Zenon DEF StartPath, Lookup, lookupVars, result
<1>2. CASE Error /\ lk' = lk /\ held' = held /\ granted' = granted
  <2>1. Standing(A, Post, Err, FALSE)'
    BY <1>0, <1>1, <1>2, PlainError
  <2> QED BY <2>1 DEF Onward
<1>3. CASE /\ \E path \in Paths : lk' = LookupOf(path, s.arg.follow, s.arg.needsFinal)
           /\ held' = Plus(Plus(held, "blocks", 1), "references", 1)
           /\ granted' = [granted EXCEPT ![x] = rights]
           /\ UNCHANGED <<at, back>>
  <2>0. "path_get" # "poll" /\ "path_get" \notin Cleaning
    BY DEF Cleaning
  <2>1. /\ back = 0 /\ at \in 1 .. Len(p) /\ c \in A[at] /\ s = p[at] /\ s.op = "path_get"
        /\ Allowed(call.name, s, c) /\ poll.pc \in Resting
    BY <1>0, <1>1, <2>0, AtStep
  <2>2. c = Stand(ret, failed, b, Has) /\ c.has = Has /\ IsResources(Has)
    BY <1>0, NowIs, HasIs
  <2>3. x \in Slots /\ Has.granted[x] = {}
    <3> HIDE DEF s, c
    <3>1. s.arg.slot \in Slots \ c.has.leased /\ c.has.granted[s.arg.slot] = {}
      BY <2>1 DEF Allowed
    <3> QED BY <2>2, <3>1
  <2>4. lk'.pc # "idle" /\ Len(lk'.fds) = 1 /\ Len(lk'.paths) = 1
    <3> HIDE DEF s
    <3>1. PICK path \in Paths : lk' = LookupOf(path, s.arg.follow, s.arg.needsFinal)
      BY <1>3
    <3> DEFINE f == s.arg.follow
               g == s.arg.needsFinal
    <3>3. lk' = LookupOf(path, f, g)
      BY <3>1
    <3> HIDE DEF f, g
    <3>2. lk'.pc = "loop" /\ Len(lk'.fds) = 1 /\ Len(lk'.paths) = 1
      BY <3>3, LookupBegins
    <3> QED BY <3>2
  <2>5. Has' = Entitled(Has, x, rights)
    <3> HIDE DEF x, rights
    <3> QED BY <1>0, <1>1, <1>3, <2>4, HasLooks
  <2>6. Now(b)' = Stand(ret, failed, b, Has')
    BY <1>1 DEF Now
  <2>7. Prog' = p /\ (b => Placed') /\ Outlined(call.name, p, A, Post, Err)
    BY <1>0, <1>1 DEF Standing, Prog, Placed
  <2> DEFINE d == Now(b)'
  <2>8. d.has.granted[x] = rights /\ Entitled(d.has, x, {}) = Has
    <3>1. d.has = Entitled(Has, x, rights)
      BY <2>5, <2>6 DEF Stand
    <3>2. IsResources(Has)
      BY <2>2
    <3> HIDE DEF d, x, rights, s, c, p
    <3>3. x \in Slots /\ Has.granted[x] = {}
      BY <2>3
    <3> QED BY <3>1, <3>2, <3>3, EntitledUndone
  <2>9. Before(s, d) = c
    <3>1. d.ret = ret /\ d.failed = failed /\ d.placed = b
      BY <2>6 DEF Stand
    <3>2. Before(s, d) = Stand(d.ret, d.failed, d.placed, Entitled(d.has, x, {}))
      BY DEF Before
    <3> HIDE DEF d, c, s
    <3> QED BY <2>2, <2>8, <3>1, <3>2
  <2>10. Stands(p, A, Err, at, back, lk'.pc, poll.pc, d)
    <3>1. Before(p[at], d) \in A[at] /\ p[at].op = "path_get"
      BY <2>1, <2>9
    <3>2. d.has.granted[p[at].arg.slot] = p[at].arg.rights
      BY <2>1, <2>8
    <3> HIDE DEF d, p, s, c
    <3>3. Looking(p, A, at, back, lk'.pc, poll.pc, d)
      BY <2>1, <2>4, <3>1, <3>2 DEF Looking
    <3> QED BY <3>3 DEF Stands
  <2>11. Stands(Prog, A, Err, at, back, lk.pc, poll.pc, Now(b))'
    <3>1. Prog' = p /\ at' = at /\ back' = back /\ poll'.pc = poll.pc
      BY <1>1, <1>3, <2>7
    <3> QED BY <2>10, <3>1
  <2>12. Outlined(call.name, Prog, A, Post, Err)'
    BY <1>1, <2>7
  <2>13. Standing(A, Post, Err, b)'
    BY <2>7, <2>11, <2>12 DEF Standing
  <2> QED BY <1>0, <2>13 DEF Onward
<1> QED BY <1>1, <1>2, <1>3

(* A lookup is on its way only at the step of its path.                    *)
LEMMA LookingIs ==
  ASSUME NEW A, NEW Post, NEW Err, NEW b, Standing(A, Post, Err, b), lk.pc # "idle"
  PROVE  /\ Looking(Prog, A, at, back, lk.pc, poll.pc, Now(b)) /\ Outlined(call.name, Prog, A, Post, Err)
         /\ back = 0 /\ at \in 1 .. Len(Prog) /\ Current = Prog[at] /\ Current.op = "path_get"
         /\ poll.pc \in Resting /\ Before(Current, Now(b)) \in A[at]
         /\ granted[Current.arg.slot] = Current.arg.rights
         /\ Allowed(call.name, Current, Before(Current, Now(b)))
<1>1. Looking(Prog, A, at, back, lk.pc, poll.pc, Now(b)) /\ Outlined(call.name, Prog, A, Post, Err)
  BY DEF Standing, Stands, Ahead, Polling, Cleaned
<1>2. /\ back = 0 /\ at \in 1 .. Len(Prog) /\ Prog[at].op = "path_get"
      /\ poll.pc \in Resting /\ Before(Prog[at], Now(b)) \in A[at]
      /\ Now(b).has.granted[Prog[at].arg.slot] = Prog[at].arg.rights
  BY <1>1 DEF Looking
<1>3. Current = Prog[at]
  BY <1>2 DEF Current
<1>4. Now(b).has.granted = granted
  BY NowIs, HasParts
<1>5. Allowed(call.name, Prog[at], Before(Prog[at], Now(b)))
  BY <1>1, <1>2, OutlineStep DEF Outlined
<1> QED BY <1>1, <1>2, <1>3, <1>4, <1>5

(* A turn of its loop.                                                     *)
LEMMA StepPathGoesOn ==
  ASSUME NEW A, NEW Post, NEW Err, NEW b, Underway(A, Post, Err, b), StepPath
  PROVE  Onward(A, Post, Err)'
<1> DEFINE p == Prog
           c == Now(b)
<1>0. b \in BOOLEAN /\ Standing(A, Post, Err, b) /\ WalkInv /\ WalkInv'
  BY DEF Underway
<1>1. UNCHANGED <<call, at, back, ret, failed, pa, granted, poll, dir, list>> /\ LookupStep
  BY Zenon DEF StepPath, callVars
<1>2. Walked /\ lk.pc # "idle" /\ lk'.pc # "idle"
  <2>1. Walking(lk) /\ held \in Counts /\ fs \in FileSystems
    BY <1>0 DEF WalkInv
  <2>2. Walked /\ lk.pc \in {"loop", "readlink"} /\ lk'.pc # "idle"
    BY <1>1, <2>1, LookupWalks
  <2> QED BY <2>2
<1>3. Has' = Has
  <2>1. Keeps(held, lk, held', lk')
    BY <1>2 DEF Walked
  <2> QED BY <1>0, <1>1, <2>1, HasWalked
<1>4. Now(b)' = c /\ Placed' = Placed /\ Prog' = p
  BY <1>1, <1>3 DEF Now, Placed, Prog
<1>5. Looking(p, A, at, back, lk.pc, poll.pc, c) /\ Outlined(call.name, p, A, Post, Err) /\ (b => Placed)
  BY <1>0, <1>2, LookingIs DEF Standing
<1> HIDE DEF p, c
<1>6. Looking(p, A, at, back, lk'.pc, poll.pc, c)
  BY <1>2, <1>5 DEF Looking
<1>7. Stands(Prog, A, Err, at, back, lk.pc, poll.pc, Now(b))'
  BY <1>1, <1>4, <1>6 DEF Stands
<1>8. Outlined(call.name, Prog, A, Post, Err)'
  BY <1>1, <1>4, <1>5
<1>9. Standing(A, Post, Err, b)'
  BY <1>4, <1>5, <1>7, <1>8 DEF Standing
<1> QED BY <1>0, <1>9 DEF Onward

(* It ends with a lease ...                                                *)
LEMMA PathFoundGoesOn ==
  ASSUME NEW A, NEW Post, NEW Err, NEW b, Underway(A, Post, Err, b), PathFound
  PROVE  Onward(A, Post, Err)'
<1> DEFINE s == Current
           p == Prog
           c == Now(b)
           x == s.arg.slot
           rights == s.arg.rights
           d == Before(s, c)
           e == Now(b)'
<1>0. /\ b \in BOOLEAN /\ Standing(A, Post, Err, b) /\ WalkInv /\ WalkInv'
      /\ granted = [y \in Slots |-> granted[y]]
  BY DEF Underway
<1>1. /\ lk.pc = "success" /\ lk' = NoLookup /\ held' = HeldAfterSuccess
      /\ pa' = [pa EXCEPT ![x] = Lease] /\ Move
      /\ UNCHANGED <<call, ret, failed, granted, poll, dir, list>>
  BY Zenon DEF PathFound, result
<1>2. /\ Outlined(call.name, p, A, Post, Err)
      /\ back = 0 /\ at \in 1 .. Len(p) /\ s = p[at] /\ s.op = "path_get"
      /\ poll.pc \in Resting /\ d \in A[at] /\ granted[x] = rights /\ Allowed(call.name, s, d)
  <2>1. lk.pc # "idle"
    BY <1>1
  <2> QED BY <1>0, <2>1, LookingIs
<1>3. IsResources(Has) /\ Has.leased = LeasedIn(pa) /\ Has.granted = granted
  BY <1>0, HasIs, HasParts
<1>4. d = Stand(ret, failed, b, Entitled(Has, x, {})) /\ d.has = Entitled(Has, x, {})
  BY NowIs DEF Before, Stand
<1>5. x \in Slots /\ x \notin LeasedIn(pa)
  <2>1. d.has.leased = Has.leased
    BY <1>4 DEF Entitled, Resources
  <2> HIDE DEF s, d
  <2>2. s.arg.slot \in Slots \ d.has.leased
    BY <1>2 DEF Allowed
  <2> QED BY <1>3, <2>1, <2>2
<1>6. Has' = Resources(Has.need, Has.leased \cup {x}, Has.granted)
  <2> HIDE DEF x
  <2>1. Has' = Resources(Has.need, LeasedIn(pa) \cup {x}, granted)
    BY <1>0, <1>1, <1>5, HasFound
  <2> QED BY <1>3, <2>1
<1>7. Effect(s, d.has) = Has'
  <2>1. Effect(s, d.has) = Leasing(d.has, x, rights)
    <3> HIDE DEF s, d
    <3> QED BY <1>2, Effects DEF x, rights
  <2>2. Leasing(Entitled(Has, x, {}), x, rights) = Resources(Has.need, Has.leased \cup {x}, Has.granted)
    <3> HIDE DEF x, rights
    <3> QED BY <1>2, <1>3, <1>5, LeasingBack
  <2> HIDE DEF s, d, x, rights
  <2> QED BY <1>4, <1>6, <2>1, <2>2
<1>8. e \in After(s, d)
  <2>1. s.op \in Ordinary
    BY <1>2 DEF Ordinary
  <2>2. e = Stand(ret, failed, b, Has')
    BY <1>1 DEF Now
  <2>3. d.ret = ret /\ d.failed = failed /\ d.placed = b
    BY <1>4 DEF Stand
  <2> HIDE DEF s, d, e
  <2>4. After(s, d) = {Stand(d.ret, d.failed, d.placed, Effect(s, d.has))}
    BY <2>1, AfterOrdinary
  <2> QED BY <1>7, <2>2, <2>3, <2>4
<1>9. Prog' = p /\ (b => Placed') /\ call' = call /\ poll'.pc = poll.pc
  BY <1>0, <1>1 DEF Standing, Prog, Placed
<1>10. lk'.pc = "idle" /\ at' = at + 1 /\ back' = 0
  BY <1>1, <1>2 DEF NoLookup, Move
<1> HIDE DEF p, s, c, d, e
<1>11. Stands(p, A, Err, at + 1, 0, "idle", poll.pc, e)
  BY <1>2, <1>8, Advances
<1>12. Stands(Prog, A, Err, at, back, lk.pc, poll.pc, Now(b))'
  BY <1>9, <1>10, <1>11 DEF e
<1>13. Outlined(call.name, Prog, A, Post, Err)'
  BY <1>2, <1>9
<1>14. Standing(A, Post, Err, b)'
  BY <1>9, <1>12, <1>13 DEF Standing
<1> QED BY <1>0, <1>14 DEF Onward

(* ... or fails.                                                           *)
LEMMA PathRefusedGoesOn ==
  ASSUME NEW A, NEW Post, NEW Err, NEW b, Underway(A, Post, Err, b), PathRefused
  PROVE  Onward(A, Post, Err)'
<1> DEFINE s == Current
           p == Prog
           c == Now(b)
           x == s.arg.slot
           d == Before(s, c)
           e == Now(FALSE)'
<1>0. b \in BOOLEAN /\ Standing(A, Post, Err, b) /\ WalkInv /\ WalkInv'
  BY DEF Underway
<1>1. /\ lk.pc = "fail" /\ lk' = NoLookup /\ held' = HeldAfterFail
      /\ granted' = [granted EXCEPT ![x] = {}] /\ Error
      /\ UNCHANGED <<call, ret, failed, pa, poll, dir, list>>
  BY Zenon DEF PathRefused, result
<1>2. /\ Outlined(call.name, p, A, Post, Err)
      /\ at \in 1 .. Len(p) /\ s = p[at] /\ s.op = "path_get"
      /\ poll.pc \in Resting /\ d \in A[at]
  <2>1. lk.pc # "idle"
    BY <1>1
  <2> QED BY <1>0, <2>1, LookingIs
<1>3. Has.leased = LeasedIn(pa) /\ Has.granted = granted
  BY HasParts
<1>4. d.has = Entitled(Has, x, {})
  BY NowIs DEF Before, Stand
<1>5. Has' = Entitled(Has, x, {})
  <2>1. Has' = Resources(Has.need, LeasedIn(pa), granted')
    BY <1>0, <1>1, HasRefused
  <2> QED BY <1>1, <1>3, <2>1 DEF Entitled
<1>6. e.has \in Failing(s, d)
  <2>1. e.has = Has'
    BY DEF Now, Stand
  <2> HIDE DEF s, d, e
  <2>2. Failing(s, d) = {d.has}
    BY <1>2, Failures
  <2> QED BY <1>4, <1>5, <2>1, <2>2
<1>9. Prog' = p /\ call' = call /\ poll'.pc = poll.pc
  BY <1>1 DEF Prog
<1>10. lk'.pc = "idle" /\ at' = at /\ back' = 1
  BY <1>1 DEF NoLookup, Error
<1> HIDE DEF p, s, c, d, e
<1>11. Stands(p, A, Err, at, 1, "idle", poll.pc, e)
  BY <1>2, <1>6, Fails
<1>12. Stands(Prog, A, Err, at, back, lk.pc, poll.pc, Now(FALSE))'
  BY <1>9, <1>10, <1>11 DEF e
<1>13. Outlined(call.name, Prog, A, Post, Err)'
  BY <1>2, <1>9
<1>14. Standing(A, Post, Err, FALSE)'
  BY <1>12, <1>13 DEF Standing
<1> QED BY <1>14 DEF Onward

(* A lease is given back.                                                  *)
LEMMA PutPathGoesOn ==
  ASSUME NEW A, NEW Post, NEW Err, NEW b, Underway(A, Post, Err, b), PutPath
  PROVE  Onward(A, Post, Err)'
<1> DEFINE s == Current
           c == Now(b)
           x == s.arg
<1>0. b \in BOOLEAN /\ Standing(A, Post, Err, b) /\ WalkInv /\ WalkInv'
  BY DEF Underway
<1>1. /\ At("path_put") /\ Move /\ held' = Put(held, pa[x])
      /\ pa' = [pa EXCEPT ![x] = NoLease] /\ granted' = [granted EXCEPT ![x] = {}]
      /\ UNCHANGED <<call, ret, failed, lk, poll, dir, list>>
  BY Zenon DEF PutPath, Hold, result
<1>2. s.op = "path_put" /\ c.has = Has /\ Has.leased = LeasedIn(pa) /\ Has.granted = granted
  BY <1>1, NowIs, HasParts DEF At
<1>3. x \in LeasedIn(pa)
  <2>0. "path_put" # "poll" /\ "path_put" # "path_get"
    OBVIOUS
  <2>1. (back = 0 /\ Allowed(call.name, s, c)) \/ s.arg \in Has.leased
    BY <1>0, <1>1, <2>0, AtStep
  <2> HIDE DEF s, c
  <2>2. Allowed(call.name, s, c) => s.arg \in c.has.leased
    BY <1>2 DEF Allowed
  <2> QED BY <1>2, <2>1, <2>2
<1>4. Has' = Returning(Has, x)
  <2> HIDE DEF x
  <2>1. Has' = Resources(Has.need, LeasedIn(pa) \ {x}, granted')
    BY <1>0, <1>1, <1>3, HasPut
  <2> QED BY <1>1, <1>2, <2>1 DEF Returning
<1>5. Has' = Effect(s, Has)
  <2> HIDE DEF s
  <2> QED BY <1>2, <1>4, Effects DEF x
<1>6. Standing(A, Post, Err, b)'
  BY <1>0, <1>1, <1>5, OrdinaryMove DEF Ordinary
<1> QED BY <1>0, <1>6 DEF Onward

----------------------------------------------------------------------------
(* The steps of a poll                                                     *)

(* A poll begins at its step.                                              *)
LEMMA PollBegins ==
  ASSUME NEW A, NEW Post, NEW Err, NEW b, Standing(A, Post, Err, b), At("poll"), poll.pc = "idle"
  PROVE  /\ lk.pc = "idle" /\ back = 0 /\ at \in 1 .. Len(Prog) /\ Prog[at].op = "poll"
         /\ Now(b) \in A[at] /\ Outlined(call.name, Prog, A, Post, Err)
<1> DEFINE p == Prog
           l == lk.pc
           q == poll.pc
           c == Now(b)
<1>1. Outlined(call.name, p, A, Post, Err) /\ Stands(p, A, Err, at, back, l, q, c)
  BY DEF Standing
<1>2. /\ ~ (IF back = 0 THEN at > Len(p) ELSE back > Len(p[at].undo))
      /\ (IF back = 0 THEN p[at] ELSE p[at].undo[back]).op = "poll"
  BY DEF At, Finished, Current
<1>0. q = "idle"
  OBVIOUS
<1> HIDE DEF p, l, q, c
<1>3. Len(p) \in Nat
  BY <1>1, StepsCounted DEF Outlined
<1>4. CASE Ahead(p, A, at, back, l, q, c)
  <2>1. back = 0 /\ at \in 1 .. Len(p) + 1 /\ l = "idle" /\ c \in A[at]
    BY <1>4 DEF Ahead
  <2>2. at \in 1 .. Len(p) /\ p[at].op = "poll"
    BY <1>2, <1>3, <2>1
  <2> QED BY <1>1, <2>1, <2>2 DEF p, l, c
<1>5. CASE Polling(p, A, at, back, l, q, c)
  BY <1>0, <1>5 DEF Polling, Polls
<1>6. CASE Looking(p, A, at, back, l, q, c)
  BY <1>2, <1>6 DEF Looking
<1>7. CASE Cleaned(p, Err, at, back, l, q, c.has)
  <2> DEFINE n == Len(p[at].undo)
  <2>1. at \in 1 .. Len(p) /\ back \in 1 .. n + 1
    BY <1>7 DEF Cleaned
  <2>2. n \in Nat
    BY <1>1, <2>1, StepsCounted DEF Outlined
  <2>3. back # 0 /\ back # n + 1
    <3> HIDE DEF n
    <3>1. back # 0
      BY <2>1, <2>2
    <3>2. ~ (back > n)
      BY <1>2, <3>1 DEF n
    <3> QED BY <2>1, <2>2, <3>1, <3>2
  <2>4. p[at].undo[back].op \in Cleaning
    BY <1>1, <1>7, <2>3, Cleans
  <2> QED BY <1>2, <2>3, <2>4 DEF Cleaning
<1> QED BY <1>1, <1>4, <1>5, <1>6, <1>7 DEF Stands

(* What a poll may find.                                                   *)
LEMMA AfterPoll ==
  ASSUME NEW s, s.op = "poll", NEW c
  PROVE  After(s, c) = {c, Stand("ok", c.failed, c.placed, c.has), Stand("failed", TRUE, c.placed, c.has)}
BY DEF After

(* The poll goes on, at its step.                                          *)
LEMMA PollsOn ==
  ASSUME NEW A, NEW Post, NEW Err, NEW b, b \in BOOLEAN, Standing(A, Post, Err, b),
         UNCHANGED <<call, at, back, lk, dir, list>>,
         back = 0, lk.pc = "idle", at \in 1 .. Len(Prog), Prog[at].op = "poll",
         \/ poll'.pc \in Polls /\ Now(b)' \in A[at]
         \/ poll'.pc \in {"release", "done"} /\ Now(b)' \in A[at + 1]
  PROVE  Onward(A, Post, Err)'
<1> DEFINE p == Prog
           c == Now(b)'
<1>1. Outlined(call.name, p, A, Post, Err) /\ (b => Placed)
  BY DEF Standing
<1>2. Prog' = p /\ Placed' = Placed
  BY DEF Prog, Placed
<1>3. at \in 1 .. Len(p) /\ p[at].op = "poll"
  OBVIOUS
<1>4. \/ poll'.pc \in Polls /\ c \in A[at]
      \/ poll'.pc \in {"release", "done"} /\ c \in A[at + 1]
  OBVIOUS
<1> HIDE DEF p, c
<1>5. Polling(p, A, at, back, lk.pc, poll'.pc, c)
  BY <1>3, <1>4 DEF Polling
<1>6. Stands(Prog, A, Err, at, back, lk.pc, poll.pc, Now(b))'
  BY <1>2, <1>5 DEF Stands, c
<1>7. Outlined(call.name, Prog, A, Post, Err)'
  BY <1>1, <1>2
<1>8. Standing(A, Post, Err, b)'
  BY <1>1, <1>2, <1>6, <1>7 DEF Standing
<1> QED BY <1>8 DEF Onward

(* Where a call is that polls.                                             *)
LEMMA PollingIs ==
  ASSUME NEW A, NEW Post, NEW Err, NEW b, Standing(A, Post, Err, b), poll.pc \in Polls \cup {"release"}
  PROVE  /\ lk.pc = "idle" /\ back = 0 /\ at \in 1 .. Len(Prog) /\ Prog[at].op = "poll"
         /\ Outlined(call.name, Prog, A, Post, Err)
         /\ poll.pc \in Polls => Now(b) \in A[at] /\ After(Prog[at], Now(b)) \subseteq A[at + 1]
         /\ poll.pc = "release" => Now(b) \in A[at + 1]
<1>1. Polling(Prog, A, at, back, lk.pc, poll.pc, Now(b)) /\ Outlined(call.name, Prog, A, Post, Err)
  <2>1. poll.pc \notin Resting
    BY DEF Resting, Polls
  <2> QED BY <2>1 DEF Standing, Stands, Ahead, Looking, Cleaned
<1>2. /\ lk.pc = "idle" /\ back = 0 /\ at \in 1 .. Len(Prog) /\ Prog[at].op = "poll"
      /\ poll.pc \in Polls => Now(b) \in A[at]
      /\ poll.pc = "release" => Now(b) \in A[at + 1]
  BY <1>1 DEF Polling, Polls
<1>3. Now(b) \in A[at] => After(Prog[at], Now(b)) \subseteq A[at + 1]
  BY <1>1, <1>2, OutlineStep DEF Outlined
<1> QED BY <1>1, <1>2, <1>3

(* A poll begins, or cannot.                                               *)
LEMMA StartPollGoesOn ==
  ASSUME NEW A, NEW Post, NEW Err, NEW b, Underway(A, Post, Err, b), StartPoll
  PROVE  Onward(A, Post, Err)'
<1> DEFINE c == Now(b)
<1>0. b \in BOOLEAN /\ Standing(A, Post, Err, b) /\ WalkInv /\ WalkInv'
  BY DEF Underway
<1>1. /\ At("poll") /\ poll.pc = "idle"
      /\ UNCHANGED <<call, ret, failed, lk, pa, granted, dir, list>>
  BY Zenon DEF StartPoll, PollOnly, result
<1>2. PICK subs \in Subscriptions :
        LET p == [NoPoll EXCEPT !.subs = subs, !.next = 1]
        IN  \/ poll' = [p EXCEPT !.pc = "sleep"] /\ UNCHANGED <<held, at, back>>
            \/ /\ poll' = [p EXCEPT !.pc = "subscribe"]
               /\ held' = Plus(Plus(held, "blocks", 2), "locks", 1) /\ UNCHANGED <<at, back>>
            \/ Error /\ UNCHANGED <<held, poll>>
  BY Zenon DEF StartPoll
<1> DEFINE p == [NoPoll EXCEPT !.subs = subs, !.next = 1]
<1>3. PollShaped(p) /\ p.good = {}
  BY NoPollShaped DEF PollShaped, PollFields, NoPoll
<1>4. /\ lk.pc = "idle" /\ back = 0 /\ at \in 1 .. Len(Prog) /\ Prog[at].op = "poll"
      /\ c \in A[at] /\ Outlined(call.name, Prog, A, Post, Err)
  BY <1>0, <1>1, PollBegins
<1>5. poll.pc \notin Busy
  BY <1>1 DEF Busy
<1> HIDE DEF p
<1>6. CASE poll' = [p EXCEPT !.pc = "sleep"] /\ UNCHANGED <<held, at, back>>
  <2>1. poll'.pc = "sleep"
    BY <1>3, <1>6 DEF PollShaped, PollFields
  <2>2. poll'.pc \notin Busy /\ poll'.pc \in Polls
    BY <2>1 DEF Busy, Polls
  <2>3. Has' = Has
    BY <1>0, <1>1, <1>5, <1>6, <2>2, HasSits
  <2>4. Now(b)' = c
    BY <1>1, <2>3 DEF Now
  <2> QED BY <1>0, <1>1, <1>4, <1>6, <2>2, <2>4, PollsOn
<1>7. CASE /\ poll' = [p EXCEPT !.pc = "subscribe"]
           /\ held' = Plus(Plus(held, "blocks", 2), "locks", 1) /\ UNCHANGED <<at, back>>
  <2>1. poll'.pc = "subscribe" /\ poll'.good = {}
    BY <1>3, <1>7 DEF PollShaped, PollFields
  <2>2. poll'.pc \in Polls
    BY <2>1 DEF Polls
  <2>3. Has' = Has
    BY <1>0, <1>1, <1>5, <1>7, <2>1, HasSubscribes
  <2>4. Now(b)' = c
    BY <1>1, <2>3 DEF Now
  <2> QED BY <1>0, <1>1, <1>4, <1>7, <2>2, <2>4, PollsOn
<1>8. CASE Error /\ UNCHANGED <<held, poll>>
  <2> DEFINE d == Now(FALSE)'
             n == Prog
  <2>1. Has' = Has
    BY <1>1, <1>8, HasSame
  <2>2. d.has = c.has
    BY <2>1, NowIs DEF Now, Stand
  <2>5. Prog' = n /\ at' = at /\ back' = 1
    BY <1>1, <1>8 DEF Prog, Error
  <2>6. n[at].op = "poll" /\ c \in A[at] /\ at \in 1 .. Len(n) /\ Outlined(call.name, n, A, Post, Err)
    BY <1>4
  <2> HIDE DEF d, c, n
  <2>3. d.has \in Failing(n[at], c)
    BY <2>2, <2>6, Failures
  <2>4. Stands(n, A, Err, at, 1, "idle", poll.pc, d)
    <3>1. poll.pc \in Resting
      BY <1>1 DEF Resting
    <3> QED BY <2>3, <2>6, <3>1, Fails
  <2>7. Stands(Prog, A, Err, at, back, lk.pc, poll.pc, Now(FALSE))'
    BY <1>1, <1>4, <1>8, <2>4, <2>5 DEF d
  <2>8. Outlined(call.name, Prog, A, Post, Err)'
    BY <1>1, <2>5, <2>6
  <2>9. Standing(A, Post, Err, FALSE)'
    BY <2>7, <2>8 DEF Standing
  <2> QED BY <2>9 DEF Onward
<1> QED BY <1>2, <1>6, <1>7, <1>8 DEF p

(* A single clock is slept on.                                             *)
LEMMA SleepGoesOn ==
  ASSUME NEW A, NEW Post, NEW Err, NEW b, Underway(A, Post, Err, b), Sleep
  PROVE  Onward(A, Post, Err)'
<1> DEFINE c == Now(b)
<1>0. b \in BOOLEAN /\ Standing(A, Post, Err, b) /\ WalkInv /\ WalkInv' /\ PollShaped(poll)
  BY DEF Underway, WalkInv
<1>1. poll.pc = "sleep" /\ UNCHANGED <<call, ret, failed, at, back, held, lk, pa, granted, dir, list>>
  BY Zenon DEF Sleep, PollOnly, result
<1>2. PICK kind : poll' = [poll EXCEPT !.pc = "done", !.events = Event(1, kind)]
  BY Zenon DEF Sleep
<1> DEFINE e == Event(1, kind)
<1>3. poll' = [poll EXCEPT !.pc = "done", !.events = e]
  BY <1>2
<1> HIDE DEF e
<1>4. poll'.pc = "done"
  BY <1>0, <1>3 DEF PollShaped, PollFields
<1>5. poll.pc \notin Busy /\ poll'.pc \notin Busy /\ poll.pc \in Polls
  BY <1>1, <1>4 DEF Busy, Polls
<1>6. Has' = Has
  BY <1>0, <1>1, <1>5, HasSits
<1>7. Now(b)' = c
  BY <1>1, <1>6 DEF Now
<1>8. /\ lk.pc = "idle" /\ back = 0 /\ at \in 1 .. Len(Prog) /\ Prog[at].op = "poll"
      /\ c \in A[at] /\ After(Prog[at], c) \subseteq A[at + 1]
  BY <1>0, <1>5, PollingIs
<1>9. c \in A[at + 1]
  BY <1>8, AfterPoll
<1> QED BY <1>0, <1>1, <1>4, <1>7, <1>8, <1>9, PollsOn

(* A subscription is taken: its reference is counted with the poll.        *)
LEMMA SubscribeGoesOn ==
  ASSUME NEW A, NEW Post, NEW Err, NEW b, Underway(A, Post, Err, b), PollCounted(poll), Subscribe
  PROVE  Onward(A, Post, Err)'
<1> DEFINE c == Now(b)
           i == poll.next
           p == [poll EXCEPT !.next = i + 1]
           e == p.events \o Event(i, "error")
           g == p.good \cup {i}
<1>0. b \in BOOLEAN /\ Standing(A, Post, Err, b) /\ WalkInv /\ WalkInv' /\ PollShaped(poll)
  BY DEF Underway, WalkInv
<1>1. poll.pc = "subscribe" /\ UNCHANGED <<call, ret, failed, at, back, lk, pa, granted, dir, list>>
  BY Zenon DEF Subscribe, PollOnly, result
<1>2. \/ poll' = [poll EXCEPT !.pc = "wait"] /\ held' = Minus(held, "locks", 1)
      \/ poll' = [p EXCEPT !.good = g] /\ held' = Plus(held, "references", 1)
      \/ poll' = [p EXCEPT !.clock = i] /\ held' = held
      \/ poll' = [p EXCEPT !.events = e] /\ held' = held
  BY Zenon DEF Subscribe
<1>3. PollShaped(p) /\ p.good = poll.good /\ p.pc = poll.pc
  BY <1>0 DEF PollShaped, PollFields
<1>4. i \notin poll.good /\ g = poll.good \cup {i}
  BY <1>3 DEF PollCounted
<1> HIDE DEF p, e, g, i
<1>5. Has' = Has /\ poll'.pc \in {"subscribe", "wait"}
  <2>1. CASE poll' = [poll EXCEPT !.pc = "wait"] /\ held' = Minus(held, "locks", 1)
    <3>1. poll'.pc = "wait" /\ poll'.good = poll.good
      BY <1>0, <2>1 DEF PollShaped, PollFields
    <3> QED BY <1>0, <1>1, <2>1, <3>1, HasUnlocked
  <2>2. CASE poll' = [p EXCEPT !.good = g] /\ held' = Plus(held, "references", 1)
    <3>1. poll'.pc = "subscribe" /\ poll'.good = poll.good \cup {i}
      BY <1>1, <1>3, <1>4, <2>2 DEF PollShaped, PollFields
    <3>2. Has' = Has
      BY <1>0, <1>1, <1>4, <2>2, <3>1, HasSubscribed
    <3> QED BY <3>1, <3>2
  <2>3. CASE poll' = [p EXCEPT !.clock = i] /\ held' = held
    <3>1. poll'.pc = "subscribe" /\ poll'.good = poll.good
      BY <1>1, <1>3, <2>3 DEF PollShaped, PollFields
    <3> QED BY <1>0, <1>1, <2>3, <3>1, HasSits
  <2>4. CASE poll' = [p EXCEPT !.events = e] /\ held' = held
    <3>1. poll'.pc = "subscribe" /\ poll'.good = poll.good
      BY <1>1, <1>3, <2>4 DEF PollShaped, PollFields
    <3> QED BY <1>0, <1>1, <2>4, <3>1, HasSits
  <2> QED BY <1>2, <2>1, <2>2, <2>3, <2>4
<1>6. poll.pc \in Polls /\ poll'.pc \in Polls
  BY <1>1, <1>5 DEF Polls
<1>7. Now(b)' = c
  BY <1>1, <1>5 DEF Now
<1>8. /\ lk.pc = "idle" /\ back = 0 /\ at \in 1 .. Len(Prog) /\ Prog[at].op = "poll" /\ c \in A[at]
  BY <1>0, <1>6, PollingIs
<1> QED BY <1>0, <1>1, <1>6, <1>7, <1>8, PollsOn

(* The host answers the poll.                                              *)
LEMMA WaitGoesOn ==
  ASSUME NEW A, NEW Post, NEW Err, NEW b, Underway(A, Post, Err, b), Wait
  PROVE  Onward(A, Post, Err)'
<1> DEFINE c == Now(b)
           s == Prog[at]
<1>0. b \in BOOLEAN /\ Standing(A, Post, Err, b) /\ WalkInv /\ WalkInv' /\ PollShaped(poll)
  BY DEF Underway, WalkInv
<1>1. /\ poll.pc = "wait" /\ UNCHANGED <<call, at, back, held, lk, pa, granted, dir, list>>
      /\ (ret' = "failed" /\ failed' = TRUE) \/ (ret' = "ok" /\ failed' = failed)
  BY Zenon DEF Wait, PollOnly
<1>2. \E events : poll' = [poll EXCEPT !.pc = "release", !.events = events]
  BY Zenon DEF Wait
<1>3. PICK events : poll' = [poll EXCEPT !.pc = "release", !.events = events]
  BY <1>2
<1>4. poll'.pc = "release" /\ poll'.good = poll.good
  BY <1>0, <1>3 DEF PollShaped, PollFields
<1>5. Has' = Has
  BY <1>0, <1>1, <1>4, HasSits
<1>6. Now(b)' = Stand(ret', failed', b, Has)
  BY <1>5 DEF Now
<1>7. /\ lk.pc = "idle" /\ back = 0 /\ at \in 1 .. Len(Prog) /\ s.op = "poll" /\ After(s, c) \subseteq A[at + 1]
  <2>1. poll.pc \in Polls
    BY <1>1 DEF Polls
  <2> QED BY <1>0, <2>1, PollingIs
<1>8. c.failed = failed /\ c.placed = b /\ c.has = Has
  BY NowIs
<1>9. Now(b)' \in A[at + 1]
  <2> HIDE DEF s, c
  <2>1. Stand("ok", c.failed, c.placed, c.has) \in After(s, c) /\ Stand("failed", TRUE, c.placed, c.has) \in After(s, c)
    BY <1>7, AfterPoll
  <2>2. Stand("ok", failed, b, Has) \in A[at + 1] /\ Stand("failed", TRUE, b, Has) \in A[at + 1]
    BY <1>7, <1>8, <2>1
  <2> QED BY <1>1, <1>6, <2>2
<1> QED BY <1>0, <1>1, <1>4, <1>7, <1>9, PollsOn

(* What the poll has is given back, and the call goes on.                  *)
LEMMA EndPollGoesOn ==
  ASSUME NEW A, NEW Post, NEW Err, NEW b, Underway(A, Post, Err, b), EndPoll
  PROVE  Onward(A, Post, Err)'
<1> DEFINE c == Now(b)
           p == Prog
<1>0. b \in BOOLEAN /\ Standing(A, Post, Err, b) /\ WalkInv /\ WalkInv' /\ PollShaped(poll)
  BY DEF Underway, WalkInv
<1>1. /\ UNCHANGED <<call, ret, failed, lk, pa, granted, dir, list>>
      /\ \/ /\ poll.pc = "release" /\ poll' = [poll EXCEPT !.pc = "done"]
            /\ held' = Minus(Minus(held, "references", Cardinality(poll.good)), "blocks", 2)
            /\ UNCHANGED <<at, back>>
         \/ poll.pc = "done" /\ At("poll") /\ Move /\ UNCHANGED <<held, poll>>
  BY Zenon DEF EndPoll, PollOnly, result
<1>2. CASE /\ poll.pc = "release" /\ poll' = [poll EXCEPT !.pc = "done"]
           /\ held' = Minus(Minus(held, "references", Cardinality(poll.good)), "blocks", 2)
           /\ UNCHANGED <<at, back>>
  <2>1. poll'.pc = "done"
    BY <1>0, <1>2 DEF PollShaped, PollFields
  <2>2. Has' = Has
    BY <1>0, <1>1, <1>2, <2>1, HasAnswered
  <2>3. Now(b)' = c
    BY <1>1, <2>2 DEF Now
  <2>4. /\ lk.pc = "idle" /\ back = 0 /\ at \in 1 .. Len(Prog) /\ Prog[at].op = "poll" /\ c \in A[at + 1]
    BY <1>0, <1>2, PollingIs
  <2> QED BY <1>0, <1>1, <1>2, <2>1, <2>3, <2>4, PollsOn
<1>3. CASE poll.pc = "done" /\ At("poll") /\ Move /\ UNCHANGED <<held, poll>>
  <2> DEFINE l == lk.pc
             q == poll.pc
  <2>1. Now(b)' = c /\ Prog' = p /\ (b => Placed')
    <3>1. Has' = Has
      BY <1>1, <1>3, HasSame
    <3> QED BY <1>0, <1>1, <3>1 DEF Now, Prog, Standing, Placed
  <2>2. Outlined(call.name, p, A, Post, Err) /\ Stands(p, A, Err, at, back, l, q, c)
    BY <1>0 DEF Standing
  <2>3. /\ ~ (IF back = 0 THEN at > Len(p) ELSE back > Len(p[at].undo))
        /\ (IF back = 0 THEN p[at] ELSE p[at].undo[back]).op = "poll"
    BY <1>3 DEF At, Finished, Current
  <2>4. q = "done" /\ lk'.pc = l /\ poll'.pc = q
    BY <1>1, <1>3
  <2> HIDE DEF p, l, q, c
  <2>5. Len(p) \in Nat
    BY <2>2, StepsCounted DEF Outlined
  <2>6. back = 0 /\ at \in 1 .. Len(p) /\ l = "idle" /\ c \in A[at + 1]
    <3>1. CASE Ahead(p, A, at, back, l, q, c)
      <4>1. back = 0 /\ at \in 1 .. Len(p) + 1 /\ l = "idle" /\ c \in A[at]
        BY <3>1 DEF Ahead
      <4>2. at \in 1 .. Len(p) /\ p[at].op = "poll"
        BY <2>3, <2>5, <4>1
      <4>3. After(p[at], c) \subseteq A[at + 1]
        BY <2>2, <4>1, <4>2, OutlineStep DEF Outlined
      <4>4. c \in After(p[at], c)
        BY <4>2, AfterPoll
      <4> QED BY <4>1, <4>2, <4>3, <4>4
    <3>2. CASE Polling(p, A, at, back, l, q, c)
      BY <2>4, <3>2 DEF Polling, Polls
    <3>3. CASE Looking(p, A, at, back, l, q, c)
      BY <2>3, <3>3 DEF Looking
    <3>4. CASE Cleaned(p, Err, at, back, l, q, c.has)
      <4> DEFINE n == Len(p[at].undo)
      <4>1. at \in 1 .. Len(p) /\ back \in 1 .. n + 1
        BY <3>4 DEF Cleaned
      <4>2. n \in Nat
        BY <2>2, <4>1, StepsCounted DEF Outlined
      <4>3. back # 0 /\ back # n + 1
        <5> HIDE DEF n
        <5>1. back # 0
          BY <4>1, <4>2
        <5>2. ~ (back > n)
          BY <2>3, <5>1 DEF n
        <5> QED BY <4>1, <4>2, <5>1, <5>2
      <4>4. p[at].undo[back].op \in Cleaning
        BY <2>2, <3>4, <4>3, Cleans
      <4> QED BY <2>3, <4>3, <4>4 DEF Cleaning
    <3> QED BY <2>2, <3>1, <3>2, <3>3, <3>4 DEF Stands
  <2>7. at' = at + 1 /\ back' = 0
    BY <1>3, <2>6 DEF Move
  <2>8. at + 1 \in 1 .. Len(p) + 1
    BY <2>5, <2>6
  <2>9. Ahead(p, A, at + 1, 0, "idle", q, c)
    BY <2>4, <2>6, <2>8 DEF Ahead, Resting
  <2>10. Stands(Prog, A, Err, at, back, lk.pc, poll.pc, Now(b))'
    BY <2>1, <2>4, <2>6, <2>7, <2>9 DEF Stands
  <2>11. Outlined(call.name, Prog, A, Post, Err)'
    BY <1>1, <2>1, <2>2
  <2>12. Standing(A, Post, Err, b)'
    BY <2>1, <2>10, <2>11 DEF Standing
  <2> QED BY <1>0, <2>12 DEF Onward
<1> QED BY <1>1, <1>2, <1>3

----------------------------------------------------------------------------
(* The steps of a listing                                                  *)

(* The object of a directory and the locals of fd_readdir: the offset that *)
(* is stored is where the host stands, and the entries follow the cookie.  *)
ListInv ==
  /\ dir = [x \in {"open", "offset", "pos"} |-> dir[x]] /\ dir.pos \in Nat /\ dir.offset = dir.pos
  /\ list = [x \in {"cookie", "room", "used", "entries"} |-> list[x]]
  /\ list.cookie \in Nat /\ list.entries \in Seq(Nat)
  /\ \A i \in 1 .. Len(list.entries) : list.entries[i] = list.cookie + i
  /\ list.used > 0 => list.entries # <<>>

(* The parts of it.                                                        *)
LEMMA ListParts ==
  ASSUME ListInv
  PROVE  /\ dir.pos \in Nat /\ dir.offset = dir.pos /\ list.cookie \in Nat /\ list.entries \in Seq(Nat)
         /\ Len(list.entries) \in Nat /\ (list.used > 0 => list.entries # <<>>)
BY DEF ListInv

(* What the steps of a listing lead to.                                    *)
LEMMA AfterListing ==
  ASSUME NEW s, NEW c
  PROVE  /\ s.op = "seekdir" => After(s, c) = {Stand(c.ret, c.failed, TRUE, c.has)}
         /\ s.op = "readdir" =>
              After(s, c) = {Stand("ok", c.failed, c.placed, c.has), Stand("ok", TRUE, c.placed, c.has),
                             Stand("failed", TRUE, c.placed, c.has)}
BY DEF After

(* What fd_readdir may do, and when.                                       *)
LEMMA ListingIs ==
  ASSUME NEW A, NEW Post, NEW Err, NEW b, Standing(A, Post, Err, b),
         NEW op, op \in {"opendir", "seekdir", "readdir"}, At(op)
  PROVE  /\ back = 0 /\ call.name = "fd_readdir" /\ ~failed /\ Current.op = op
         /\ (op = "readdir" <=> b) /\ (op = "readdir" => Placed)
         /\ lk.pc = "idle" /\ op # "poll" /\ op # "path_get" /\ op \notin Cleaning
<1> DEFINE s == Current
           c == Now(b)
<1>0. op # "poll" /\ op # "path_get" /\ op \notin Cleaning
  BY DEF Cleaning
<1>1. back = 0 /\ s.op = op /\ Allowed(call.name, s, c) /\ lk.pc = "idle"
  BY <1>0, AtStep
<1>2. c.failed = failed /\ c.placed = b
  BY NowIs
<1> HIDE DEF s, c
<1>3. /\ call.name = "fd_readdir" /\ ~ c.failed
      /\ (op = "readdir" => c.placed) /\ (op # "readdir" => ~ c.placed)
  BY <1>1 DEF Allowed
<1>4. b => Placed
  BY DEF Standing
<1> QED BY <1>0, <1>1, <1>2, <1>3, <1>4 DEF s

(* The directory is opened, is open, or cannot be opened.                  *)
LEMMA OpenDirectoryGoesOn ==
  ASSUME NEW A, NEW Post, NEW Err, NEW b, Underway(A, Post, Err, b), OpenDirectory
  PROVE  Onward(A, Post, Err)'
<1> DEFINE s == Current
           c == Now(b)
<1>0. b \in BOOLEAN /\ Standing(A, Post, Err, b)
  BY DEF Underway
<1>1. At("opendir") /\ (Move \/ Error) /\ UNCHANGED <<call, ret, failed, lk, held, pa, granted, poll, list>>
  BY Zenon DEF OpenDirectory, ListOnly, lookupVars, result
<1>2. ~b /\ s.op = "opendir" /\ back = 0
  BY <1>0, <1>1, ListingIs
<1>3. CASE Error
  <2>1. UNCHANGED <<call, held, pa, lk, poll, granted>>
    BY <1>1
  <2>2. Standing(A, Post, Err, FALSE)'
    BY <1>0, <1>1, <1>3, <2>1, PlainError
  <2> QED BY <2>2 DEF Onward
<1>4. CASE Move
  <2>1. Has' = Has
    BY <1>1, HasSame
  <2>2. Now(b)' = Stand(ret, failed, b, Has)
    BY <1>1, <2>1 DEF Now
  <2>3. c.ret = ret /\ c.failed = failed /\ c.placed = b /\ c.has = Has
    BY NowIs
  <2>4. Now(b)' \in After(s, c)
    <3> HIDE DEF s, c
    <3>1. After(s, c) = {Stand(c.ret, c.failed, c.placed, Effect(s, c.has))}
      BY <1>2, AfterOrdinary DEF Ordinary
    <3>2. Effect(s, c.has) = c.has
      BY <1>2, Effects
    <3> QED BY <2>2, <2>3, <3>1, <3>2
  <2>5. call' = call /\ lk'.pc = lk.pc /\ poll'.pc = poll.pc
    BY <1>1
  <2>6. Standing(A, Post, Err, b)'
    BY <1>0, <1>1, <1>2, <1>4, <2>4, <2>5, MoveTo
  <2> QED BY <1>0, <2>6 DEF Onward
<1> QED BY <1>1, <1>3, <1>4

(* After a seek the directory stands at the cookie.                        *)
LEMMA SeekLists ==
  ASSUME ListInv, SeekDirectory
  PROVE  ListInv' /\ Placed'
<1>1. PICK cookie \in 0 .. DirSize, room \in Rooms :
        /\ list' = [NoList EXCEPT !.cookie = cookie, !.room = room]
        /\ dir' = IF dir.offset = cookie THEN dir ELSE [dir EXCEPT !.offset = cookie, !.pos = cookie]
  BY Zenon DEF SeekDirectory
<1>2. cookie \in Nat
  BY WasiCallsAssumption
<1>3. /\ list' = [x \in {"cookie", "room", "used", "entries"} |-> list'[x]]
      /\ list'.cookie = cookie /\ list'.used = 0 /\ list'.entries = <<>>
  BY <1>1 DEF NoList
<1>4. /\ dir' = [x \in {"open", "offset", "pos"} |-> dir'[x]] /\ dir'.pos = cookie /\ dir'.offset = cookie
  BY <1>1 DEF ListInv
<1>5. Len(<<>>) = 0 /\ <<>> \in Seq(Nat) /\ ~ (0 > 0)
  OBVIOUS
<1> QED BY <1>2, <1>3, <1>4, <1>5 DEF ListInv, Placed

(* The call stands where the directory does.                               *)
LEMMA SeekDirectoryGoesOn ==
  ASSUME NEW A, NEW Post, NEW Err, NEW b, Underway(A, Post, Err, b), ListInv, SeekDirectory
  PROVE  Onward(A, Post, Err)'
<1> DEFINE s == Current
           c == Now(b)
<1>0. b \in BOOLEAN /\ Standing(A, Post, Err, b)
  BY DEF Underway
<1>1. At("seekdir") /\ Move /\ UNCHANGED <<call, ret, failed, lk, held, pa, granted, poll>>
  BY Zenon DEF SeekDirectory, ListOnly, lookupVars, result
<1>2. s.op = "seekdir" /\ back = 0 /\ lk.pc = "idle"
  BY <1>0, <1>1, ListingIs
<1>3. Has' = Has
  BY <1>1, HasSame
<1>4. Now(TRUE)' = Stand(ret, failed, TRUE, Has)
  BY <1>1, <1>3 DEF Now
<1>5. c.ret = ret /\ c.failed = failed /\ c.has = Has
  BY NowIs
<1>6. Now(TRUE)' \in After(s, c)
  <2> HIDE DEF s, c
  <2>1. After(s, c) = {Stand(c.ret, c.failed, TRUE, c.has)}
    BY <1>2 DEF After
  <2> QED BY <1>4, <1>5, <2>1
<1>7. call' = call /\ lk'.pc = lk.pc /\ poll'.pc = poll.pc /\ Placed'
  BY <1>1, SeekLists
<1>8. Standing(A, Post, Err, TRUE)'
  BY <1>0, <1>1, <1>2, <1>6, <1>7, MoveTo
<1> QED BY <1>8 DEF Onward

(* One more at the end.                                                    *)
LEMMA OneMore ==
  ASSUME NEW es, es \in Seq(Nat), NEW x, x \in Nat
  PROVE  LET n == Len(es)
         IN  /\ Append(es, x) \in Seq(Nat) /\ Len(Append(es, x)) = n + 1 /\ Append(es, x) # <<>>
             /\ \A i \in 1 .. n + 1 : Append(es, x)[i] = IF i = n + 1 THEN x ELSE es[i]
<1> DEFINE n == Len(es)
           f == Append(es, x)
<1>1. n \in Nat /\ f \in Seq(Nat) /\ Len(f) = n + 1 /\ f # <<>>
  OBVIOUS
<1>2. f[n + 1] = x /\ \A i \in 1 .. n : f[i] = es[i]
  OBVIOUS
<1> HIDE DEF f, n
<1>3. \A i \in 1 .. n + 1 : f[i] = IF i = n + 1 THEN x ELSE es[i]
  BY <1>1, <1>2
<1> QED BY <1>1, <1>3 DEF f, n

(* An entry is read: it is the next one.                                   *)
LEMMA ReadLists ==
  ASSUME ListInv, Placed, ReadEntry
  PROVE  ListInv' /\ Placed' /\ list'.entries # <<>>
<1> DEFINE pos == dir.pos + 1
           es == Append(list.entries, pos)
           n == Len(list.entries)
           u == IF list.used + EntrySize > list.room THEN list.room ELSE list.used + EntrySize
<1>1. /\ dir' = [dir EXCEPT !.pos = pos, !.offset = ToldOffset(dir.offset, pos)]
      /\ list' = [list EXCEPT !.used = u, !.entries = es]
  BY Zenon DEF ReadEntry
<1>2. ToldOffset(dir.offset, pos) = pos
  BY DEF ToldOffset
<1>3. /\ dir.pos \in Nat /\ list.cookie \in Nat /\ list.entries \in Seq(Nat) /\ n \in Nat
      /\ dir.pos = list.cookie + n
  BY ListParts DEF Placed
<1>4. pos \in Nat /\ pos = list.cookie + (n + 1)
  BY <1>3
<1>5. /\ es \in Seq(Nat) /\ Len(es) = n + 1 /\ es # <<>>
      /\ \A i \in 1 .. n + 1 : es[i] = IF i = n + 1 THEN pos ELSE list.entries[i]
  BY <1>3, <1>4, OneMore
<1> HIDE DEF pos, es, u
<1>6. /\ dir' = [x \in {"open", "offset", "pos"} |-> dir'[x]] /\ dir'.pos = pos /\ dir'.offset = pos
  BY <1>1, <1>2 DEF ListInv
<1>7. /\ list' = [x \in {"cookie", "room", "used", "entries"} |-> list'[x]]
      /\ list'.cookie = list.cookie /\ list'.entries = es
  BY <1>1 DEF ListInv
<1>8. ASSUME NEW i, i \in 1 .. n + 1 PROVE es[i] = list.cookie + i
  <2>1. \A j \in 1 .. n : list.entries[j] = list.cookie + j
    BY DEF ListInv
  <2> HIDE DEF n
  <2>2. CASE i = n + 1
    BY <1>4, <1>5, <1>8, <2>2
  <2>3. CASE i # n + 1
    <3>1. i \in 1 .. n
      BY <1>3, <1>8, <2>3
    <3> QED BY <1>5, <1>8, <2>1, <2>3, <3>1
  <2> QED BY <2>2, <2>3
<1> HIDE DEF n
<1>9. Placed'
  BY <1>4, <1>5, <1>6, <1>7 DEF Placed
<1>10. \A i \in 1 .. Len(es) : es[i] = list.cookie + i
  BY <1>5, <1>8
<1>11. ListInv'
  BY <1>3, <1>4, <1>5, <1>6, <1>7, <1>10 DEF ListInv
<1> QED BY <1>5, <1>7, <1>9, <1>11

(* The call stays at its step.                                             *)
LEMMA ReadEntryGoesOn ==
  ASSUME NEW A, NEW Post, NEW Err, NEW b, Underway(A, Post, Err, b), ListInv, ReadEntry
  PROVE  Onward(A, Post, Err)'
<1>0. b \in BOOLEAN /\ Standing(A, Post, Err, b)
  BY DEF Underway
<1>1. At("readdir") /\ UNCHANGED <<call, at, back, ret, failed, lk, held, pa, granted, poll>>
  BY Zenon DEF ReadEntry, ListOnly, lookupVars, result
<1>2. Placed
  BY <1>0, <1>1, ListingIs
<1>3. Placed'
  BY <1>2, ReadLists
<1>4. Has' = Has
  BY <1>1, HasSame
<1>5. Now(b)' = Now(b) /\ Prog' = Prog
  BY <1>1, <1>4 DEF Now, Prog
<1>6. Standing(A, Post, Err, b)'
  BY <1>0, <1>1, <1>3, <1>5 DEF Standing
<1> QED BY <1>0, <1>6 DEF Onward

(* The listing ends.                                                       *)
LEMMA EndListingGoesOn ==
  ASSUME NEW A, NEW Post, NEW Err, NEW b, Underway(A, Post, Err, b), EndListing
  PROVE  Onward(A, Post, Err)'
<1> DEFINE s == Current
           c == Now(b)
<1>0. b \in BOOLEAN /\ Standing(A, Post, Err, b)
  BY DEF Underway
<1>1. /\ At("readdir") /\ Move /\ UNCHANGED <<call, lk, held, pa, granted, poll, dir, list>>
      /\ \/ ret' = "ok" /\ failed' = failed
         \/ ret' = "ok" /\ failed' = TRUE
         \/ ret' = "failed" /\ failed' = TRUE
  BY Zenon DEF EndListing, ListOnly, lookupVars
<1>2. s.op = "readdir" /\ back = 0 /\ lk.pc = "idle"
  BY <1>0, <1>1, ListingIs
<1>3. Has' = Has
  BY <1>1, HasSame
<1>4. Now(b)' = Stand(ret', failed', b, Has)
  BY <1>3 DEF Now
<1>5. c.failed = failed /\ c.placed = b /\ c.has = Has
  BY NowIs
<1>6. Now(b)' \in After(s, c)
  <2> HIDE DEF s, c
  <2>1. After(s, c) = {Stand("ok", c.failed, c.placed, c.has), Stand("ok", TRUE, c.placed, c.has),
                       Stand("failed", TRUE, c.placed, c.has)}
    BY <1>2 DEF After
  <2> QED BY <1>1, <1>4, <1>5, <2>1
<1>7. call' = call /\ lk'.pc = lk.pc /\ poll'.pc = poll.pc /\ (b => Placed')
  BY <1>0, <1>1 DEF Standing, Placed
<1>8. Standing(A, Post, Err, b)'
  BY <1>0, <1>1, <1>2, <1>6, <1>7, MoveTo
<1> QED BY <1>0, <1>8 DEF Onward

----------------------------------------------------------------------------
(* Where every call is                                                     *)

(* Between two calls.                                                      *)
Fresh ==
  /\ back = 0 /\ ret = "ok" /\ failed = FALSE /\ pa = [s \in Slots |-> NoLease] /\ granted = NoRights
  /\ poll = NoPoll /\ list = NoList /\ lk = NoLookup

(* An exception ends the program when its call does, and what sets it      *)
(* fails, but for proc_exit and proc_raise; a listing that fails and says  *)
(* nothing of it has entries.                                              *)
Noted ==
  /\ exception /\ call = NoCall => status # "running"
  /\ exception /\ call # NoCall /\ back = 0 => call.name \in {"proc_exit", "proc_raise"}
  /\ call.name = "fd_readdir" /\ failed /\ ret = "ok" => list.entries # <<>>

(* The inductive invariant: between two calls there is nothing, and a call *)
(* is at a place of an outline of its program, with what the outline says  *)
(* it has.                                                                 *)
CallInv ==
  /\ WalkInv /\ granted = [s \in Slots |-> granted[s]] /\ PollCounted(poll) /\ ListInv
  /\ call = NoCall => Fresh
  /\ call # NoCall => \E A, Post, Err : Onward(A, Post, Err)

(* Nothing is there between two calls.                                     *)
LEMMA FreshIs ==
  ASSUME Fresh
  PROVE  /\ granted = [s \in Slots |-> granted[s]] /\ PollCounted(poll)
         /\ lk.pc = "idle" /\ poll.pc = "idle" /\ LeasedIn(pa) = {}
<1>1. lk.pc = "idle" /\ poll.pc = "idle" /\ poll.next = 0 /\ poll.good = {}
  BY DEF Fresh, NoLookup, NoPoll
<1>2. granted = [s \in Slots |-> granted[s]]
  BY DEF Fresh, NoRights
<1>3. LeasedIn(pa) = {}
  BY DEF Fresh, LeasedIn
<1> QED BY <1>1, <1>2, <1>3 DEF PollCounted

(* With nothing held, a call that begins has nothing.                      *)
LEMMA HasNothing ==
  ASSUME Fresh, held = Nothing
  PROVE  Has = Zero
<1>1. lk.pc = "idle" /\ poll.pc = "idle" /\ LeasedIn(pa) = {} /\ granted = NoRights
  BY FreshIs DEF Fresh
<1>2. \A k \in Kinds : Leases(pa)[k] = 0
  <2>1. \A k : LeasesIn(pa, k) = {}
    BY <1>1 DEF LeasesIn
  <2> QED BY <2>1, FS_EmptySet DEF Leases
<1>3. \A k \in Kinds : Looked(lk)[k] = 0 /\ Polled(poll)[k] = 0
  BY <1>1 DEF Looked, Polled, Busy
<1>4. \A k \in Kinds : Owed(pa, lk, poll)[k] = 0
  BY <1>2, <1>3 DEF Owed
<1>5. Need(held, Owed(pa, lk, poll)) = Nothing
  BY <1>4 DEF Need, Nothing
<1> QED BY <1>1, <1>5 DEF Has, Zero

(* Both hold at first.                                                     *)
LEMMA CallInit == Init => CallInv /\ Noted
<1> SUFFICES ASSUME Init PROVE CallInv /\ Noted
  OBVIOUS
<1>1. WalkInv
  BY WalkInit
<1>2. /\ lk = NoLookup /\ exception = FALSE /\ call = NoCall /\ back = 0 /\ ret = "ok" /\ failed = FALSE
      /\ pa = [s \in Slots |-> NoLease] /\ granted = [s \in Slots |-> {}]
      /\ poll = NoPoll /\ list = NoList /\ dir = [open |-> FALSE, offset |-> 0, pos |-> 0]
  BY Zenon DEF Init
<1>3. Fresh
  BY <1>2 DEF Fresh, NoRights
<1>4. list.cookie = 0 /\ list.used = 0 /\ list.entries = <<>>
  BY <1>2 DEF NoList
<1>10. list = [x \in {"cookie", "room", "used", "entries"} |-> list[x]]
  BY <1>2 DEF NoList
<1>5. dir = [x \in {"open", "offset", "pos"} |-> dir[x]] /\ dir.pos \in Nat /\ dir.offset = dir.pos
  BY <1>2
<1>6. Len(<<>>) = 0 /\ <<>> \in Seq(Nat) /\ ~ (0 > 0)
  OBVIOUS
<1>7. ListInv
  <2>1. list.cookie \in Nat /\ list.entries \in Seq(Nat) /\ Len(list.entries) = 0 /\ ~ (list.used > 0)
    BY <1>4, <1>6
  <2>2. \A i \in 1 .. Len(list.entries) : list.entries[i] = list.cookie + i
    BY <2>1
  <2>3. list = [x \in {"cookie", "room", "used", "entries"} |-> list[x]]
    BY <1>10
  <2> QED BY Zenon, <1>5, <2>1, <2>2, <2>3 DEF ListInv
<1>8. CallInv
  BY <1>1, <1>2, <1>3, <1>7, FreshIs DEF CallInv
<1>9. Noted
  BY <1>2 DEF Noted
<1> QED BY <1>8, <1>9

(* A call begins at the start of an outline of its program.                *)
LEMMA BeginStands ==
  ASSUME Fresh, Begin
  PROVE  (\E A, Post, Err : Onward(A, Post, Err))'
<1>1. PICK name \in Calls :
        \E flags \in DOMAIN native_symbols_libc_wasi[name] : call' = [name |-> name, flags |-> flags]
  BY Zenon DEF Begin
<1>2. PICK flags \in DOMAIN native_symbols_libc_wasi[name] : call' = [name |-> name, flags |-> flags]
  BY <1>1
<1>3. /\ held = Nothing /\ at' = 1 /\ UNCHANGED <<fs, changes, lk, held>>
      /\ UNCHANGED <<status, exception, back, ret, failed, pa, granted, poll, dir, list>>
  BY Zenon DEF Begin, lookupVars, result
<1> DEFINE p == native_symbols_libc_wasi[name][flags]
<1>4. Prog' = p /\ call'.name = name
  BY <1>2 DEF Prog
<1>5. Settles(name, p)
  BY EveryCallSettles
<1> HIDE DEF p
<1>6. PICK Post, Err : /\ Leads(name, p, {Calm(Zero)}, Post, Err)
                       /\ \A c \in Post : Settled(name, c)
                       /\ \A r \in Err : Abandoned(name, r)
  BY <1>5 DEF Settles
<1>7. PICK A : Outline(name, p, A, Post, Err) /\ {Calm(Zero)} \subseteq A[1]
  BY <1>6 DEF Leads
<1>8. IsProgram(p)
  BY <1>6 DEF Leads
<1>9. Outlined(name, p, A, Post, Err)
  BY <1>6, <1>7, <1>8 DEF Outlined
<1>10. Has' = Zero
  BY <1>3, HasNothing, HasSame
<1>11. Now(FALSE)' = Calm(Zero)
  BY <1>3, <1>10 DEF Now, Calm, Fresh
<1>12. 1 \in 1 .. Len(p) + 1
  <2>1. Len(p) \in Nat
    BY <1>8, StepsCounted
  <2> QED BY <2>1
<1>13. lk'.pc = "idle" /\ poll'.pc \in Resting /\ back' = 0
  BY <1>3, FreshIs DEF Fresh, Resting
<1>14. Stands(p, A, Err, 1, 0, "idle", poll'.pc, Calm(Zero))
  BY <1>7, <1>12, <1>13 DEF Stands, Ahead
<1>15. Stands(Prog, A, Err, at, back, lk.pc, poll.pc, Now(FALSE))'
  BY <1>3, <1>4, <1>11, <1>13, <1>14
<1>16. Outlined(call.name, Prog, A, Post, Err)'
  BY <1>4, <1>9
<1>17. Standing(A, Post, Err, FALSE)'
  BY <1>15, <1>16 DEF Standing
<1> QED BY <1>17 DEF Onward

(* A call begins.                                                          *)
LEMMA BeginKeeps ==
  ASSUME CallInv, Noted, Begin
  PROVE  CallInv' /\ Noted'
<1>0. /\ status = "running" /\ call = NoCall
      /\ UNCHANGED <<fs, lk, held, status, exception, back, ret, failed, pa, granted, poll, dir, list>>
  BY Zenon DEF Begin, lookupVars, result
<1>1. Fresh /\ WalkInv /\ granted = [s \in Slots |-> granted[s]] /\ PollCounted(poll) /\ ListInv
  BY <1>0 DEF CallInv
<1>2. (\E A, Post, Err : Onward(A, Post, Err))'
  BY <1>1, BeginStands
<1>3. Fresh'
  BY <1>0, <1>1 DEF Fresh
<1>4. WalkInv' /\ (granted = [s \in Slots |-> granted[s]])' /\ PollCounted(poll)' /\ ListInv'
  BY <1>0, <1>1 DEF WalkInv, ListInv, PollCounted
<1>5. CallInv'
  BY <1>2, <1>3, <1>4 DEF CallInv
<1>6. ~ exception' /\ ~ failed'
  BY <1>0, <1>1 DEF Noted, Fresh
<1>7. Noted'
  BY <1>6 DEF Noted
<1> QED BY <1>5, <1>7

(* What is there when a call has ended.                                    *)
LEMMA AtTheEnd ==
  ASSUME NEW A, NEW Post, NEW Err, NEW b, Standing(A, Post, Err, b), Finished
  PROVE  /\ lk.pc = "idle" /\ poll.pc \in Resting
         /\ back = 0 => Settled(call.name, Now(b))
         /\ back # 0 => back > 0 /\ Abandoned(call.name, Has)
<1>1. /\ Outlined(call.name, Prog, A, Post, Err)
      /\ Stands(Prog, A, Err, at, back, lk.pc, poll.pc, Now(b))
  BY DEF Standing
<1>2. IF back = 0 THEN at > Len(Prog) ELSE back > Len(Prog[at].undo)
  BY DEF Finished
<1>3. Now(b).has = Has
  BY NowIs
<1> DEFINE p == Prog
           l == lk.pc
           q == poll.pc
           c == Now(b)
           name == call.name
<1> HIDE DEF p, l, q, c, name
<1>4. /\ l = "idle" /\ q \in Resting
      /\ back = 0 => Settled(name, c)
      /\ back # 0 => back > 0 /\ Abandoned(name, c.has)
  BY <1>1, <1>2, Ends DEF p, l, q, c, name
<1> QED BY <1>3, <1>4 DEF l, q, c, name

(* A call ends.                                                            *)
LEMMA ReturnKeeps ==
  ASSUME CallInv, Noted, Return
  PROVE  CallInv' /\ Noted'
<1>0. /\ Finished /\ status' = (IF exception THEN "trapped" ELSE status) /\ call' = NoCall
      /\ back' = 0 /\ ret' = "ok" /\ failed' = FALSE
      /\ pa' = [s \in Slots |-> NoLease] /\ granted' = [s \in Slots |-> {}] /\ poll' = NoPoll /\ list' = NoList
      /\ UNCHANGED <<fs, lk, held, exception, dir>>
  BY Zenon DEF Return
<1>1. call # NoCall
  BY <1>0 DEF Finished, Running
<1>2. PICK A, Post, Err : \E b \in BOOLEAN : Standing(A, Post, Err, b)
  BY <1>1 DEF CallInv, Onward
<1>3. lk.pc = "idle"
  BY <1>0, <1>2, AtTheEnd
<1>4. lk = NoLookup
  BY <1>3 DEF CallInv, WalkInv, Walking
<1>5. Fresh'
  BY <1>0, <1>4 DEF Fresh, NoRights
<1>6. WalkInv'
  BY <1>0, PathWalks DEF CallInv
<1>7. /\ list' = [x \in {"cookie", "room", "used", "entries"} |-> list'[x]]
      /\ list'.cookie = 0 /\ list'.used = 0 /\ list'.entries = <<>>
  BY <1>0 DEF NoList
<1>8. Len(<<>>) = 0 /\ <<>> \in Seq(Nat) /\ ~ (0 > 0)
  OBVIOUS
<1>9. /\ dir' = [x \in {"open", "offset", "pos"} |-> dir'[x]] /\ dir'.pos \in Nat /\ dir'.offset = dir'.pos
  BY <1>0 DEF CallInv, ListInv
<1>10. ListInv'
  BY <1>7, <1>8, <1>9 DEF ListInv
<1>11. (granted = [s \in Slots |-> granted[s]])' /\ PollCounted(poll)'
  BY <1>5, FreshIs, PTL
<1>12. CallInv'
  BY <1>0, <1>5, <1>6, <1>10, <1>11 DEF CallInv
<1>13. exception' => status' # "running"
  BY <1>0
<1>14. Noted'
  BY <1>0, <1>13 DEF Noted
<1> QED BY <1>12, <1>14

----------------------------------------------------------------------------
(* The steps of a call keep it                                             *)

CallStep ==
  \/ CheckAddress \/ CheckArgument \/ Take \/ Give
  \/ GetReference \/ ReleaseReference \/ SystemCall \/ ReportResult
  \/ InsertDescriptor \/ UnlessUnsupported \/ Throw \/ Randomness
  \/ StartPath \/ StepPath \/ PathFound \/ PathRefused \/ PutPath
  \/ StartPoll \/ Subscribe \/ EndPoll \/ Sleep \/ Wait \/ Interfere
  \/ OpenDirectory \/ SeekDirectory \/ ReadEntry \/ EndListing

(* Every step is one of these, or begins or ends a call.                   *)
LEMMA CallSorts == Next => Begin \/ Return \/ CallStep
BY Zenon DEF Next, Progress, CallStep

(* A step of a call has a call, and it is the same after it.               *)
LEMMA CallRuns ==
  ASSUME CallInv, CallStep
  PROVE  call # NoCall /\ call' = call
<1>1. \A op : At(op) => call # NoCall
  BY Zenon DEF At, Running
<1>2. lk.pc # "idle" \/ poll.pc # "idle" => call # NoCall
  BY FreshIs DEF CallInv
<1>3. CASE CheckAddress \/ CheckArgument \/ Take \/ Give \/ GetReference \/ ReleaseReference
  BY <1>1, <1>3, Zenon DEF CheckAddress, CheckArgument, Take, Give, GetReference, ReleaseReference
<1>4. CASE SystemCall \/ ReportResult \/ InsertDescriptor \/ UnlessUnsupported \/ Throw \/ Randomness
  BY <1>1, <1>4, Zenon DEF SystemCall, ReportResult, InsertDescriptor, UnlessUnsupported, Throw, Randomness
<1>5. CASE StartPath \/ PutPath \/ StartPoll \/ OpenDirectory \/ SeekDirectory \/ ReadEntry \/ EndListing
  BY <1>1, <1>5, Zenon
     DEF StartPath, PutPath, StartPoll, OpenDirectory, SeekDirectory, ReadEntry, EndListing, ListOnly, PollOnly
<1>6. CASE StepPath \/ PathFound \/ PathRefused \/ Interfere
  <2>1. call' = call
    BY <1>6, Zenon DEF StepPath, PathFound, PathRefused, Interfere, callVars
  <2>2. lk.pc \in {"loop", "readlink", "success", "fail"}
    BY <1>6, Zenon DEF StepPath, PathFound, PathRefused, Interfere, LookupStep, ChangeFileSystem,
         Unresolvable, Skip, Parent, EnterDirectory, FinalComponent, ReadLink, Looping, NamedFile
  <2>3. lk.pc # "idle"
    BY <2>2
  <2> QED BY <1>2, <2>1, <2>3
<1>7. CASE Subscribe \/ EndPoll \/ Sleep \/ Wait
  <2>1. call' = call
    BY <1>7, Zenon DEF Subscribe, EndPoll, Sleep, Wait, PollOnly
  <2>2. poll.pc \in {"subscribe", "release", "done", "sleep", "wait"}
    BY <1>7, Zenon DEF Subscribe, EndPoll, Sleep, Wait
  <2>3. poll.pc # "idle"
    BY <2>2
  <2> QED BY <1>2, <2>1, <2>3
<1> QED BY <1>3, <1>4, <1>5, <1>6, <1>7 DEF CallStep

(* The rights stay a function of the slots.                                *)
LEMMA RightsStay ==
  ASSUME granted = [s \in Slots |-> granted[s]], CallStep
  PROVE  granted' = [s \in Slots |-> granted'[s]]
<1>1. \/ granted' = granted
      \/ \E slot, rights : granted' = [granted EXCEPT ![slot] = rights]
  <2>1. CASE CheckAddress \/ CheckArgument \/ Take \/ Give \/ SystemCall \/ ReportResult
             \/ InsertDescriptor \/ UnlessUnsupported \/ Throw \/ Randomness
    BY <2>1, Zenon DEF CheckAddress, CheckArgument, Take, Give, SystemCall, ReportResult,
         InsertDescriptor, UnlessUnsupported, Throw, Randomness, Locals
  <2>2. CASE GetReference \/ ReleaseReference \/ StartPath \/ PathFound \/ PathRefused \/ PutPath
    BY <2>2, Zenon DEF GetReference, ReleaseReference, StartPath, PathFound, PathRefused, PutPath
  <2>3. CASE StepPath \/ Interfere
    BY <2>3, Zenon DEF StepPath, Interfere, callVars
  <2>4. CASE StartPoll \/ Subscribe \/ EndPoll \/ Sleep \/ Wait
    BY <2>4, Zenon DEF StartPoll, Subscribe, EndPoll, Sleep, Wait, PollOnly
  <2>5. CASE OpenDirectory \/ SeekDirectory \/ ReadEntry \/ EndListing
    BY <2>5, Zenon DEF OpenDirectory, SeekDirectory, ReadEntry, EndListing, ListOnly
  <2> QED BY <2>1, <2>2, <2>3, <2>4, <2>5 DEF CallStep
<1>2. CASE \E slot, rights : granted' = [granted EXCEPT ![slot] = rights]
  <2>1. PICK slot, rights : granted' = [granted EXCEPT ![slot] = rights]
    BY <1>2
  <2> QED BY <2>1
<1> QED BY <1>1, <1>2

(* The subscriptions are taken one after the other.                        *)
LEMMA CountStays ==
  ASSUME PollShaped(poll), PollCounted(poll), CallStep
  PROVE  PollCounted(poll)'
<1>1. CASE StartPoll
  <2>1. \/ poll' = poll
        \/ \E subs, pc : poll' = [[NoPoll EXCEPT !.subs = subs, !.next = 1] EXCEPT !.pc = pc]
    BY <1>1, Zenon DEF StartPoll
  <2>2. CASE \E subs, pc : poll' = [[NoPoll EXCEPT !.subs = subs, !.next = 1] EXCEPT !.pc = pc]
    <3>1. poll'.next = 1 /\ poll'.good = {}
      BY <2>2 DEF NoPoll
    <3> QED BY <3>1 DEF PollCounted
  <2> QED BY <2>1, <2>2 DEF PollCounted
<1>2. CASE Subscribe
  <2> DEFINE i == poll.next
             p == [poll EXCEPT !.next = i + 1]
             e == p.events \o Event(i, "error")
             g == p.good \cup {i}
  <2>2. \/ poll' = [poll EXCEPT !.pc = "wait"]
        \/ poll' = [p EXCEPT !.good = g]
        \/ poll' = [p EXCEPT !.clock = i]
        \/ poll' = [p EXCEPT !.events = e]
    BY <1>2, Zenon DEF Subscribe
  <2>4. p.next = i + 1 /\ p.good = poll.good /\ PollShaped(p)
    BY DEF PollShaped, PollFields
  <2> HIDE DEF p, e
  <2>5. \/ poll'.next = i /\ poll'.good = poll.good
        \/ poll'.next = i + 1 /\ poll'.good = poll.good
        \/ poll'.next = i + 1 /\ poll'.good = poll.good \cup {i}
    <3>1. CASE poll' = [poll EXCEPT !.pc = "wait"]
      BY <3>1 DEF PollShaped, PollFields
    <3>2. CASE poll' = [p EXCEPT !.good = g]
      BY <2>4, <3>2 DEF PollShaped, PollFields
    <3>3. CASE poll' = [p EXCEPT !.clock = i]
      BY <2>4, <3>3 DEF PollShaped, PollFields
    <3>4. CASE poll' = [p EXCEPT !.events = e]
      BY <2>4, <3>4 DEF PollShaped, PollFields
    <3> QED BY <2>2, <3>1, <3>2, <3>3, <3>4
  <2>6. i \in Nat /\ \A j \in poll.good : j \in Nat /\ j < i
    BY DEF PollCounted
  <2> HIDE DEF i
  <2>7. poll'.next \in Nat /\ \A j \in poll'.good : j \in Nat /\ j < poll'.next
    <3>1. CASE poll'.next = i /\ poll'.good = poll.good
      BY <2>6, <3>1
    <3>2. CASE poll'.next = i + 1 /\ poll'.good = poll.good
      BY <2>6, <3>2
    <3>3. CASE poll'.next = i + 1 /\ poll'.good = poll.good \cup {i}
      BY <2>6, <3>3
    <3> QED BY <2>5, <3>1, <3>2, <3>3
  <2> QED BY <2>7 DEF PollCounted
<1>3. CASE EndPoll \/ Sleep \/ Wait
  <2>1. \/ poll' = poll
        \/ \E pc, events : poll' = [poll EXCEPT !.pc = pc, !.events = events]
        \/ \E pc : poll' = [poll EXCEPT !.pc = pc]
    BY <1>3, Zenon DEF EndPoll, Sleep, Wait
  <2>2. poll'.next = poll.next /\ poll'.good = poll.good
    BY <2>1 DEF PollShaped, PollFields
  <2> QED BY <2>2 DEF PollCounted
<1>4. CASE UNCHANGED poll
  BY <1>4 DEF PollCounted
<1>5. CASE CheckAddress \/ CheckArgument \/ Take \/ Give \/ SystemCall \/ ReportResult
           \/ InsertDescriptor \/ UnlessUnsupported \/ Throw \/ Randomness
  <2>1. UNCHANGED poll
    BY <1>5, Zenon DEF CheckAddress, CheckArgument, Take, Give, SystemCall, ReportResult,
         InsertDescriptor, UnlessUnsupported, Throw, Randomness, Locals
  <2> QED BY <1>4, <2>1
<1>6. CASE GetReference \/ ReleaseReference \/ StartPath \/ PathFound \/ PathRefused \/ PutPath
           \/ StepPath \/ Interfere \/ OpenDirectory \/ SeekDirectory \/ ReadEntry \/ EndListing
  <2>1. UNCHANGED poll
    BY <1>6, Zenon DEF GetReference, ReleaseReference, StartPath, PathFound, PathRefused, PutPath,
         StepPath, Interfere, callVars, OpenDirectory, SeekDirectory, ReadEntry, EndListing, ListOnly
  <2> QED BY <1>4, <2>1
<1> QED BY <1>1, <1>2, <1>3, <1>5, <1>6 DEF CallStep

(* The directory and the listing stay in order.                            *)
LEMMA ListStays ==
  ASSUME ListInv, NEW A, NEW Post, NEW Err, NEW b, Standing(A, Post, Err, b), CallStep
  PROVE  ListInv'
<1>1. CASE OpenDirectory
  <2>1. list' = list /\ (dir' = dir \/ dir' = [open |-> TRUE, offset |-> 0, pos |-> 0])
    BY <1>1, Zenon DEF OpenDirectory
  <2>2. CASE dir' = dir
    BY <2>1, <2>2 DEF ListInv
  <2>3. CASE dir' = [open |-> TRUE, offset |-> 0, pos |-> 0]
    <3>1. dir' = [x \in {"open", "offset", "pos"} |-> dir'[x]] /\ dir'.pos \in Nat /\ dir'.offset = dir'.pos
      BY <2>3
    <3> QED BY <2>1, <3>1 DEF ListInv
  <2> QED BY <2>1, <2>2, <2>3
<1>2. CASE SeekDirectory
  BY <1>2, SeekLists
<1>3. CASE ReadEntry
  <2>1. At("readdir")
    BY <1>3, Zenon DEF ReadEntry
  <2>2. Placed
    BY <2>1, ListingIs
  <2> QED BY <1>3, <2>2, ReadLists
<1>4. CASE UNCHANGED <<dir, list>>
  BY <1>4 DEF ListInv
<1>5. CASE CheckAddress \/ CheckArgument \/ Take \/ Give \/ SystemCall \/ ReportResult
           \/ InsertDescriptor \/ UnlessUnsupported \/ Throw \/ Randomness
  <2>1. UNCHANGED <<dir, list>>
    BY <1>5, Zenon DEF CheckAddress, CheckArgument, Take, Give, SystemCall, ReportResult,
         InsertDescriptor, UnlessUnsupported, Throw, Randomness, Locals
  <2> QED BY <1>4, <2>1
<1>6. CASE GetReference \/ ReleaseReference \/ StartPath \/ PathFound \/ PathRefused \/ PutPath
           \/ StepPath \/ Interfere \/ StartPoll \/ Subscribe \/ EndPoll \/ Sleep \/ Wait \/ EndListing
  <2>1. CASE GetReference \/ ReleaseReference \/ StartPath \/ PathFound \/ PathRefused \/ PutPath
             \/ StepPath \/ Interfere
    BY <1>4, <2>1, Zenon DEF GetReference, ReleaseReference, StartPath, PathFound, PathRefused, PutPath,
         StepPath, Interfere, callVars
  <2>2. CASE StartPoll \/ Subscribe \/ EndPoll \/ Sleep \/ Wait \/ EndListing
    <3>1. list' = list
      BY <2>2, Zenon DEF StartPoll, Subscribe, EndPoll, Sleep, Wait, EndListing, PollOnly
    <3>2. dir' = dir
      BY <2>2, Zenon DEF StartPoll, Subscribe, EndPoll, Sleep, Wait, EndListing, PollOnly
    <3> QED BY <1>4, <3>1, <3>2
  <2> QED BY <1>6, <2>1, <2>2
<1> QED BY <1>1, <1>2, <1>3, <1>5, <1>6 DEF CallStep

(* Every step of a call follows the outline.                               *)
LEMMA EveryStepGoesOn ==
  ASSUME NEW A, NEW Post, NEW Err, NEW b, Underway(A, Post, Err, b), PollCounted(poll), ListInv, CallStep
  PROVE  Onward(A, Post, Err)'
<1>1. CASE CheckAddress
  BY <1>1, CheckAddressGoesOn
<1>2. CASE CheckArgument
  BY <1>2, CheckArgumentGoesOn
<1>3. CASE Take
  BY <1>3, TakeGoesOn
<1>4. CASE Give
  BY <1>4, GiveGoesOn
<1>5. CASE GetReference \/ ReleaseReference
  BY <1>5, ReferenceGoesOn
<1>6. CASE SystemCall
  BY <1>6, SystemCallGoesOn
<1>7. CASE ReportResult
  BY <1>7, ReportGoesOn
<1>8. CASE InsertDescriptor
  BY <1>8, InsertGoesOn
<1>9. CASE UnlessUnsupported
  BY <1>9, UnsupportedGoesOn
<1>10. CASE Throw \/ Randomness
  BY <1>10, SilentGoesOn
<1>11. CASE StartPath
  BY <1>11, StartPathGoesOn
<1>12. CASE StepPath
  BY <1>12, StepPathGoesOn
<1>13. CASE PathFound
  BY <1>13, PathFoundGoesOn
<1>14. CASE PathRefused
  BY <1>14, PathRefusedGoesOn
<1>15. CASE PutPath
  BY <1>15, PutPathGoesOn
<1>16. CASE StartPoll
  BY <1>16, StartPollGoesOn
<1>17. CASE Subscribe
  BY <1>17, SubscribeGoesOn
<1>18. CASE EndPoll
  BY <1>18, EndPollGoesOn
<1>19. CASE Sleep
  BY <1>19, SleepGoesOn
<1>20. CASE Wait
  BY <1>20, WaitGoesOn
<1>21. CASE Interfere
  BY <1>21, InterfereGoesOn
<1>22. CASE OpenDirectory
  BY <1>22, OpenDirectoryGoesOn
<1>23. CASE SeekDirectory
  BY <1>23, SeekDirectoryGoesOn
<1>24. CASE ReadEntry
  BY <1>24, ReadEntryGoesOn
<1>25. CASE EndListing
  BY <1>25, EndListingGoesOn
<1>26. \/ CheckAddress \/ CheckArgument \/ Take \/ Give
       \/ (GetReference \/ ReleaseReference) \/ SystemCall \/ ReportResult
       \/ InsertDescriptor \/ UnlessUnsupported \/ (Throw \/ Randomness)
       \/ StartPath \/ StepPath \/ PathFound \/ PathRefused \/ PutPath
       \/ StartPoll \/ Subscribe \/ EndPoll \/ Sleep \/ Wait \/ Interfere
       \/ OpenDirectory \/ SeekDirectory \/ ReadEntry \/ EndListing
  BY Zenon DEF CallStep
<1> QED BY Zenon, <1>1, <1>2, <1>3, <1>4, <1>5, <1>6, <1>7, <1>8, <1>9, <1>10, <1>11, <1>12, <1>13, <1>14,
           <1>15, <1>16, <1>17, <1>18, <1>19, <1>20, <1>21, <1>22, <1>23, <1>24, <1>25, <1>26

(* The counter of a cleanup is a number.                                   *)
LEMMA BackIs ==
  ASSUME NEW A, NEW Post, NEW Err, NEW b, Standing(A, Post, Err, b)
  PROVE  back \in Nat
<1>1. Stands(Prog, A, Err, at, back, lk.pc, poll.pc, Now(b))
  BY DEF Standing
<1> DEFINE p == Prog
           l == lk.pc
           q == poll.pc
           c == Now(b)
<1> HIDE DEF p, l, q, c
<1>2. CASE Cleaned(p, Err, at, back, l, q, c.has)
  BY <1>2 DEF Cleaned
<1>3. CASE back = 0
  BY <1>3
<1> QED BY <1>1, <1>2, <1>3 DEF p, l, q, c, Stands, Ahead, Polling, Looking

(* What sets the exception, and where the cleanup begins.                  *)
LEMMA ExceptionSet ==
  ASSUME CallStep
  PROVE  /\ (exception' = exception \/ At("throw") \/ back' = 1)
         /\ (back' = back \/ back' = back + 1 \/ back' = 1)
<1>1. Move => (back' = back \/ back' = back + 1)
  BY DEF Move
<1>2. Error => back' = 1
  BY DEF Error
<1>3. CASE CheckAddress \/ CheckArgument \/ Take \/ Give \/ GetReference \/ ReleaseReference
  BY <1>1, <1>2, <1>3, Zenon DEF CheckAddress, CheckArgument, Take, Give, GetReference, ReleaseReference
<1>4. CASE SystemCall \/ ReportResult \/ InsertDescriptor
  BY <1>1, <1>2, <1>4, Zenon DEF SystemCall, ReportResult, InsertDescriptor
<1>5. CASE UnlessUnsupported \/ Throw \/ Randomness
  BY <1>1, <1>2, <1>5, Zenon DEF UnlessUnsupported, Throw, Randomness
<1>6. CASE StartPath \/ PathFound \/ PathRefused \/ PutPath
  BY <1>1, <1>2, <1>6, Zenon DEF StartPath, PathFound, PathRefused, PutPath
<1>7. CASE StepPath \/ Interfere
  BY <1>7, Zenon DEF StepPath, Interfere, callVars
<1>8. CASE StartPoll \/ Subscribe \/ EndPoll \/ Sleep \/ Wait
  BY <1>1, <1>2, <1>8, Zenon DEF StartPoll, Subscribe, EndPoll, Sleep, Wait, PollOnly
<1>9. CASE OpenDirectory \/ SeekDirectory \/ ReadEntry \/ EndListing
  BY <1>1, <1>2, <1>9, Zenon DEF OpenDirectory, SeekDirectory, ReadEntry, EndListing, ListOnly
<1> QED BY <1>3, <1>4, <1>5, <1>6, <1>7, <1>8, <1>9 DEF CallStep

(* What changes the result of a system call.                               *)
LEMMA ResultSet ==
  ASSUME CallStep
  PROVE  \/ UNCHANGED <<ret, failed, list>>
         \/ At("host") \/ At("refused") \/ At("ignored")
         \/ Wait \/ SeekDirectory \/ ReadEntry \/ EndListing
<1>1. CASE CheckAddress \/ CheckArgument \/ Take \/ Give \/ GetReference \/ ReleaseReference
  BY <1>1, Zenon DEF CheckAddress, CheckArgument, Take, Give, GetReference, ReleaseReference, Locals, result
<1>2. CASE SystemCall
  BY <1>2, Zenon DEF SystemCall, Locals, result
<1>3. CASE ReportResult \/ InsertDescriptor \/ UnlessUnsupported \/ Throw \/ Randomness
  BY <1>3, Zenon DEF ReportResult, InsertDescriptor, UnlessUnsupported, Throw, Randomness, Locals, result
<1>4. CASE StartPath \/ PathFound \/ PathRefused \/ PutPath
  BY <1>4, Zenon DEF StartPath, PathFound, PathRefused, PutPath, result
<1>5. CASE StepPath \/ Interfere
  BY <1>5, Zenon DEF StepPath, Interfere, callVars
<1>6. CASE StartPoll \/ Subscribe \/ EndPoll \/ Sleep
  <2>1. UNCHANGED <<ret, failed>>
    BY <1>6, Zenon DEF StartPoll, Subscribe, EndPoll, Sleep, result
  <2>2. list' = list
    BY <1>6, Zenon DEF StartPoll, Subscribe, EndPoll, Sleep, PollOnly
  <2> QED BY <2>1, <2>2
<1>7. CASE OpenDirectory
  BY <1>7, Zenon DEF OpenDirectory, result
<1> QED BY <1>1, <1>2, <1>3, <1>4, <1>5, <1>6, <1>7 DEF CallStep

(* Only some calls ask the host, throw or poll.                            *)
LEMMA StepAsked ==
  ASSUME NEW A, NEW Post, NEW Err, NEW b, Standing(A, Post, Err, b),
         NEW op, op \in {"host", "refused", "ignored", "throw"}, At(op)
  PROVE  /\ back = 0
         /\ IF op = "throw" THEN call.name \in {"proc_exit", "proc_raise"} ELSE call.name \notin Silent
<1> DEFINE s == Current
           c == Now(b)
<1>0. op # "poll" /\ op # "path_get" /\ op \notin Cleaning
  BY DEF Cleaning
<1>1. back = 0 /\ s.op = op /\ Allowed(call.name, s, c)
  BY <1>0, AtStep
<1> HIDE DEF s, c
<1>2. CASE op = "throw"
  BY <1>1, <1>2 DEF Allowed
<1>3. CASE op = "host"
  BY <1>1, <1>3 DEF Allowed
<1>4. CASE op \in {"refused", "ignored"}
  BY <1>1, <1>4 DEF Allowed
<1> QED BY <1>1, <1>2, <1>3, <1>4

(* Only poll_oneoff waits.                                                 *)
LEMMA WaitIs ==
  ASSUME NEW A, NEW Post, NEW Err, NEW b, Standing(A, Post, Err, b), poll.pc = "wait"
  PROVE  call.name = "poll_oneoff"
<1> DEFINE p == Prog
           c == Now(b)
           name == call.name
<1>1. /\ at \in 1 .. Len(p) /\ p[at].op = "poll" /\ Outlined(name, p, A, Post, Err) /\ c \in A[at]
  BY PollingIs DEF Polls
<1> HIDE DEF p, c, name
<1>2. Allowed(name, p[at], c)
  BY <1>1, OutlineStep DEF Outlined
<1>3. name = "poll_oneoff"
  BY <1>1, <1>2 DEF Allowed
<1> QED BY <1>3 DEF name

(* The steps of a call keep what is noted of its failures.                 *)
LEMMA NotedStays ==
  ASSUME Noted, ListInv, NEW A, NEW Post, NEW Err, NEW b, Standing(A, Post, Err, b),
         CallStep, call # NoCall, call' = call
  PROVE  Noted'
<1>1. ASSUME exception', back' = 0 PROVE call'.name \in {"proc_exit", "proc_raise"}
  <2>1. back \in Nat
    BY BackIs
  <2>2. (exception' = exception \/ At("throw")) /\ (back' = back \/ back' = back + 1)
    <3>1. back' # 1
      BY <1>1
    <3> QED BY <3>1, Zenon, ExceptionSet
  <2>3. back = 0
    BY <1>1, <2>1, <2>2
  <2>4. CASE At("throw")
    BY <2>4, StepAsked
  <2>5. CASE exception' = exception
    BY <1>1, <2>3, <2>5 DEF Noted
  <2> QED BY <2>2, <2>4, <2>5
<1>2. ASSUME call.name = "fd_readdir", failed', ret' = "ok" PROVE list'.entries # <<>>
  <2>1. CASE UNCHANGED <<ret, failed, list>>
    BY <1>2, <2>1 DEF Noted
  <2>2. CASE At("host") \/ At("refused") \/ At("ignored")
    <3>1. call.name \notin Silent
      BY <2>2, StepAsked
    <3> QED BY <1>2, <3>1 DEF Silent
  <2>3. CASE Wait
    <3>1. poll.pc = "wait"
      BY <2>3, Zenon DEF Wait
    <3> QED BY <1>2, <3>1, WaitIs
  <2>4. CASE SeekDirectory
    <3>1. At("seekdir") /\ failed' = failed
      BY <2>4, Zenon DEF SeekDirectory, result
    <3> QED BY <1>2, <3>1, ListingIs
  <2>5. CASE ReadEntry
    <3>1. At("readdir")
      BY <2>5, Zenon DEF ReadEntry
    <3>2. Placed
      BY <3>1, ListingIs
    <3> QED BY <2>5, <3>2, ReadLists
  <2>6. CASE EndListing
    <3>1. /\ At("readdir") /\ list' = list
          /\ failed' = failed \/ ret' = (IF list.used > 0 THEN "ok" ELSE "failed")
      BY <2>6, Zenon DEF EndListing
    <3>2. ~failed
      BY <3>1, ListingIs
    <3>3. list.used > 0
      BY <1>2, <3>1, <3>2
    <3>4. list.entries # <<>>
      BY <3>3, ListParts
    <3> QED BY <3>1, <3>4
  <2> QED BY <2>1, <2>2, <2>3, <2>4, <2>5, <2>6, ResultSet
<1>3. call' # NoCall
  OBVIOUS
<1> QED BY <1>1, <1>2, <1>3 DEF Noted

(* Every step keeps both.                                                  *)
LEMMA CallNext == CallInv /\ Noted /\ [Next]_vars => CallInv' /\ Noted'
<1> SUFFICES ASSUME CallInv, Noted, [Next]_vars PROVE CallInv' /\ Noted'
  OBVIOUS
<1>0. WalkInv'
  BY WalkNext DEF CallInv
<1>1. CASE Begin
  BY <1>1, BeginKeeps
<1>2. CASE Return
  BY <1>2, ReturnKeeps
<1>3. CASE CallStep
  <2>1. call # NoCall /\ call' = call
    BY <1>3, CallRuns
  <2>2. PICK A, Post, Err : \E b \in BOOLEAN : Standing(A, Post, Err, b)
    BY <2>1 DEF CallInv, Onward
  <2>3. PICK b \in BOOLEAN : Standing(A, Post, Err, b)
    BY <2>2
  <2>4. WalkInv /\ granted = [s \in Slots |-> granted[s]] /\ PollCounted(poll) /\ ListInv /\ PollShaped(poll)
    BY DEF CallInv, WalkInv
  <2>5. Underway(A, Post, Err, b)
    BY <1>0, <2>3, <2>4 DEF Underway
  <2>6. Onward(A, Post, Err)'
    BY <1>3, <2>4, <2>5, EveryStepGoesOn
  <2>7. (granted = [s \in Slots |-> granted[s]])' /\ PollCounted(poll)'
    BY <1>3, <2>4, RightsStay, CountStays
  <2>8. ListInv' /\ Noted'
    BY <1>3, <2>1, <2>3, <2>4, ListStays, NotedStays
  <2>9. (\E B, Post2, Err2 : Onward(B, Post2, Err2))'
    BY <2>6
  <2>10. (call = NoCall => Fresh)'
    BY <2>1
  <2> QED BY <1>0, <2>7, <2>8, <2>9, <2>10 DEF CallInv
<1>4. CASE UNCHANGED vars
  <2>1. /\ UNCHANGED <<fs, changes, lk, held>>
        /\ UNCHANGED <<status, exception, call, at, back, ret, failed, pa, granted, poll, dir, list>>
    BY <1>4, Zenon DEF vars, lookupVars, callVars
  <2>2. Noted'
    BY <2>1 DEF Noted
  <2>3. \A A, Post, Err : Onward(A, Post, Err)' <=> Onward(A, Post, Err)
    BY <2>1 DEF Onward, Standing, Now, Has, Prog, Placed
  <2>4. (granted = [s \in Slots |-> granted[s]])' /\ PollCounted(poll)' /\ ListInv' /\ (call = NoCall => Fresh)'
    BY <2>1 DEF CallInv, PollCounted, ListInv, Fresh
  <2>5. call' # NoCall => (\E A, Post, Err : Onward(A, Post, Err))'
    BY <2>1, <2>3 DEF CallInv
  <2> QED BY <1>0, <2>2, <2>4, <2>5 DEF CallInv
<1> QED BY <1>1, <1>2, <1>3, <1>4, CallSorts

(* They always hold.                                                       *)
LEMMA CallAlways == Spec => [](CallInv /\ Noted)
BY CallInit, CallNext, PTL DEF Spec

----------------------------------------------------------------------------
(* What every call promises                                                *)

(* A call that runs is at a place of an outline.                           *)
LEMMA CallStanding ==
  ASSUME CallInv, Running
  PROVE  /\ WalkInv /\ ListInv
         /\ \E A, Post, Err : \E b \in BOOLEAN : Standing(A, Post, Err, b)
BY DEF CallInv, Onward, Running

(* Nothing is held but the leases when the call needs nothing.             *)
LEMMA HeldAtTheEnd ==
  ASSUME WalkInv, lk.pc = "idle", poll.pc \in Resting, Has.need = Nothing
  PROVE  \A k \in Kinds : held[k] = Cardinality(LeasesOf(k))
<1> DEFINE o == Owed(pa, lk, poll)
           a == Leases(pa)
<1>1. held \in Counts /\ o \in Counts
  BY OwedCounts
<1>2. a \in Counts /\ \A k \in Kinds : o[k] = a[k] + Looked(lk)[k] + Polled(poll)[k]
  <2>1. Walking(lk) /\ IsFiniteSet(poll.good) /\ pa = [s \in Slots |-> pa[s]]
    BY DEF WalkInv
  <2>2. a \in Counts
    BY <2>1, OwedIs
  <2> QED BY <2>2 DEF Owed
<1>3. \A k \in Kinds : Looked(lk)[k] = 0 /\ Polled(poll)[k] = 0
  BY DEF Looked, Polled, Busy, Resting
<1>4. \A k \in Kinds : Need(held, o)[k] = 0
  BY HasParts DEF Nothing
<1>5. \A k \in Kinds : a[k] = Cardinality(LeasesOf(k))
  <2>1. \A k : LeasesIn(pa, k) = LeasesOf(k)
    BY DEF LeasesIn, LeasesOf, LeasedIn, Leased
  <2> QED BY <2>1 DEF Leases
<1>6. \A k \in Kinds : Need(held, o)[k] = held[k] - o[k]
  BY <1>1, NeedIs
<1> HIDE DEF o, a
<1>7. ASSUME NEW k, k \in Kinds PROVE held[k] = a[k]
  <2>1. held[k] \in Int /\ o[k] \in Int /\ a[k] \in Int
    BY <1>1, <1>2, <1>7, CountsAre
  <2>2. held[k] - o[k] = 0 /\ o[k] = a[k] + 0 + 0
    BY <1>2, <1>3, <1>4, <1>6, <1>7
  <2> QED BY <2>1, <2>2
<1> QED BY <1>5, <1>7

(* Whichever step of a call fails, what it got is given back, each thing   *)
(* once (libc_wasi_wrapper.c and posix.c); only path_link and path_symlink *)
(* keep leases, and only when they fail.                                   *)
THEOREM AlwaysOwned == Spec => []Owned
<1>1. CallInv => Owned
  <2> SUFFICES ASSUME CallInv, Finished PROVE Owned
    BY DEF Owned
  <2>1. Running
    BY DEF Finished
  <2>2. PICK A, Post, Err : \E b \in BOOLEAN : Standing(A, Post, Err, b)
    BY <2>1, CallStanding
  <2>3. PICK b \in BOOLEAN : Standing(A, Post, Err, b)
    BY <2>2
  <2>4. /\ lk.pc = "idle" /\ poll.pc \in Resting
        /\ back = 0 => Settled(call.name, Now(b))
        /\ back # 0 => back > 0 /\ Abandoned(call.name, Has)
    BY <2>3, AtTheEnd
  <2>5. /\ Has.need = Nothing
        /\ Has.leased # {} => call.name \in {"path_link", "path_symlink"} /\ back > 0
    BY <2>4, NowIs DEF Settled, Abandoned
  <2>6. \A k \in Kinds : held[k] = Cardinality(LeasesOf(k))
    BY <2>1, <2>4, <2>5, CallStanding, HeldAtTheEnd
  <2>7. Has.leased = Leased
    BY HasParts DEF LeasedIn, Leased
  <2> QED BY <2>5, <2>6, <2>7 DEF Owned
<1> QED BY <1>1, CallAlways, PTL

(* No failure of the host and no exception is hidden behind a success,     *)
(* but where the code means to (posix.c; wasm_runtime_invoke_native).      *)
THEOREM AlwaysErrorReported == Spec => []ErrorReported
<1>1. CallInv /\ Noted => ErrorReported
  <2> SUFFICES ASSUME CallInv, Noted, Finished, back = 0 PROVE ErrorReported
    BY DEF ErrorReported
  <2>1. Running
    BY DEF Finished
  <2>2. PICK A, Post, Err : \E b \in BOOLEAN : Standing(A, Post, Err, b)
    BY <2>1, CallStanding
  <2>3. PICK b \in BOOLEAN : Standing(A, Post, Err, b)
    BY <2>2
  <2>4. Settled(call.name, Now(b))
    BY <2>3, AtTheEnd
  <2>5. ret = "ok" /\ (failed => call.name \in {"sock_shutdown", "path_link", "fd_readdir"})
    BY <2>4, NowIs DEF Settled
  <2>6. exception => call.name \in {"proc_exit", "proc_raise"}
    BY <2>1 DEF Noted, Running
  <2>7. call.name = "fd_readdir" /\ failed => list.entries # <<>>
    BY <2>5 DEF Noted
  <2> QED BY <2>5, <2>6, <2>7 DEF ErrorReported
<1> QED BY <1>1, CallAlways, PTL

(* The entries that fd_readdir reports follow the cookie, one after the    *)
(* other, over any number of calls (posix.c).                              *)
THEOREM AlwaysListingInOrder == Spec => []ListingInOrder
<1>1. CallInv => ListingInOrder
  <2> SUFFICES ASSUME ListInv PROVE ListingInOrder
    BY DEF CallInv
  <2>1. DOMAIN list.entries = 1 .. Len(list.entries)
    BY ListParts
  <2>2. dir.offset = dir.pos /\ \A i \in 1 .. Len(list.entries) : list.entries[i] = list.cookie + i
    BY DEF ListInv
  <2> QED BY <2>1, <2>2 DEF ListingInOrder
<1> QED BY <1>1, CallAlways, PTL

(* The host acts on a descriptor only while its object is kept alive and   *)
(* by the rights that the call is named after (fd_object_get, path_get and *)
(* the locks of the table in posix.c).                                     *)
THEOREM AlwaysRightExercised == Spec => []RightExercised
<1>1. CallInv => RightExercised
  <2> SUFFICES ASSUME CallInv, At("host") PROVE RightExercised
    BY DEF RightExercised
  <2>1. Running
    BY DEF At
  <2>2. PICK A, Post, Err : \E b \in BOOLEAN : Standing(A, Post, Err, b)
    BY <2>1, CallStanding
  <2>3. PICK b \in BOOLEAN : Standing(A, Post, Err, b)
    BY <2>2
  <2>4. WalkInv
    BY DEF CallInv
  <2> DEFINE s == Current
             c == Now(b)
             name == call.name
             r == Has
  <2>5. s.op = "host" /\ Allowed(name, s, c) /\ lk.pc = "idle" /\ poll.pc \in Resting
    <3>1. "host" # "poll" /\ "host" # "path_get" /\ "host" \notin Cleaning
      BY DEF Cleaning
    <3> QED BY <2>3, <3>1, AtStep
  <2>6. c.has = r
    BY NowIs
  <2>7. Authorised(name, r)
    <3> HIDE DEF s, c, name, r
    <3> QED BY <2>5, <2>6 DEF Allowed
  <2>8. r.granted = granted /\ r.need = Need(held, Owed(pa, lk, poll)) /\ r.leased = LeasedIn(pa)
    BY HasParts
  <2>9. \A k \in {"references", "locks"} :
          /\ held[k] \in Int /\ Need(held, Owed(pa, lk, poll))[k] \in Int
          /\ held[k] = r.need[k] + Leases(pa)[k] /\ Leases(pa)[k] \in Nat
    <3> DEFINE o == Owed(pa, lk, poll)
               a == Leases(pa)
    <3>1. held \in Counts /\ o \in Counts
      BY <2>4, OwedCounts
    <3>2. a \in Counts /\ \A k \in Kinds : o[k] = a[k] + Looked(lk)[k] + Polled(poll)[k]
      <4>1. Walking(lk) /\ IsFiniteSet(poll.good) /\ pa = [x \in Slots |-> pa[x]]
        BY <2>4 DEF WalkInv
      <4>2. a \in Counts
        BY <4>1, OwedIs
      <4> QED BY <4>2 DEF Owed
    <3>3. \A k \in Kinds : Looked(lk)[k] = 0 /\ Polled(poll)[k] = 0
      BY <2>5 DEF Looked, Polled, Busy, Resting
    <3>4. \A k \in Kinds : Need(held, o)[k] = held[k] - o[k]
      BY <3>1, NeedIs
    <3>5. \A k \in Kinds : a[k] \in Nat
      BY LeasesFinite DEF Leases
    <3>6. r.need = Need(held, o)
      BY <2>8
    <3>7. "references" \in Kinds /\ "locks" \in Kinds
      BY KindsAre
    <3> HIDE DEF o, a, r
    <3>8. ASSUME NEW k, k \in {"references", "locks"}
          PROVE  /\ held[k] \in Int /\ Need(held, o)[k] \in Int
                 /\ held[k] = r.need[k] + a[k] /\ a[k] \in Nat
      <4>0. k \in Kinds
        BY <3>7, <3>8
      <4>1. held[k] \in Int /\ o[k] \in Int /\ a[k] \in Nat
        BY <3>1, <3>5, <4>0, CountsAre
      <4>2. r.need[k] = held[k] - o[k] /\ o[k] = a[k] + 0 + 0
        BY <3>2, <3>3, <3>4, <3>6, <4>0
      <4>3. Need(held, o)[k] = r.need[k]
        BY <3>6
      <4> QED BY <4>1, <4>2, <4>3
    <3> QED BY <3>8 DEF o, a
  <2>10. LeasedIn(pa) # {} => Leases(pa)["references"] > 0
    <3> DEFINE P == LeasesIn(pa, "references")
    <3>1. P = LeasedIn(pa) /\ IsFiniteSet(P) /\ Leases(pa)["references"] = Cardinality(P)
      BY KindsAre, LeasesFinite DEF LeasesIn, Leases
    <3> HIDE DEF P
    <3>2. P # {} => Cardinality(P) # 0 /\ Cardinality(P) \in Nat
      BY <3>1, FS_EmptySet, FS_CardinalityType
    <3>3. P # {} => Cardinality(P) > 0
      BY <3>2
    <3> QED BY <3>1, <3>3
  <2>11. /\ RightsOf(name) \subseteq UNION {granted[x] : x \in Slots}
         /\ \/ r.need["references"] > 0 \/ r.need["locks"] > 0
            \/ r.need["references"] >= 0 /\ LeasedIn(pa) # {}
            \/ name \in WithoutDescriptor
    <3> HIDE DEF name, r
    <3> QED BY <2>7, <2>8 DEF Authorised
  <2>12. /\ r.need["references"] \in Int /\ r.need["locks"] \in Int
    BY <2>8, <2>9
  <2> HIDE DEF r, s, c
  <2>13. held["references"] > 0 \/ held["locks"] > 0 \/ name \in WithoutDescriptor
    BY <2>9, <2>10, <2>11, <2>12
  <2> QED BY <2>11, <2>13 DEF RightExercised
<1> QED BY <1>1, CallAlways, PTL

----------------------------------------------------------------------------
(* What remains of a path                                                  *)

(* The components that the strings of paths[] still hold, in their order.  *)
Strings(p) == FlattenSeq(Reverse(p))

(* Sequences one after the other.                                          *)
LEMMA Joining ==
  ASSUME NEW S, NEW p \in Seq(S), NEW q \in Seq(S), NEW r \in Seq(S)
  PROVE  /\ p \o q \in Seq(S) /\ (p \o q) \o r = p \o (q \o r)
         /\ <<>> \o p = p /\ p \o <<>> = p /\ (p \o q = <<>> <=> p = <<>> /\ q = <<>>)
OBVIOUS

(* Three one after the other.                                              *)
LEMMA JoinedThrice ==
  ASSUME NEW S, NEW p, NEW q, NEW r, p \in Seq(S), q \in Seq(S), r \in Seq(S)
  PROVE  (p \o q) \o r = p \o (q \o r)
BY Joining

(* The last becomes the first.                                             *)
LEMMA ReverseAppend ==
  ASSUME NEW S, NEW s \in Seq(S), NEW x \in S
  PROVE  Reverse(s) \in Seq(S) /\ Reverse(Append(s, x)) = <<x>> \o Reverse(s)
<1> DEFINE n == Len(s)
           t == Append(s, x)
           r == Reverse(s)
           q == Reverse(t)
           c == <<x>> \o r
<1>1. n \in Nat /\ Len(t) = n + 1 /\ t[n + 1] = x /\ \A i \in 1 .. n : t[i] = s[i] /\ s[i] \in S
  OBVIOUS
<1>2. r = [i \in 1 .. n |-> s[(n - i) + 1]]
  BY DEF Reverse
<1>3. q = [i \in 1 .. n + 1 |-> t[(n + 1 - i) + 1]]
  BY <1>1 DEF Reverse
<1> HIDE DEF n, t, r, q
<1>4. \A i \in 1 .. n : (n - i) + 1 \in 1 .. n
  BY <1>1
<1>5. r \in [1 .. n -> S]
  BY <1>1, <1>2, <1>4
<1>6. r \in Seq(S) /\ Len(r) = n
  <2>1. r \in Seq(S)
    BY <1>1, <1>5
  <2> QED BY <1>1, <1>5, <2>1
<1>7. <<x>> \in Seq(S) /\ Len(<<x>>) = 1 /\ <<x>>[1] = x
  OBVIOUS
<1>8. /\ c \in Seq(S) /\ Len(c) = 1 + n /\ c[1] = x
      /\ \A i \in 1 .. n : c[1 + i] = r[i]
  BY <1>1, <1>6, <1>7
<1> HIDE DEF c
<1>9. ASSUME NEW i \in 1 .. n + 1 PROVE q[i] = c[i]
  <2>1. CASE i = 1
    BY <1>1, <1>3, <1>8, <2>1
  <2>2. CASE i # 1
    <3> DEFINE j == i - 1
    <3>1. j \in 1 .. n /\ i = 1 + j /\ (n + 1 - i) + 1 = (n - j) + 1
      BY <1>1, <1>9, <2>2
    <3> HIDE DEF j
    <3>2. q[i] = t[(n - j) + 1] /\ c[i] = s[(n - j) + 1]
      BY <1>2, <1>3, <1>8, <1>9, <3>1
    <3> QED BY <1>1, <1>4, <3>1, <3>2
  <2> QED BY <2>1, <2>2
<1>10. q = c
  <2>1. q = [i \in 1 .. n + 1 |-> q[i]]
    BY <1>3
  <2>2. c = [i \in 1 .. n + 1 |-> c[i]]
    BY <1>1, <1>8
  <2> QED BY <1>9, <2>1, <2>2
<1> QED BY <1>6, <1>10 DEF r, q, c, t

(* The strings in reverse.                                                 *)
LEMMA ReverseType ==
  ASSUME NEW S, NEW s \in Seq(S)
  PROVE  Reverse(s) \in Seq(S)
<1> DEFINE n == Len(s)
           r == Reverse(s)
<1>1. n \in Nat /\ \A i \in 1 .. n : s[i] \in S
  OBVIOUS
<1>2. r = [i \in 1 .. n |-> s[(n - i) + 1]]
  BY DEF Reverse
<1> HIDE DEF n, r
<1>3. \A i \in 1 .. n : (n - i) + 1 \in 1 .. n
  BY <1>1
<1>4. r \in [1 .. n -> S]
  BY <1>1, <1>2, <1>3
<1> QED BY <1>1, <1>4 DEF r

(* A sequence before others.                                               *)
LEMMA FlattenBefore ==
  ASSUME NEW S, NEW s \in Seq(S), NEW ss \in Seq(Seq(S))
  PROVE  FlattenSeq(<<s>> \o ss) = s \o FlattenSeq(ss)
<1> DEFINE T == Seq(S)
           P == {z \in Seq(T) : FlattenSeq(<<s>> \o z) = s \o FlattenSeq(z)}
<1>1. <<>> \in P
  <2>1. <<s>> \o <<>> = Append(<<>>, s) /\ <<>> \in Seq(Seq(S))
    OBVIOUS
  <2>2. FlattenSeq(Append(<<>>, s)) = FlattenSeq(<<>>) \o s
    BY <2>1, FlattenAppend
  <2>3. FlattenSeq(<<>>) = <<>> /\ <<>> \o s = s /\ s \o <<>> = s
    BY FlattenEmpty
  <2>4. FlattenSeq(<<s>> \o <<>>) = s \o FlattenSeq(<<>>) /\ <<>> \in Seq(T)
    BY <2>1, <2>2, <2>3
  <2> HIDE DEF T
  <2> QED BY <2>4
<1>2. ASSUME NEW q \in Seq(T), NEW x \in T, q \in P PROVE Append(q, x) \in P
  <2> DEFINE r == <<s>> \o q
  <2>1. r \in Seq(T) /\ <<s>> \o Append(q, x) = Append(r, x) /\ Append(q, x) \in Seq(T)
    OBVIOUS
  <2>2. FlattenSeq(Append(r, x)) = FlattenSeq(r) \o x
    BY <2>1, FlattenAppend
  <2>3. FlattenSeq(Append(q, x)) = FlattenSeq(q) \o x
    BY FlattenAppend
  <2>4. FlattenSeq(r) = s \o FlattenSeq(q)
    BY <1>2
  <2>5. FlattenSeq(q) \in Seq(S) /\ x \in Seq(S)
    BY FlattenType
  <2>6. (s \o FlattenSeq(q)) \o x = s \o (FlattenSeq(q) \o x)
    <3> DEFINE f == FlattenSeq(q)
    <3>1. f \in Seq(S) /\ x \in Seq(S) /\ s \in Seq(S)
      BY <2>5
    <3> HIDE DEF f, T
    <3>2. (s \o f) \o x = s \o (f \o x)
      BY ONLY <3>1, JoinedThrice
    <3> QED BY <3>2 DEF f
  <2>7. FlattenSeq(<<s>> \o Append(q, x)) = s \o FlattenSeq(Append(q, x)) /\ Append(q, x) \in Seq(T)
    BY <2>1, <2>2, <2>3, <2>4, <2>6
  <2> HIDE DEF T, r
  <2> QED BY <2>7
<1>3. ss \in Seq(T)
  OBVIOUS
<1> HIDE DEF P, T
<1>4. Seq(T) \subseteq P
  BY <1>1, <1>2, SequenceInduction
<1> QED BY <1>3, <1>4 DEF P

(* A string on top of others.                                              *)
LEMMA StringsAppend ==
  ASSUME NEW S, NEW p \in Seq(Seq(S)), NEW s \in Seq(S)
  PROVE  Strings(p) \in Seq(S) /\ Strings(Append(p, s)) = s \o Strings(p)
<1> DEFINE T == Seq(S)
<1>1. p \in Seq(T) /\ s \in T
  OBVIOUS
<1> HIDE DEF T
<1>2. Reverse(p) \in Seq(T) /\ Reverse(Append(p, s)) = <<s>> \o Reverse(p)
  BY <1>1, ReverseAppend, ReverseType
<1>3. Reverse(p) \in Seq(Seq(S))
  BY <1>2 DEF T
<1>4. FlattenSeq(Reverse(p)) \in Seq(S)
  BY <1>3, FlattenType
<1>5. FlattenSeq(<<s>> \o Reverse(p)) = s \o FlattenSeq(Reverse(p))
  BY <1>3, FlattenBefore
<1> QED BY <1>2, <1>4, <1>5 DEF Strings

(* No string, and one.                                                     *)
LEMMA StringsNone == Strings(<<>>) = <<>>
<1>1. Reverse(<<>>) = <<>>
  BY DEF Reverse
<1> QED BY <1>1, FlattenEmpty DEF Strings

(* The top and what is below it.                                           *)
LEMMA StringsTop ==
  ASSUME NEW S, NEW p \in Seq(Seq(S)), p # <<>>
  PROVE  /\ Strings(p) = p[Len(p)] \o Strings(Butlast(p))
         /\ p[Len(p)] \in Seq(S) /\ Strings(Butlast(p)) \in Seq(S) /\ Butlast(p) \in Seq(Seq(S))
<1> DEFINE b == Butlast(p)
           x == p[Len(p)]
<1>1. b \in Seq(Seq(S)) /\ Len(b) = Len(p) - 1 /\ x \in Seq(S) /\ Len(p) \in Nat \ {0}
  BY ButlastIs, Parts
<1>2. p = Append(b, x)
  <2>1. b = SubSeq(p, 1, Len(p) - 1)
    BY DEF Butlast
  <2> DEFINE n == Len(p)
             q == Append(b, x)
  <2>2. n \in Nat \ {0} /\ Len(b) = n - 1 /\ DOMAIN p = 1 .. n
    BY <1>1
  <2>3. \A i \in 1 .. n - 1 : b[i] = p[i]
    BY <2>1, <2>2
  <2>4. Len(q) = n /\ q[n] = x /\ (\A i \in 1 .. n - 1 : q[i] = b[i]) /\ DOMAIN q = 1 .. n
    <3> HIDE DEF b, x
    <3> QED BY <1>1, <2>2
  <2>5. q \in Seq(Seq(S))
    <3> HIDE DEF b, x
    <3> QED BY <1>1
  <2>6. x = p[n]
    OBVIOUS
  <2> HIDE DEF b, x, q
  <2>7. \A i \in 1 .. n : p[i] = q[i]
    <3> TAKE i \in 1 .. n
    <3>1. i = n \/ i \in 1 .. n - 1
      BY <2>2
    <3> QED BY <2>3, <2>4, <2>6, <3>1
  <2> HIDE DEF n
  <2>8. Len(p) = n
    BY DEF n
  <2> QED BY <2>4, <2>5, <2>7, <2>8, SeqEqual DEF q
<1> HIDE DEF b, x
<1>3. Strings(Append(b, x)) = x \o Strings(b) /\ Strings(b) \in Seq(S)
  BY <1>1, StringsAppend
<1> QED BY <1>1, <1>2, <1>3 DEF b, x

(* Strings that are not finished.                                          *)
Unfinished(p) == \A i \in 1 .. Len(p) - 1 : p[i] # <<>>

(* Nothing remains when the only string is finished.                       *)
LEMMA NothingRemains ==
  ASSUME NEW S, NEW p \in Seq(Seq(S)), Len(p) >= 1, Unfinished(p)
  PROVE  Strings(p) = <<>> <=> Len(p) = 1 /\ p[Len(p)] = <<>>
<1> DEFINE n == Len(p)
           b == Butlast(p)
           x == p[n]
<1>1. n \in Nat \ {0} /\ p # <<>>
  OBVIOUS
<1>2. Strings(p) = x \o Strings(b) /\ x \in Seq(S) /\ Strings(b) \in Seq(S) /\ b \in Seq(Seq(S))
  BY <1>1, StringsTop
<1>3. Len(b) = n - 1
  BY <1>1, ButlastIs
<1>4. CASE n = 1
  <2>1. b = <<>>
    <3> HIDE DEF b, n
    <3> QED BY <1>2, <1>3, <1>4, EmptySeq
  <2>2. Strings(b) = <<>>
    BY <2>1, StringsNone
  <2>3. x \o <<>> = x
    BY <1>2
  <2> QED BY <1>2, <1>4, <2>2, <2>3
<1>5. CASE n # 1
  <2> DEFINE y == b[n - 1]
             c == Butlast(b)
  <2>0. n - 1 \in 1 .. n - 1 /\ n - 1 # 0
    <3> HIDE DEF n
    <3> QED BY <1>1, <1>5
  <2>1. b # <<>>
    <3> HIDE DEF b, n
    <3> QED BY <1>3, <2>0
  <2>2. Strings(b) = y \o Strings(c) /\ y \in Seq(S) /\ Strings(c) \in Seq(S)
    <3> HIDE DEF b
    <3>1. Strings(b) = b[Len(b)] \o Strings(c) /\ b[Len(b)] \in Seq(S) /\ Strings(c) \in Seq(S)
      BY <1>2, <2>1, StringsTop
    <3> QED BY <1>3, <3>1
  <2>3. y = p[n - 1]
    BY <1>1, <2>0 DEF Butlast
  <2>4. y # <<>>
    BY <2>0, <2>3 DEF Unfinished
  <2> HIDE DEF y, c, b, x
  <2>5. Strings(b) # <<>>
    BY <2>2, <2>4, Joining
  <2>6. Strings(p) # <<>>
    BY <1>2, <2>5, Joining
  <2> QED BY <1>5, <2>6
<1> QED BY <1>4, <1>5

----------------------------------------------------------------------------
(* The walk of PathResolution                                              *)

StateOf(l) ==
  IF l.pc = "idle" THEN "idle" ELSE IF l.pc = "success" THEN "found"
  ELSE IF l.pc = "fail" THEN "failed" ELSE "walking"

RestOf(l) ==
  IF l.pc = "readlink" THEN <<l.file>> \o Strings(l.paths) ELSE
  IF l.pc = "loop" THEN Strings(l.paths) ELSE <<>>

NameOf(l) == IF l.pc = "success" THEN l.file ELSE Dot

RequestOf(l) == [follow |-> l.follow, needsFinal |-> l.needsFinal]

(* What the walk is mapped to.                                             *)
LEMMA MappedTo ==
  /\ State = StateOf(lk) /\ Rest = RestOf(lk)
  /\ State' = StateOf(lk') /\ Rest' = RestOf(lk')
BY DEF State, StateOf, Rest, RestOf, Strings

(* While path_get walks: strings that wait are not finished, and a name is *)
(* read as a link because something follows it or on demand.               *)
Resolving(l) ==
  /\ l.pc = "loop" => l.file = Dot
  /\ l.pc \in {"loop", "readlink"} => Unfinished(l.paths)
  /\ l.pc = "readlink" => \/ Len(l.paths) > 1 \/ l.paths[Len(l.paths)] # <<>>
                          \/ l.file.slash \/ l.follow

(* One dot and the other.                                                  *)
LEMMA Dots == Resolution!Dot = Dot
BY DEF Resolution!Dot, Dot

(* What the walk sees.                                                     *)
LEMMA Views ==
  /\ Resolution!Here = CurrentDir
  /\ Resolution!Component = Head(RestOf(lk))
  /\ Resolution!Node = fs[CurrentDir][Head(RestOf(lk)).name]
<1>1. Resolution!Here = CurrentDir
  BY DEF Resolution!Here, CurrentDir
<1>2. Resolution!Component = Head(RestOf(lk))
  BY MappedTo DEF Resolution!Component
<1> QED BY <1>1, <1>2 DEF Resolution!Node

(* The walk fails.                                                         *)
LEMMA FailResolves ==
  ASSUME lk.pc \in {"loop", "readlink"}, fs' = fs, lk'.pc = "fail", lk'.fds = lk.fds,
         RequestOf(lk') = RequestOf(lk)
  PROVE  Resolution!Fail /\ Resolving(lk')
<1>1. StateOf(lk) = "walking" /\ StateOf(lk') = "failed" /\ RestOf(lk') = <<>>
  BY DEF StateOf, RestOf
<1>2. NameOf(lk) = Dot /\ NameOf(lk') = Dot
  BY DEF NameOf
<1>3. Resolution!Fail
  BY <1>1, <1>2, MappedTo DEF Resolution!Fail, NameOf, RequestOf
<1>4. Resolving(lk')
  BY DEF Resolving
<1> QED BY <1>3, <1>4

(* Nothing happens to the walk.                                            *)
LEMMA StutterResolves ==
  ASSUME fs' = fs, StateOf(lk') = StateOf(lk), lk'.fds = lk.fds,
         RequestOf(lk') = RequestOf(lk), RestOf(lk') = RestOf(lk), NameOf(lk') = NameOf(lk)
  PROVE  UNCHANGED Resolution!resolutionVars
BY MappedTo DEF Resolution!resolutionVars, NameOf, RequestOf

(* The end of a turn is where the walk goes on.                            *)
LEMMA TurnGoesOn ==
  ASSUME NEW m, NEW h, lk.pc = "loop", fs' = fs, EndOfTurn(m, h),
         Shaped(m), m.pc = "loop", m.file = Dot, RequestOf(m) = RequestOf(lk),
         m.paths \in Seq(Seq(Components)), Len(m.paths) >= 1, Unfinished(m.paths)
  PROVE  Resolution!GoOn(m.fds, Strings(m.paths)) /\ Resolving(lk')
<1> DEFINE p == m.paths
           n == Len(p)
           b == Butlast(p)
<1>0. n \in Nat \ {0} /\ p # <<>>
  OBVIOUS
<1>1. StateOf(lk) = "walking" /\ NameOf(lk) = Dot
  BY DEF StateOf, NameOf
<1>2. Strings(p) = <<>> <=> n = 1 /\ p[n] = <<>>
  BY NothingRemains
<1>3. CASE p[n] # <<>>
  <2>1. lk' = m
    BY <1>3, Zenon DEF EndOfTurn
  <2>2. StateOf(lk') = "walking" /\ NameOf(lk') = Dot /\ RestOf(lk') = Strings(p)
    BY <2>1 DEF StateOf, NameOf, RestOf
  <2>3. Strings(p) # <<>>
    BY <1>2, <1>3
  <2>4. Resolution!GoOn(m.fds, Strings(p))
    BY <1>1, <2>1, <2>2, <2>3, MappedTo DEF Resolution!GoOn, NameOf, RequestOf
  <2>5. Resolving(lk')
    BY <2>1 DEF Resolving
  <2> QED BY <2>4, <2>5
<1>4. CASE p[n] = <<>> /\ n = 1
  <2>1. lk' = [m EXCEPT !.pc = "success", !.paths = <<>>]
    BY <1>4, Zenon DEF EndOfTurn
  <2>2. /\ lk'.pc = "success" /\ lk'.file = Dot /\ lk'.fds = m.fds
        /\ lk'.follow = m.follow /\ lk'.needsFinal = m.needsFinal
    BY <2>1 DEF Shaped, Fields
  <2>3. StateOf(lk') = "found" /\ NameOf(lk') = Dot /\ RestOf(lk') = <<>>
    BY <2>2 DEF StateOf, NameOf, RestOf
  <2>4. Strings(p) = <<>>
    BY <1>2, <1>4
  <2>5. Resolution!GoOn(m.fds, Strings(p))
    BY <1>1, <2>2, <2>3, <2>4, MappedTo, Dots DEF Resolution!GoOn, NameOf, RequestOf
  <2>6. Resolving(lk')
    BY <2>2 DEF Resolving
  <2> QED BY <2>5, <2>6
<1>5. CASE p[n] = <<>> /\ n # 1
  <2>1. lk' = [m EXCEPT !.paths = b]
    BY <1>5, Zenon DEF EndOfTurn
  <2>2. /\ lk'.pc = "loop" /\ lk'.file = Dot /\ lk'.fds = m.fds /\ lk'.paths = b
        /\ lk'.follow = m.follow /\ lk'.needsFinal = m.needsFinal
    BY <2>1 DEF Shaped, Fields
  <2>3. /\ Strings(p) = p[n] \o Strings(b) /\ Strings(b) \in Seq(Components)
        /\ b \in Seq(Seq(Components)) /\ Len(b) = n - 1
    BY <1>0, StringsTop, ButlastIs
  <2>4. Strings(b) = Strings(p)
    <3> DEFINE s == Strings(b)
    <3>1. s \in Seq(Components) /\ Strings(p) = <<>> \o s
      BY <1>5, <2>3
    <3> HIDE DEF s, p
    <3> QED BY <3>1 DEF s
  <2>5. Strings(p) # <<>>
    BY <1>2, <1>5
  <2>6. StateOf(lk') = "walking" /\ NameOf(lk') = Dot /\ RestOf(lk') = Strings(p)
    BY <2>2, <2>4 DEF StateOf, NameOf, RestOf
  <2>7. Resolution!GoOn(m.fds, Strings(p))
    BY <1>1, <2>2, <2>5, <2>6, MappedTo DEF Resolution!GoOn, NameOf, RequestOf
  <2>8. Unfinished(b)
    <3>1. \A i \in 1 .. n - 1 : p[i] # <<>>
      BY DEF Unfinished
    <3>2. \A i \in 1 .. n - 1 : b[i] = p[i]
      BY <1>0 DEF Butlast
    <3> HIDE DEF b, n
    <3>3. \A i \in 1 .. Len(b) - 1 : i \in 1 .. n - 1
      BY <1>0, <2>3
    <3> QED BY <3>1, <3>2, <3>3 DEF Unfinished
  <2>9. Resolving(lk')
    BY <2>2, <2>8 DEF Resolving
  <2> QED BY <2>7, <2>9
<1> QED BY <1>3, <1>4, <1>5

(* The component that is read is the next of the walk.                     *)
LEMMA NextComponent ==
  ASSUME NEW t, Walking(lk), Resolving(lk), Looping, t = Taken
  PROVE  /\ lk.pc = "loop" /\ RestOf(lk) = Strings(lk.paths) /\ RestOf(lk) # <<>>
         /\ Head(RestOf(lk)) = File /\ Tail(RestOf(lk)) = Strings(t) /\ File \in Components
         /\ Resolution!Walking /\ Resolution!Component = File
         /\ t \in Seq(Seq(Components)) /\ Len(t) >= 1 /\ Unfinished(t)
         /\ Len(t) = Len(lk.paths) /\ t[Len(t)] = Tail(Top)
<1> DEFINE p == lk.paths
           n == Len(p)
           b == Butlast(p)
           x == Top
<1>1. /\ lk.pc = "loop" /\ x # <<>>
      /\ t \in Seq(Seq(Components)) /\ Len(t) = n /\ Len(t) >= 1 /\ File \in Components
  BY TurnBegins
<1>2. p \in Seq(Seq(Components)) /\ p # <<>> /\ n \in Nat \ {0}
  BY <1>1, WalkIs
<1>3. /\ Strings(p) = x \o Strings(b) /\ x \in Seq(Components) /\ Strings(b) \in Seq(Components)
      /\ b \in Seq(Seq(Components)) /\ Len(b) = n - 1
  BY <1>2, StringsTop, ButlastIs DEF Top
<1>4. t = Append(b, Tail(x))
  BY DEF Taken
<1>5. Strings(t) = Tail(x) \o Strings(b)
  <2>1. Tail(x) \in Seq(Components)
    BY <1>1, <1>3
  <2> HIDE DEF b, x
  <2> QED BY <1>3, <1>4, <2>1, StringsAppend
<1>6. RestOf(lk) = Strings(p)
  BY <1>1 DEF RestOf
<1>7. RestOf(lk) # <<>> /\ Head(RestOf(lk)) = Head(x) /\ Tail(RestOf(lk)) = Tail(x) \o Strings(b)
  <2> DEFINE s == Strings(b)
             r == x \o s
  <2>1. x \in Seq(Components) /\ s \in Seq(Components) /\ x # <<>>
    BY <1>1, <1>3
  <2> HIDE DEF x, s
  <2>2. r # <<>> /\ Head(r) = Head(x) /\ Tail(r) = Tail(x) \o s
    BY <2>1
  <2>3. RestOf(lk) = r
    BY <1>3, <1>6 DEF s
  <2> QED BY <2>2, <2>3 DEF s
<1>8. Unfinished(t)
  <2>1. \A i \in 1 .. n - 1 : p[i] # <<>>
    BY <1>1 DEF Resolving, Unfinished
  <2>2. \A i \in 1 .. n - 1 : b[i] = p[i]
    BY <1>2 DEF Butlast
  <2> DEFINE y == Tail(x)
  <2>3. y \in Seq(Components)
    BY <1>1, <1>3
  <2> HIDE DEF b, n, x, y
  <2>4. \A i \in 1 .. n - 1 : t[i] = b[i]
    BY <1>2, <1>3, <1>4, <2>3 DEF y
  <2> QED BY <1>1, <2>1, <2>2, <2>4 DEF Unfinished
<1>9. File = Head(x)
  BY DEF File
<1>10. Resolution!Component = File
  BY <1>7, <1>9, Views
<1>11. Resolution!Walking
  <2>1. StateOf(lk) = "walking"
    BY <1>1 DEF StateOf
  <2> QED BY <1>7, <2>1, MappedTo DEF Resolution!Walking
<1>12. t[Len(t)] = Tail(x)
  BY <1>1, TopRead
<1> QED BY <1>1, <1>5, <1>6, <1>7, <1>8, <1>9, <1>10, <1>11, <1>12 DEF x

(* A sequence is its first before the others.                              *)
LEMMA HeadBefore ==
  ASSUME NEW S, NEW s, s \in Seq(S), s # <<>>
  PROVE  s = <<Head(s)>> \o Tail(s)
<1> DEFINE n == Len(s)
           h == Head(s)
           t == Tail(s)
           q == <<h>> \o t
<1>1. n \in Nat \ {0} /\ t \in Seq(S) /\ Len(t) = n - 1 /\ h \in S /\ s[1] = h
      /\ \A i \in 1 .. n - 1 : t[i] = s[i + 1]
  OBVIOUS
<1>2. <<h>> \in Seq(S) /\ Len(<<h>>) = 1 /\ <<h>>[1] = h
  BY <1>1
<1> HIDE DEF n, h, t
<1>3. /\ q \in Seq(S) /\ Len(q) = n /\ q[1] = h
      /\ \A i \in 1 .. n - 1 : q[1 + i] = t[i]
  BY <1>1, <1>2
<1> HIDE DEF q
<1>4. \A i \in 1 .. n : q[i] = s[i]
  <2> TAKE i \in 1 .. n
  <2>1. CASE i = 1
    BY <1>1, <1>3, <2>1
  <2>2. CASE i # 1
    <3> DEFINE j == i - 1
    <3>1. j \in 1 .. n - 1 /\ i = 1 + j /\ i = j + 1
      BY <1>1, <2>2
    <3> HIDE DEF j
    <3>2. q[1 + j] = t[j] /\ t[j] = s[j + 1]
      BY <1>1, <1>3, <3>1
    <3> QED BY <3>1, <3>2
  <2> QED BY <2>1, <2>2
<1> QED BY <1>1, <1>3, <1>4, SeqEqual DEF q, h, t, n

(* With the component before it, what remains is what remained.            *)
LEMMA AgainWhole ==
  ASSUME Walking(lk), Resolving(lk), Looping
  PROVE  <<File>> \o Strings(Taken) = RestOf(lk) /\ RestOf(lk) \in Seq(Components)
<1> DEFINE s == RestOf(lk)
<1>1. /\ lk.pc = "loop" /\ s = Strings(lk.paths) /\ s # <<>> /\ Head(s) = File
      /\ Tail(s) = Strings(Taken)
  BY NextComponent
<1>2. lk.paths \in Seq(Seq(Components)) /\ lk.paths # <<>>
  BY <1>1, WalkIs
<1>3. s \in Seq(Components)
  <2> DEFINE x == lk.paths[Len(lk.paths)]
             r == Strings(Butlast(lk.paths))
  <2>1. s = x \o r /\ x \in Seq(Components) /\ r \in Seq(Components)
    BY <1>1, <1>2, StringsTop
  <2> HIDE DEF x, r, s
  <2> QED BY <2>1, Joining
<1> HIDE DEF s
<1>4. s = <<Head(s)>> \o Tail(s)
  BY <1>1, <1>3, HeadBefore
<1> QED BY <1>1, <1>3, <1>4 DEF s

(* More of a sequence than its first.                                      *)
LEMMA LongerThanOne ==
  ASSUME NEW S, NEW s, s \in Seq(S), s # <<>>
  PROVE  Len(s) > 1 <=> Tail(s) # <<>>
<1> DEFINE n == Len(s)
           t == Tail(s)
<1>1. n \in Nat \ {0} /\ t \in Seq(S) /\ Len(t) = n - 1
  OBVIOUS
<1> HIDE DEF n, t
<1>2. Len(t) \in Nat /\ (t # <<>> <=> Len(t) >= 1)
  BY <1>1, NotNil
<1>3. n > 1 <=> n - 1 >= 1
  BY <1>1
<1> QED BY <1>1, <1>2, <1>3 DEF n, t

(* The component must be a directory when the walk only passes through it. *)
LEMMA InnerIsPassed ==
  ASSUME Walking(lk), Resolving(lk), Looping
  PROVE  Inner <=> Resolution!Passed
<1> DEFINE t == Taken
           s == RestOf(lk)
<1>1. /\ lk.pc = "loop" /\ s = Strings(lk.paths) /\ s # <<>> /\ Tail(s) = Strings(t)
      /\ Resolution!Component = File
      /\ t \in Seq(Seq(Components)) /\ Len(t) >= 1 /\ Unfinished(t)
      /\ Len(t) = Len(lk.paths) /\ t[Len(t)] = Tail(Top)
  BY NextComponent
<1>2. Len(lk.paths) \in Nat /\ lk.paths \in Seq(Seq(Components))
  BY <1>1, WalkIs
<1>3. s \in Seq(Components)
  <2>1. lk.paths # <<>>
    BY <1>1, WalkIs
  <2> DEFINE x == lk.paths[Len(lk.paths)]
             r == Strings(Butlast(lk.paths))
  <2>2. s = x \o r /\ x \in Seq(Components) /\ r \in Seq(Components)
    BY <1>1, <1>2, <2>1, StringsTop
  <2> HIDE DEF x, r, s
  <2> QED BY <2>2, Joining
<1> HIDE DEF s, t
<1>4. Len(s) > 1 <=> Tail(s) # <<>>
  BY <1>1, <1>3, LongerThanOne
<1>5. Strings(t) = <<>> <=> Len(t) = 1 /\ t[Len(t)] = <<>>
  BY <1>1, NothingRemains
<1>6. Len(lk.paths) > 1 <=> Len(t) # 1
  <2> DEFINE n == Len(lk.paths)
  <2>1. n \in Nat /\ n >= 1 /\ Len(t) = n
    BY <1>1, <1>2
  <2> HIDE DEF n
  <2>2. n > 1 <=> n # 1
    BY <2>1
  <2> QED BY <2>1, <2>2 DEF n
<1>7. Len(s) > 1 <=> Len(lk.paths) > 1 \/ Tail(Top) # <<>>
  BY <1>1, <1>4, <1>5, <1>6
<1>8. Resolution!Passed <=> Len(s) > 1 \/ (File.slash /\ ~lk.needsFinal)
  BY <1>1, MappedTo DEF Resolution!Passed, s
<1> QED BY <1>7, <1>8 DEF Inner

(* An empty path, and an absolute one.                                     *)
LEMMA UnresolvableResolves ==
  ASSUME Walking(lk), Unresolvable
  PROVE  Resolution!Fail /\ Resolving(lk')
<1>1. lk.pc = "loop" /\ lk' = [lk EXCEPT !.pc = "fail"] /\ fs' = fs
  BY Zenon DEF Unresolvable, Failed, Otherwise
<1>2. Shaped(lk)
  BY DEF Walking
<1>3. lk'.pc = "fail" /\ lk'.fds = lk.fds /\ RequestOf(lk') = RequestOf(lk)
  BY <1>1, <1>2 DEF Shaped, Fields, RequestOf
<1> QED BY <1>1, <1>3, FailResolves

(* ".".                                                                    *)
LEMMA SkipResolves ==
  ASSUME Walking(lk), Resolving(lk), Skip
  PROVE  Resolution!Stay /\ Resolving(lk')
<1> DEFINE t == Taken
           m == [lk EXCEPT !.paths = t, !.file = Dot]
<1>1. Looping /\ File.name = "." /\ EndOfTurn(m, held) /\ fs' = fs
  BY Zenon DEF Skip, Otherwise
<1>2. /\ lk.pc = "loop" /\ Tail(RestOf(lk)) = Strings(t)
      /\ Resolution!Walking /\ Resolution!Component = File
      /\ t \in Seq(Seq(Components)) /\ Len(t) >= 1 /\ Unfinished(t)
  BY <1>1, NextComponent
<1>3. Shaped(lk)
  BY DEF Walking
<1> HIDE DEF t
<1>4. /\ m.pc = "loop" /\ m.paths = t /\ m.fds = lk.fds /\ m.file = Dot /\ Shaped(m)
      /\ RequestOf(m) = RequestOf(lk)
  BY <1>2, <1>3 DEF Shaped, Fields, RequestOf
<1> HIDE DEF m
<1>5. Resolution!GoOn(m.fds, Strings(m.paths)) /\ Resolving(lk')
  BY <1>1, <1>2, <1>4, TurnGoesOn
<1>6. Resolution!GoOn(lk.fds, Tail(Rest))
  BY <1>2, <1>4, <1>5, MappedTo
<1> QED BY <1>1, <1>2, <1>5, <1>6 DEF Resolution!Stay

(* "..".                                                                   *)
LEMMA ParentResolves ==
  ASSUME Walking(lk), Resolving(lk), Parent
  PROVE  (Resolution!Ascend \/ Resolution!Fail) /\ Resolving(lk')
<1> DEFINE t == Taken
           d == Butlast(lk.fds)
           l == [lk EXCEPT !.paths = t]
           m == [lk EXCEPT !.paths = t, !.fds = d]
           h == Minus(held, "dirs", 1)
<1>1. /\ Looping /\ File.name = ".." /\ fs' = fs
      /\ \/ lk' = [l EXCEPT !.pc = "fail"]
         \/ Len(lk.fds) # 1 /\ EndOfTurn(m, h)
  BY Zenon DEF Parent, Otherwise, Failed, Popped
<1>2. /\ lk.pc = "loop" /\ Tail(RestOf(lk)) = Strings(t)
      /\ Resolution!Walking /\ Resolution!Component = File
      /\ t \in Seq(Seq(Components)) /\ Len(t) >= 1 /\ Unfinished(t)
  BY <1>1, NextComponent
<1>3. Shaped(lk) /\ lk.file = Dot /\ Len(lk.fds) \in Nat \ {0}
  BY <1>2, WalkIs DEF Resolving
<1>7. d = SubSeq(lk.fds, 1, Len(lk.fds) - 1)
  BY DEF Butlast
<1> HIDE DEF t, d
<1>4. CASE lk' = [l EXCEPT !.pc = "fail"]
  <2>1. l.pc = "loop" /\ l.fds = lk.fds /\ Shaped(l) /\ RequestOf(l) = RequestOf(lk)
    BY <1>2, <1>3 DEF Shaped, Fields, RequestOf
  <2> HIDE DEF l
  <2>2. lk'.pc = "fail" /\ lk'.fds = lk.fds /\ RequestOf(lk') = RequestOf(lk)
    BY <1>4, <2>1 DEF Shaped, Fields, RequestOf
  <2> QED BY <1>1, <1>2, <2>2, FailResolves
<1>5. CASE Len(lk.fds) # 1 /\ EndOfTurn(m, h)
  <2>1. /\ m.pc = "loop" /\ m.paths = t /\ m.fds = d /\ m.file = Dot /\ Shaped(m)
        /\ RequestOf(m) = RequestOf(lk)
    BY <1>2, <1>3 DEF Shaped, Fields, RequestOf
  <2> HIDE DEF m
  <2>2. Resolution!GoOn(m.fds, Strings(m.paths)) /\ Resolving(lk')
    BY <1>1, <1>2, <1>5, <2>1, TurnGoesOn
  <2>3. Resolution!GoOn(SubSeq(lk.fds, 1, Len(lk.fds) - 1), Tail(Rest))
    BY <1>2, <1>7, <2>1, <2>2, MappedTo
  <2>4. Len(lk.fds) > 1
    <3> DEFINE n == Len(lk.fds)
    <3>1. n \in Nat \ {0} /\ n # 1
      BY <1>3, <1>5
    <3> HIDE DEF n
    <3>2. n > 1
      BY <3>1
    <3> QED BY <3>2 DEF n
  <2> QED BY <1>1, <1>2, <2>2, <2>3, <2>4 DEF Resolution!Ascend
<1> QED BY <1>1, <1>4, <1>5

(* A directory is entered, or a name is to be read as a link.              *)
LEMMA EnterDirectoryResolves ==
  ASSUME Walking(lk), Resolving(lk), EnterDirectory
  PROVE  (Resolution!Enter \/ Resolution!Fail \/ UNCHANGED Resolution!resolutionVars) /\ Resolving(lk')
<1> DEFINE t == Taken
           entry == Entry(File.name)
           l == [lk EXCEPT !.paths = t]
           h == Plus(held, "dirs", 1)
           d == Append(l.fds, entry.id)
           m == [l EXCEPT !.fds = d]
           r == [l EXCEPT !.pc = "readlink", !.file = File]
<1>1. /\ NamedFile /\ Inner /\ fs' = fs
      /\ \/ lk' = [l EXCEPT !.pc = "fail"]
         \/ entry.kind = "directory" /\ EndOfTurn(m, h)
         \/ lk' = r
  BY Zenon DEF EnterDirectory, Otherwise, Failed
<1>2. Looping /\ File.name \notin {"", ".", ".."}
  BY <1>1, Zenon DEF NamedFile
<1>3. /\ lk.pc = "loop" /\ Head(RestOf(lk)) = File /\ Tail(RestOf(lk)) = Strings(t)
      /\ RestOf(lk) = Strings(lk.paths) /\ RestOf(lk) # <<>>
      /\ Resolution!Walking /\ Resolution!Component = File
      /\ t \in Seq(Seq(Components)) /\ Len(t) >= 1 /\ Unfinished(t)
      /\ Len(t) = Len(lk.paths) /\ t[Len(t)] = Tail(Top)
  BY <1>2, NextComponent
<1>4. Shaped(lk) /\ lk.file = Dot
  BY <1>3, WalkIs DEF Resolving
<1>5. Resolution!Passed /\ Resolution!Named /\ Resolution!Node = entry
  <2>1. Resolution!Passed
    BY <1>1, <1>2, InnerIsPassed
  <2>2. Resolution!Named
    BY <1>2, <1>3, Zenon DEF Resolution!Named
  <2>3. Resolution!Node = entry
    BY <1>3, Views DEF Entry
  <2> QED BY <2>1, <2>2, <2>3
<1>10. <<File>> \o Strings(t) = RestOf(lk)
  BY <1>2, AgainWhole
<1> HIDE DEF t, entry
<1>6. /\ l.pc = "loop" /\ l.paths = t /\ l.fds = lk.fds /\ l.file = Dot /\ Shaped(l)
      /\ RequestOf(l) = RequestOf(lk)
  BY <1>3, <1>4 DEF Shaped, Fields, RequestOf
<1> HIDE DEF l
<1>7. CASE lk' = [l EXCEPT !.pc = "fail"]
  <2>1. lk'.pc = "fail" /\ lk'.fds = lk.fds /\ RequestOf(lk') = RequestOf(lk)
    BY <1>6, <1>7 DEF Shaped, Fields, RequestOf
  <2> QED BY <1>1, <1>3, <2>1, FailResolves
<1>8. CASE entry.kind = "directory" /\ EndOfTurn(m, h)
  <2>0. d = Append(lk.fds, entry.id)
    BY <1>6
  <2> HIDE DEF d
  <2>1. /\ m.pc = "loop" /\ m.paths = t /\ m.fds = d /\ m.file = Dot /\ Shaped(m)
        /\ RequestOf(m) = RequestOf(lk)
    BY <1>6 DEF Shaped, Fields, RequestOf
  <2> HIDE DEF m
  <2>2. Resolution!GoOn(m.fds, Strings(m.paths)) /\ Resolving(lk')
    BY <1>1, <1>3, <1>8, <2>1, TurnGoesOn
  <2>3. Resolution!GoOn(Append(lk.fds, Resolution!Node.id), Tail(Rest))
    BY <1>3, <1>5, <2>0, <2>1, <2>2, MappedTo
  <2> QED BY <1>5, <1>8, <2>2, <2>3 DEF Resolution!Enter
<1>9. CASE lk' = r
  <2>1. /\ lk'.pc = "readlink" /\ lk'.paths = t /\ lk'.fds = lk.fds /\ lk'.file = File
        /\ RequestOf(lk') = RequestOf(lk)
    BY <1>6, <1>9 DEF Shaped, Fields, RequestOf
  <2>2. RestOf(lk') = <<File>> \o Strings(t) /\ RestOf(lk') = RestOf(lk)
    BY <1>10, <2>1 DEF RestOf
  <2>3. StateOf(lk') = StateOf(lk) /\ NameOf(lk') = NameOf(lk)
    BY <1>3, <2>1 DEF StateOf, NameOf
  <2>4. UNCHANGED Resolution!resolutionVars
    BY <1>1, <2>1, <2>2, <2>3, StutterResolves
  <2>5. Len(t) > 1 \/ t[Len(t)] # <<>> \/ File.slash
    BY <1>1, <1>3 DEF Inner
  <2>6. Resolving(lk')
    BY <1>3, <2>1, <2>5 DEF Resolving
  <2> QED BY <2>4, <2>6
<1> QED BY <1>1, <1>7, <1>8, <1>9

(* The final component: the result, or a name to be read as a link.        *)
LEMMA FinalComponentResolves ==
  ASSUME Walking(lk), Resolving(lk), FinalComponent
  PROVE  (Resolution!Find \/ UNCHANGED Resolution!resolutionVars) /\ Resolving(lk')
<1> DEFINE t == Taken
           pc == IF File.slash \/ lk.follow THEN "readlink" ELSE "success"
           l == [lk EXCEPT !.paths = t, !.file = File]
           m == [l EXCEPT !.pc = pc]
<1>1. NamedFile /\ ~Inner /\ lk' = m /\ fs' = fs
  BY Zenon DEF FinalComponent, Otherwise
<1>2. Looping /\ File.name \notin {"", ".", ".."}
  BY <1>1, Zenon DEF NamedFile
<1>3. /\ lk.pc = "loop" /\ Resolution!Walking /\ Resolution!Component = File
      /\ t \in Seq(Seq(Components)) /\ Len(t) >= 1 /\ Unfinished(t)
  BY <1>2, NextComponent
<1>4. Shaped(lk)
  BY DEF Walking
<1>5. ~Resolution!Passed /\ Resolution!Named
  <2>1. ~Resolution!Passed
    BY <1>1, <1>2, InnerIsPassed
  <2>2. Resolution!Named
    BY <1>2, <1>3, Zenon DEF Resolution!Named
  <2> QED BY <2>1, <2>2
<1>6. <<File>> \o Strings(t) = RestOf(lk)
  BY <1>2, AgainWhole
<1>12. pc = IF File.slash \/ lk.follow THEN "readlink" ELSE "success"
  OBVIOUS
<1> HIDE DEF t, pc
<1>7. /\ l.paths = t /\ l.fds = lk.fds /\ l.file = File /\ Shaped(l)
      /\ RequestOf(l) = RequestOf(lk)
  BY <1>3, <1>4 DEF Shaped, Fields, RequestOf
<1> HIDE DEF l
<1>8. /\ lk'.pc = pc /\ lk'.paths = t /\ lk'.fds = lk.fds /\ lk'.file = File
      /\ RequestOf(lk') = RequestOf(lk)
  BY <1>1, <1>7 DEF Shaped, Fields, RequestOf
<1>9. StateOf(lk) = "walking" /\ NameOf(lk) = Dot
  BY <1>3 DEF StateOf, NameOf
<1>10. CASE File.slash \/ lk.follow
  <2>1. lk'.pc = "readlink"
    BY <1>8, <1>10, <1>12
  <2>2. StateOf(lk') = "walking" /\ NameOf(lk') = Dot /\ RestOf(lk') = RestOf(lk)
    BY <1>6, <1>8, <2>1 DEF StateOf, NameOf, RestOf
  <2>3. UNCHANGED Resolution!resolutionVars
    BY <1>1, <1>8, <1>9, <2>2, StutterResolves
  <2>4. lk'.follow = lk.follow
    BY <1>8 DEF RequestOf
  <2>5. Resolving(lk')
    BY <1>3, <1>8, <1>10, <2>1, <2>4 DEF Resolving
  <2> QED BY <2>3, <2>5
<1>11. CASE ~(File.slash \/ lk.follow)
  <2>1. lk'.pc = "success"
    BY <1>8, <1>11, <1>12
  <2>2. StateOf(lk') = "found" /\ NameOf(lk') = File /\ RestOf(lk') = <<>>
    BY <1>8, <2>1 DEF StateOf, NameOf, RestOf
  <2>3. ~Resolution!Followed
    BY <1>3, <1>5, <1>11 DEF Resolution!Followed
  <2>4. Resolution!Find
    BY <1>1, <1>3, <1>5, <1>8, <1>9, <2>2, <2>3, MappedTo DEF Resolution!Find, NameOf, RequestOf
  <2>5. Resolving(lk')
    BY <2>1 DEF Resolving
  <2> QED BY <2>4, <2>5
<1> QED BY <1>10, <1>11

(* One function and the other.                                             *)
LEMMA SlashedAlike ==
  ASSUME NEW target, NEW slash
  PROVE  Resolution!Slashed(target, slash) = Slashed(target, slash)
BY DEF Resolution!Slashed, Slashed

(* A sequence with one before it.                                          *)
LEMMA OneBefore ==
  ASSUME NEW S, NEW f, NEW s, f \in S, s \in Seq(S),
         NEW r, r = <<f>> \o s
  PROVE  r # <<>> /\ Head(r) = f /\ Tail(r) = s /\ r \in Seq(S)
<1> DEFINE q == <<f>>
           n == Len(s)
<1>1. q \in Seq(S) /\ Len(q) = 1 /\ q[1] = f
  OBVIOUS
<1>2. r = q \o s
  OBVIOUS
<1> HIDE DEF q
<1>3. n \in Nat
  OBVIOUS
<1> HIDE DEF n
<1>4. /\ r \in Seq(S)
      /\ Len(r) = Len(q) + Len(s)
      /\ \A i \in 1 .. Len(q) + Len(s) : r[i] = IF i <= Len(q) THEN q[i] ELSE s[i - Len(q)]
  BY <1>1, <1>2, ConcatProperties
<1>5. Len(r) = 1 + n /\ \A i \in 1 .. 1 + n : r[i] = IF i <= 1 THEN q[i] ELSE s[i - 1]
  BY <1>1, <1>4, Zenon DEF n
<1>6. n = Len(s)
  BY DEF n
<1>7. r[1] = f
  <2>1. 1 \in 1 .. 1 + n /\ 1 <= 1
    BY <1>3
  <2> QED BY <1>1, <1>5, <2>1
<1>8. r # <<>> /\ Head(r) = r[1]
  BY <1>3, <1>4, <1>5
<1> DEFINE t == Tail(r)
<1>9. t \in Seq(S) /\ Len(t) = n /\ \A i \in 1 .. n : t[i] = r[i + 1]
  BY <1>3, <1>4, <1>5, <1>8
<1> HIDE DEF t
<1>10. \A i \in 1 .. Len(t) : t[i] = s[i]
  <2> TAKE i \in 1 .. Len(t)
  <2>1. i \in 1 .. n /\ i + 1 \in 1 .. 1 + n /\ ~(i + 1 <= 1) /\ (i + 1) - 1 = i
    BY <1>3, <1>9
  <2>2. r[i + 1] = s[(i + 1) - 1]
    BY <1>5, <2>1, Zenon
  <2> QED BY <1>9, <2>1, <2>2
<1>11. t = s
  BY <1>6, <1>9, <1>10, SeqEqual
<1> QED BY <1>4, <1>7, <1>8, <1>11 DEF t

(* What a link that is read sees of the walk.                              *)
LEMMA LinkRead ==
  ASSUME Walking(lk), Resolving(lk), lk.pc = "readlink"
  PROVE  /\ Resolution!Walking /\ Resolution!Component = lk.file /\ Tail(Rest) = Strings(lk.paths)
         /\ Resolution!Named /\ (WasInner <=> Resolution!Passed) /\ Resolution!Followed
         /\ Resolution!Node = Entry(lk.file.name)
         /\ Strings(lk.paths) \in Seq(Components) /\ lk.file \in Components
         /\ StateOf(lk) = "walking" /\ NameOf(lk) = Dot
<1> DEFINE p == lk.paths
           s == Strings(p)
           r == <<lk.file>> \o s
<1>1. p \in Seq(Seq(Components)) /\ p # <<>> /\ lk.file \in Components
  BY WalkIs
<1>2. Named(lk.file.name) /\ Len(p) >= 1
  BY DEF Walking
<1>3. s \in Seq(Components)
  <2> DEFINE x == p[Len(p)]
             y == Strings(Butlast(p))
  <2>1. s = x \o y /\ x \in Seq(Components) /\ y \in Seq(Components)
    BY <1>1, StringsTop
  <2> HIDE DEF x, y, s
  <2> QED BY <2>1, Joining
<1>4. r # <<>> /\ Head(r) = lk.file /\ Tail(r) = s /\ (Len(r) > 1 <=> s # <<>>)
  <2> DEFINE f == lk.file
  <2>1. f \in Components
    BY <1>1
  <2>r. r = <<f>> \o s
    OBVIOUS
  <2> HIDE DEF f, s, r
  <2>2. r # <<>> /\ Head(r) = f /\ Tail(r) = s /\ r \in Seq(Components)
    BY <1>3, <2>1, <2>r, OneBefore
  <2>3. r \in Seq(Components)
    BY <2>2
  <2>4. Len(r) > 1 <=> s # <<>>
    BY <2>2, <2>3, LongerThanOne
  <2> QED BY <2>2, <2>4 DEF f
<1>5. RestOf(lk) = r
  BY DEF RestOf
<1>6. StateOf(lk) = "walking" /\ NameOf(lk) = Dot
  BY DEF StateOf, NameOf
<1>7. Resolution!Component = lk.file /\ Resolution!Node = Entry(lk.file.name)
  BY <1>4, <1>5, Views DEF Entry
<1>8. Resolution!Walking
  BY <1>4, <1>5, <1>6, MappedTo DEF Resolution!Walking
<1>9. Resolution!Named
  BY <1>2, <1>7, <1>8, Zenon DEF Resolution!Named, Named
<1>10. s = <<>> <=> Len(p) = 1 /\ p[Len(p)] = <<>>
  <2>1. Unfinished(p)
    BY DEF Resolving
  <2> QED BY <1>1, <1>2, <2>1, NothingRemains
<1>11. Len(p) > 1 <=> Len(p) # 1
  <2> DEFINE n == Len(p)
  <2>1. n \in Nat /\ n >= 1
    BY <1>1, <1>2
  <2> HIDE DEF n
  <2>2. n > 1 <=> n # 1
    BY <2>1
  <2> QED BY <2>2 DEF n
<1>12. WasInner <=> Len(p) > 1 \/ p[Len(p)] # <<>> \/ (lk.file.slash /\ ~lk.needsFinal)
  BY DEF WasInner, Top
<1>13. Resolution!Passed <=> Len(r) > 1 \/ (lk.file.slash /\ ~lk.needsFinal)
  BY <1>5, <1>7, MappedTo DEF Resolution!Passed
<1>14. WasInner <=> Resolution!Passed
  BY <1>4, <1>10, <1>11, <1>12, <1>13
<1>15. Resolution!Followed
  <2>1. Len(p) > 1 \/ p[Len(p)] # <<>> \/ lk.file.slash \/ lk.follow
    BY DEF Resolving
  <2>2. Resolution!Followed <=> Resolution!Passed \/ lk.file.slash \/ lk.follow
    BY <1>7 DEF Resolution!Followed
  <2> QED BY <1>12, <1>14, <2>1, <2>2
<1>16. Tail(Rest) = s
  BY <1>4, <1>5, MappedTo
<1> QED BY <1>1, <1>3, <1>6, <1>7, <1>8, <1>9, <1>14, <1>15, <1>16

(* A link is replaced by its target.                                       *)
LEMMA PushSymlinkResolves ==
  ASSUME Walking(lk), Resolving(lk), lk.pc = "readlink", fs' = fs, fs \in FileSystems,
         Entry(lk.file.name).kind = "link", PushSymlink(Entry(lk.file.name).target)
  PROVE  (Resolution!Expand \/ Resolution!Fail) /\ Resolving(lk')
<1> DEFINE target == Entry(lk.file.name).target
           c == Counted(lk.expansions)
           p == lk.paths
           n == Len(p)
           l == [lk EXCEPT !.expansions = c, !.pc = "loop", !.file = Dot]
           string == Slashed(target, lk.file.slash)
           b == Butlast(p)
           over == Append(b, string)
           more == Append(p, string)
<1>1. \/ lk' = [l EXCEPT !.pc = "fail"]
      \/ Top = <<>> /\ lk' = [l EXCEPT !.paths = over]
      \/ Top # <<>> /\ lk' = [l EXCEPT !.paths = more]
  BY Zenon DEF PushSymlink, Failed
<1>2. Shaped(lk) /\ p \in Seq(Seq(Components)) /\ p # <<>> /\ lk.file \in Components
  BY WalkIs
<1>3. /\ Resolution!Walking /\ Resolution!Component = lk.file /\ Tail(Rest) = Strings(p)
      /\ Resolution!Named /\ Resolution!Followed /\ Resolution!Node = Entry(lk.file.name)
      /\ StateOf(lk) = "walking" /\ NameOf(lk) = Dot
  BY LinkRead
<1>4. string \in Seq(Components)
  <2>1. lk.file.slash \in BOOLEAN
    BY <1>2 DEF Components
  <2>2. lk.file.name \in Names
    <3>1. Named(lk.file.name)
      BY DEF Walking
    <3> QED BY <1>2, <3>1, NamesAre
  <2>3. CurrentDir \in Below
    <3>1. lk.fds \in Seq(Below) /\ Len(lk.fds) \in Nat \ {0}
      BY WalkIs
    <3> QED BY <3>1 DEF CurrentDir
  <2>4. target \in Seq(Components)
    <3> HIDE DEF CurrentDir
    <3> QED BY <2>2, <2>3, EntryIs DEF Entry
  <2> HIDE DEF target
  <2> QED BY <2>1, <2>4, SlashedIs
<1>5. /\ b \in Seq(Seq(Components)) /\ n \in Nat \ {0} /\ Len(b) = n - 1
      /\ Strings(p) = p[n] \o Strings(b) /\ Strings(b) \in Seq(Components)
  BY <1>2, StringsTop, ButlastIs, Parts
<1>6. Unfinished(p) /\ Top = p[n]
  BY DEF Resolving, Top
<1>7. Resolution!Slashed(Resolution!Node.target, Resolution!Component.slash) = string
  BY <1>3, SlashedAlike
<1>20. \A i \in 1 .. n - 1 : b[i] = p[i]
  BY <1>2, <1>5 DEF Butlast
<1>21. \A i \in 1 .. n - 1 : p[i] # <<>>
  BY <1>6 DEF Unfinished
<1> HIDE DEF string, c, b
<1>8. /\ Strings(over) = string \o Strings(b) /\ Strings(more) = string \o Strings(p)
      /\ Len(over) = n /\ Len(more) = n + 1
      /\ \A i \in 1 .. n - 1 : over[i] = b[i]
      /\ \A i \in 1 .. n : more[i] = p[i]
  <2>1. Strings(over) = string \o Strings(b)
    BY <1>4, <1>5, StringsAppend
  <2>2. Strings(more) = string \o Strings(p)
    BY <1>2, <1>4, StringsAppend
  <2> DEFINE T == Seq(Components)
  <2>3. p \in Seq(T) /\ b \in Seq(T) /\ string \in T /\ n = Len(p) /\ n \in Nat \ {0} /\ Len(b) = n - 1
    BY <1>2, <1>4, <1>5
  <2> HIDE DEF p, T, n
  <2>4. Len(over) = n - 1 + 1 /\ Len(more) = n + 1
    BY <2>3
  <2>5. \A i \in 1 .. n - 1 : over[i] = b[i]
    BY <2>3
  <2>6. \A i \in 1 .. n : more[i] = p[i]
    BY <2>3
  <2>7. n - 1 + 1 = n
    BY <2>3
  <2> QED BY <2>1, <2>2, <2>4, <2>5, <2>6, <2>7
<1> HIDE DEF over, more
<1>9. /\ l.pc = "loop" /\ l.fds = lk.fds /\ l.file = Dot /\ Shaped(l) /\ l.paths = p
      /\ RequestOf(l) = RequestOf(lk)
  BY <1>2 DEF Shaped, Fields, RequestOf
<1> HIDE DEF l
<1>10. CASE lk' = [l EXCEPT !.pc = "fail"]
  <2>1. lk'.pc = "fail" /\ lk'.fds = lk.fds /\ RequestOf(lk') = RequestOf(lk)
    BY <1>9, <1>10 DEF Shaped, Fields, RequestOf
  <2>2. lk.pc \in {"loop", "readlink"}
    OBVIOUS
  <2> QED BY <2>1, <2>2, FailResolves
<1>11. ASSUME NEW q, lk' = [l EXCEPT !.paths = q], Strings(q) = string \o Strings(p), Unfinished(q)
       PROVE  Resolution!Expand /\ Resolving(lk')
  <2>1. /\ lk'.pc = "loop" /\ lk'.fds = lk.fds /\ lk'.file = Dot /\ lk'.paths = q
        /\ RequestOf(lk') = RequestOf(lk)
    BY <1>9, <1>11 DEF Shaped, Fields, RequestOf
  <2>2. StateOf(lk') = "walking" /\ NameOf(lk') = Dot /\ RestOf(lk') = string \o Strings(p)
    BY <1>11, <2>1 DEF StateOf, NameOf, RestOf
  <2>3. Rest' = Resolution!Slashed(Resolution!Node.target, Resolution!Component.slash) \o Tail(Rest)
    BY <1>3, <1>7, <2>2, MappedTo
  <2>4. Resolution!Node.kind = "link"
    BY <1>3
  <2>5. Resolution!Expand
    BY <1>3, <2>1, <2>2, <2>3, <2>4, MappedTo DEF Resolution!Expand, NameOf, RequestOf
  <2>6. Resolving(lk')
    BY <1>11, <2>1 DEF Resolving
  <2> QED BY <2>5, <2>6
<1>12. CASE Top = <<>> /\ lk' = [l EXCEPT !.paths = over]
  <2>1. Strings(b) = Strings(p)
    <3> DEFINE s == Strings(b)
    <3>1. s \in Seq(Components) /\ Strings(p) = <<>> \o s
      BY <1>5, <1>6, <1>12
    <3> HIDE DEF s, p
    <3> QED BY <3>1 DEF s
  <2>2. Unfinished(over)
    BY <1>8, <1>20, <1>21 DEF Unfinished
  <2> QED BY <1>8, <1>11, <1>12, <2>1, <2>2
<1>13. CASE Top # <<>> /\ lk' = [l EXCEPT !.paths = more]
  <2>1. \A i \in 1 .. n : p[i] # <<>>
    <3> TAKE i \in 1 .. n
    <3>1. i = n \/ i \in 1 .. n - 1
      <4> HIDE DEF n
      <4> QED BY <1>5
    <3> QED BY <1>6, <1>13, <1>21, <3>1
  <2>2. Len(more) - 1 = n
    <3> HIDE DEF n
    <3> QED BY <1>5, <1>8
  <2>3. Unfinished(more)
    BY <1>8, <2>1, <2>2 DEF Unfinished
  <2> QED BY <1>8, <1>11, <1>13, <2>3
<1> QED BY <1>1, <1>10, <1>12, <1>13

(* A name is read as a link.                                               *)
LEMMA ReadLinkResolves ==
  ASSUME Walking(lk), Resolving(lk), fs \in FileSystems, ReadLink
  PROVE  (Resolution!Expand \/ Resolution!Find \/ Resolution!Fail) /\ Resolving(lk')
<1> DEFINE entry == Entry(lk.file.name)
<1>1. /\ lk.pc = "readlink" /\ fs' = fs
      /\ \/ lk' = [lk EXCEPT !.pc = "fail"]
         \/ entry.kind = "link" /\ PushSymlink(entry.target)
         \/ entry.kind # "link" /\ ~WasInner /\ lk' = [lk EXCEPT !.pc = "success"]
  BY Zenon DEF ReadLink, Otherwise, Failed
<1>2. Shaped(lk)
  BY DEF Walking
<1>3. CASE lk' = [lk EXCEPT !.pc = "fail"]
  <2>1. lk'.pc = "fail" /\ lk'.fds = lk.fds /\ RequestOf(lk') = RequestOf(lk)
    BY <1>2, <1>3 DEF Shaped, Fields, RequestOf
  <2>2. lk.pc \in {"loop", "readlink"}
    BY <1>1
  <2> QED BY <1>1, <2>1, <2>2, FailResolves
<1>4. CASE entry.kind = "link" /\ PushSymlink(entry.target)
  BY <1>1, <1>4, PushSymlinkResolves
<1>5. CASE entry.kind # "link" /\ ~WasInner /\ lk' = [lk EXCEPT !.pc = "success"]
  <2>1. /\ Resolution!Component = lk.file /\ Resolution!Named /\ (WasInner <=> Resolution!Passed)
        /\ Resolution!Node = entry /\ StateOf(lk) = "walking" /\ NameOf(lk) = Dot
    BY <1>1, LinkRead
  <2>2. /\ lk'.pc = "success" /\ lk'.fds = lk.fds /\ lk'.file = lk.file
        /\ RequestOf(lk') = RequestOf(lk)
    BY <1>2, <1>5 DEF Shaped, Fields, RequestOf
  <2> HIDE DEF entry
  <2>3. StateOf(lk') = "found" /\ NameOf(lk') = lk.file /\ RestOf(lk') = <<>>
    BY <2>2 DEF StateOf, NameOf, RestOf
  <2>4. Resolution!Find
    BY <1>1, <1>5, <2>1, <2>2, <2>3, MappedTo DEF Resolution!Find, NameOf, RequestOf
  <2>5. Resolving(lk')
    BY <2>2 DEF Resolving
  <2> QED BY <2>4, <2>5
<1> QED BY <1>1, <1>3, <1>4, <1>5

----------------------------------------------------------------------------
(* path_get implements the walk                                            *)

(* A path is one string.                                                   *)
LEMMA OnePath ==
  ASSUME NEW path, path \in Paths
  PROVE  Strings(<<path>>) = path
<1>1. path \in Seq(Components)
  BY PathLookupAssumption
<1>2. <<>> \in Seq(Seq(Components)) /\ Append(<<>>, path) = <<path>>
  OBVIOUS
<1>3. Strings(Append(<<>>, path)) = path \o Strings(<<>>)
  BY <1>1, <1>2, StringsAppend
<1>4. path \o <<>> = path
  BY <1>1
<1> QED BY <1>2, <1>3, <1>4, StringsNone

(* A walk begins.                                                          *)
LEMMA BeginResolves ==
  ASSUME lk.pc = "idle", lk = NoLookup, fs' = fs, NEW path, path \in Paths, NEW f, NEW g,
         f \in BOOLEAN, g \in BOOLEAN, lk' = LookupOf(path, f, g)
  PROVE  Resolution!Begin /\ Resolving(lk')
<1>1. /\ lk'.pc = "loop" /\ lk'.follow = f /\ lk'.needsFinal = g /\ lk'.fds = <<Root>>
      /\ lk'.paths = <<path>> /\ lk'.file = Dot
  BY DEF LookupOf
<1>2. StateOf(lk) = "idle" /\ NameOf(lk) = Dot
  BY DEF StateOf, NameOf
<1>3. StateOf(lk') = "walking" /\ NameOf(lk') = Dot /\ RestOf(lk') = path
  BY <1>1, OnePath DEF StateOf, NameOf, RestOf
<1> DEFINE r == [path |-> path, follow |-> f, needsFinal |-> g]
<1>4. r \in [path : Paths, follow : BOOLEAN, needsFinal : BOOLEAN]
  OBVIOUS
<1>5. \E q \in [path : Paths, follow : BOOLEAN, needsFinal : BOOLEAN] :
        /\ Rest' = q.path
        /\ [follow |-> lk'.follow, needsFinal |-> lk'.needsFinal]
             = [follow |-> q.follow, needsFinal |-> q.needsFinal]
  <2>1. Rest' = r.path /\ lk'.follow = r.follow /\ lk'.needsFinal = r.needsFinal
    BY <1>1, <1>3, MappedTo
  <2> QED BY <1>4, <2>1
<1>6. Resolution!Begin
  BY <1>1, <1>2, <1>3, <1>5, MappedTo DEF Resolution!Begin, NameOf
<1>7. Resolving(lk')
  <2>1. Len(<<path>>) - 1 = 0
    OBVIOUS
  <2>2. Unfinished(<<path>>)
    BY <2>1 DEF Unfinished
  <2> QED BY <1>1, <2>2 DEF Resolving
<1> QED BY <1>6, <1>7

(* The walk is over.                                                       *)
LEMMA ReturnResolves ==
  ASSUME lk.pc \in {"success", "fail"}, lk' = NoLookup, fs' = fs
  PROVE  Resolution!Return /\ Resolving(lk')
<1>1. /\ lk'.pc = "idle" /\ lk'.follow = FALSE /\ lk'.needsFinal = FALSE /\ lk'.fds = <<>>
  BY DEF NoLookup
<1>2. StateOf(lk) \in {"found", "failed"}
  BY DEF StateOf
<1>3. StateOf(lk') = "idle" /\ NameOf(lk') = Dot /\ RestOf(lk') = <<>>
  BY <1>1 DEF StateOf, NameOf, RestOf
<1>4. Resolution!Return
  BY <1>1, <1>2, <1>3, MappedTo, Dots DEF Resolution!Return, Resolution!NoRequest, NameOf
<1>5. Resolving(lk')
  BY <1>1 DEF Resolving
<1> QED BY <1>4, <1>5

(* A step of the walk, or none.                                            *)
WalkOn == Resolution!Next \/ UNCHANGED Resolution!resolutionVars

(* What leaves the lookup and the file system alone.                       *)
LEMMA AloneResolves ==
  ASSUME Resolving(lk), fs' = fs, lk' = lk
  PROVE  WalkOn /\ Resolving(lk')
BY StutterResolves DEF WalkOn

(* A turn of the loop, or a link that is read.                             *)
LEMMA TurnResolves ==
  ASSUME WalkInv, Resolving(lk), LookupStep
  PROVE  WalkOn /\ Resolving(lk')
<1>1. Walking(lk) /\ fs \in FileSystems
  BY DEF WalkInv
<1>2. CASE Unresolvable
  BY <1>1, <1>2, UnresolvableResolves DEF WalkOn, Resolution!Next
<1>3. CASE Skip
  BY <1>1, <1>3, SkipResolves DEF WalkOn, Resolution!Next
<1>4. CASE Parent
  BY <1>1, <1>4, ParentResolves DEF WalkOn, Resolution!Next
<1>5. CASE EnterDirectory
  BY <1>1, <1>5, EnterDirectoryResolves DEF WalkOn, Resolution!Next
<1>6. CASE FinalComponent
  BY <1>1, <1>6, FinalComponentResolves DEF WalkOn, Resolution!Next
<1>7. CASE ReadLink
  BY <1>1, <1>7, ReadLinkResolves DEF WalkOn, Resolution!Next
<1> QED BY <1>2, <1>3, <1>4, <1>5, <1>6, <1>7 DEF LookupStep

(* A lookup that begins asks for what the walk may be asked for.           *)
LEMMA StartPathResolves ==
  ASSUME CallInv, Resolving(lk), StartPath
  PROVE  WalkOn /\ Resolving(lk')
<1> DEFINE s == Current
           f == s.arg.follow
           g == s.arg.needsFinal
<1>1. /\ At("path_get") /\ lk.pc = "idle"
      /\ \/ /\ \E path \in Paths : lk' = LookupOf(path, f, g)
            /\ fs' = fs /\ back' = back
         \/ Error /\ fs' = fs /\ lk' = lk
  BY Zenon DEF StartPath, Lookup, lookupVars
<1>2. Running
  BY <1>1 DEF At
<1>3. PICK A, Post, Err : \E b \in BOOLEAN : Standing(A, Post, Err, b)
  BY <1>2, CallStanding
<1>4. PICK b \in BOOLEAN : Standing(A, Post, Err, b)
  BY <1>3
<1>5. "path_get" # "poll" /\ "path_get" \notin Cleaning
  BY DEF Cleaning
<1>6. s.op = "path_get" /\ Allowed(call.name, s, Now(b))
  BY <1>1, <1>4, <1>5, AtStep
<1>7. f \in BOOLEAN /\ g \in BOOLEAN
  <2> HIDE DEF s
  <2> QED BY <1>6 DEF Allowed
<1>8. lk = NoLookup
  BY <1>1 DEF CallInv, WalkInv, Walking
<1> HIDE DEF f, g
<1>9. CASE (\E path \in Paths : lk' = LookupOf(path, f, g)) /\ fs' = fs
  <2>1. PICK path \in Paths : lk' = LookupOf(path, f, g)
    BY <1>9
  <2>2. Resolution!Begin /\ Resolving(lk')
    BY <1>1, <1>7, <1>8, <1>9, <2>1, BeginResolves
  <2> QED BY <2>2 DEF WalkOn, Resolution!Next
<1>10. CASE fs' = fs /\ lk' = lk
  BY <1>10, AloneResolves
<1> QED BY <1>1, <1>9, <1>10

(* The file system changes in both.                                        *)
LEMMA InterfereResolves ==
  ASSUME Resolving(lk), Interfere
  PROVE  WalkOn /\ Resolving(lk')
<1>1. fs' \in FileSystems \ {fs} /\ lk' = lk
  BY Zenon DEF Interfere, ChangeFileSystem
<1>2. Resolution!Change
  BY <1>1, MappedTo DEF Resolution!Change
<1> QED BY <1>1, <1>2 DEF WalkOn, Resolution!Next

(* Every step of a call is one of the walk, or none.                       *)
LEMMA EveryStepResolves ==
  CallInv /\ Resolving(lk) /\ [Next]_vars => WalkOn /\ Resolving(lk')
<1> SUFFICES ASSUME CallInv, Resolving(lk), [Next]_vars PROVE WalkOn /\ Resolving(lk')
  OBVIOUS
<1>0. WalkInv /\ held \in Counts
  BY DEF CallInv, WalkInv
<1>1. CASE PlainStep
  BY <1>0, <1>1, PlainStays, AloneResolves
<1>2. CASE PollStep
  BY <1>0, <1>2, PollStays, AloneResolves
<1>3. CASE StartPath
  BY <1>3, StartPathResolves
<1>4. CASE StepPath
  BY <1>0, <1>4, TurnResolves DEF StepPath
<1>5. CASE Interfere
  BY <1>5, InterfereResolves
<1>6. CASE PathFound \/ PathRefused
  <2>1. lk.pc \in {"success", "fail"} /\ lk' = NoLookup /\ fs' = fs
    BY <1>6, Zenon DEF PathFound, PathRefused
  <2>2. Resolution!Return /\ Resolving(lk')
    BY <2>1, ReturnResolves
  <2> QED BY <2>2 DEF WalkOn, Resolution!Next
<1>7. CASE PutPath \/ Return
  <2>1. fs' = fs /\ lk' = lk
    BY <1>7, Zenon DEF PutPath, Return, Hold
  <2> QED BY <2>1, AloneResolves
<1>8. CASE UNCHANGED vars
  <2>1. fs' = fs /\ lk' = lk
    BY <1>8, Zenon DEF vars, lookupVars
  <2> QED BY <2>1, AloneResolves
<1> QED BY <1>1, <1>2, <1>3, <1>4, <1>5, <1>6, <1>7, <1>8, StepSorts

(* Before the first call nothing is walked.                                *)
LEMMA InitResolves == Init => Resolution!Init /\ Resolving(lk)
<1> SUFFICES ASSUME Init PROVE Resolution!Init /\ Resolving(lk)
  OBVIOUS
<1>1. fs \in FileSystems /\ lk = NoLookup
  BY DEF Init
<1>2. /\ lk.pc = "idle" /\ lk.follow = FALSE /\ lk.needsFinal = FALSE /\ lk.fds = <<>>
  BY <1>1 DEF NoLookup
<1>3. StateOf(lk) = "idle" /\ NameOf(lk) = Dot /\ RestOf(lk) = <<>>
  BY <1>2 DEF StateOf, NameOf, RestOf
<1>4. Resolution!Init
  BY <1>1, <1>2, <1>3, MappedTo, Dots DEF Resolution!Init, Resolution!NoRequest, NameOf
<1>5. Resolving(lk)
  BY <1>2 DEF Resolving
<1> QED BY <1>4, <1>5

(* The loop of path_get, with its two stacks, its buffers and its limits,  *)
(* implements the walk over one path that PathResolution states: whatever  *)
(* links and slashes there are and however the file system changes, it     *)
(* hands to the host only what that walk finds.                            *)
THEOREM LookupRefines == Spec => RefinesResolution
<1>1. CallInv /\ Resolving(lk) /\ [Next]_vars
        => [Resolution!Next]_Resolution!resolutionVars /\ Resolving(lk)'
  BY EveryStepResolves DEF WalkOn
<1> QED BY <1>1, InitResolves, CallAlways, PTL DEF Spec, RefinesResolution, Resolution!Resolution

----------------------------------------------------------------------------
(* What a poll answers                                                     *)

SubscriptionKinds == {"good", "bad", "clock", "long", "absolute", "other"}
Events == [sub : Nat, kind : {"clock", "error", "descriptor"}]

(* The subscriptions that cannot be served, and those with an error.       *)
Unserved == {"bad", "other"}
Reported(e) == {e[i].sub : i \in {k \in DOMAIN e : e[k].kind = "error"}}
OfClock(e) == {i \in DOMAIN e : e[i].kind = "clock"}

Once(e) == \A i, j \in DOMAIN e : e[i].sub = e[j].sub => i = j

(* What the loop over the subscriptions has collected after n of them:     *)
(* errors only, none twice and none of a descriptor it will wait for.      *)
Collected(subs, n, good, e) ==
  /\ subs \in Seq(SubscriptionKinds) /\ n \in 0 .. Len(subs)
  /\ good \subseteq 1 .. n /\ e \in Seq(Events) /\ Once(e)
  /\ \A k \in 1 .. Len(e) : e[k].kind = "error" /\ e[k].sub \in 1 .. n /\ e[k].sub \notin good
  /\ \A s \in 1 .. n : subs[s] \in Unserved => \E k \in 1 .. Len(e) : e[k].sub = s

(* What is written to the caller's memory.                                 *)
Told(subs, e, r) ==
  /\ r = "ok" => e # <<>>
  /\ Once(e)
  /\ OfClock(e) # {} => Len(e) = 1
  /\ \A s \in DOMAIN subs : subs[s] \in Unserved => s \in Reported(e)

(* The state of a poll.                                                    *)
PollTold ==
  /\ poll.pc # "idle" => call.name = "poll_oneoff"
  /\ poll.pc = "sleep" => DOMAIN poll.subs = {1} /\ poll.subs[1] \in Clocks
  /\ poll.pc = "subscribe" =>
       poll.next \in Nat \ {0} /\ Collected(poll.subs, poll.next - 1, poll.good, poll.events)
  /\ poll.pc = "wait" => Collected(poll.subs, Len(poll.subs), poll.good, poll.events)
  /\ poll.pc \in {"release", "done"} => Told(poll.subs, poll.events, ret)

(* An event after others.                                                  *)
LEMMA OneEvent ==
  ASSUME NEW e, e \in Seq(Events), NEW x, x \in Events, NEW r, r = e \o <<x>>
  PROVE  /\ r \in Seq(Events) /\ Len(e) \in Nat /\ Len(r) = Len(e) + 1 /\ r[Len(e) + 1] = x
         /\ \A k \in 1 .. Len(e) : r[k] = e[k]
<1> DEFINE q == <<x>>
           n == Len(e)
<1>1. q \in Seq(Events) /\ Len(q) = 1 /\ q[1] = x
  OBVIOUS
<1>2. r = e \o q
  OBVIOUS
<1> HIDE DEF q
<1>3. /\ r \in Seq(Events) /\ Len(r) = Len(e) + Len(q) /\ Len(e) \in Nat
      /\ \A i \in 1 .. Len(e) + Len(q) : r[i] = IF i <= Len(e) THEN e[i] ELSE q[i - Len(e)]
  BY <1>1, <1>2, ConcatProperties
<1>4. /\ n \in Nat /\ Len(r) = n + 1
      /\ \A i \in 1 .. n + 1 : r[i] = IF i <= n THEN e[i] ELSE q[i - n]
  BY <1>1, <1>3
<1> HIDE DEF n
<1>5. r[n + 1] = x
  <2> DEFINE i == n + 1
  <2>1. i \in 1 .. n + 1 /\ ~(i <= n) /\ i - n = 1
    BY <1>4
  <2> HIDE DEF i
  <2>2. r[i] = q[i - n]
    BY <1>4, <2>1
  <2>3. r[i] = x
    BY <1>1, <2>1, <2>2
  <2> QED BY <2>3 DEF i
<1>6. \A k \in 1 .. n : r[k] = e[k]
  <2> TAKE k \in 1 .. n
  <2>1. k \in 1 .. n + 1 /\ k <= n
    BY <1>4
  <2> QED BY <1>4, <2>1
<1> QED BY <1>3, <1>4, <1>5, <1>6 DEF n

(* The loop goes on: another error, another descriptor, or the clock.      *)
LEMMA ErrorCollected ==
  ASSUME NEW subs, NEW n, NEW good, NEW e, Collected(subs, n, good, e), n < Len(subs),
         subs[n + 1] # "good"
  PROVE  Collected(subs, n + 1, good, e \o Event(n + 1, "error"))
<1> DEFINE x == [sub |-> n + 1, kind |-> "error"]
           r == e \o <<x>>
           m == Len(e)
<1>1. /\ subs \in Seq(SubscriptionKinds) /\ n \in 0 .. Len(subs) /\ Len(subs) \in Nat
      /\ good \subseteq 1 .. n /\ e \in Seq(Events) /\ Once(e)
      /\ \A k \in 1 .. m : e[k].kind = "error" /\ e[k].sub \in 1 .. n /\ e[k].sub \notin good
      /\ \A s \in 1 .. n : subs[s] \in Unserved => \E k \in 1 .. m : e[k].sub = s
  BY DEF Collected
<1>2. x \in Events /\ x.sub = n + 1 /\ x.kind = "error"
  BY <1>1 DEF Events
<1> HIDE DEF x
<1>3. /\ r \in Seq(Events) /\ m \in Nat /\ Len(r) = m + 1 /\ r[m + 1] = x
      /\ \A k \in 1 .. m : r[k] = e[k]
  BY <1>1, <1>2, OneEvent
<1>4. DOMAIN r = 1 .. m + 1 /\ DOMAIN e = 1 .. m
  BY <1>1, <1>3
<1>5. n + 1 \in 0 .. Len(subs) /\ good \subseteq 1 .. n + 1 /\ n + 1 \notin good /\ n \in Nat
  BY <1>1
<1> HIDE DEF r, m
<1>6. \A k \in 1 .. m + 1 : k = m + 1 \/ k \in 1 .. m
  BY <1>3
<1>7. \A k \in 1 .. m + 1 : /\ r[k].kind = "error" /\ r[k].sub \in 1 .. n + 1 /\ r[k].sub \notin good
                            /\ (r[k].sub = n + 1 <=> k = m + 1)
  <2> TAKE k \in 1 .. m + 1
  <2>1. CASE k = m + 1
    BY <1>2, <1>3, <1>5, <2>1
  <2>2. CASE k \in 1 .. m
    <3>1. r[k] = e[k] /\ k # m + 1 /\ e[k].sub \in 1 .. n
      BY <1>1, <1>3, <2>2
    <3>2. e[k].sub # n + 1 /\ e[k].sub \in 1 .. n + 1
      BY <1>5, <3>1
    <3> QED BY <1>1, <2>2, <3>1, <3>2
  <2> QED BY <1>6, <2>1, <2>2
<1>8. Once(r)
  <2> SUFFICES ASSUME NEW i \in 1 .. m + 1, NEW j \in 1 .. m + 1, r[i].sub = r[j].sub PROVE i = j
    BY <1>4 DEF Once
  <2>1. CASE i \in 1 .. m /\ j \in 1 .. m
    BY <1>1, <1>3, <1>4, <2>1 DEF Once
  <2>2. CASE i = m + 1 \/ j = m + 1
    BY <1>7, <2>2
  <2> QED BY <1>6, <2>1, <2>2
<1>9. \A s \in 1 .. n + 1 : subs[s] \in Unserved => \E k \in 1 .. m + 1 : r[k].sub = s
  <2> SUFFICES ASSUME NEW s \in 1 .. n + 1, subs[s] \in Unserved
               PROVE  \E k \in 1 .. m + 1 : r[k].sub = s
    OBVIOUS
  <2>1. CASE s = n + 1
    <3>1. m + 1 \in 1 .. m + 1
      BY <1>3
    <3> QED BY <1>2, <1>3, <2>1, <3>1
  <2>2. CASE s # n + 1
    <3>1. s \in 1 .. n
      BY <1>5, <2>2
    <3>2. PICK k \in 1 .. m : e[k].sub = s
      BY <1>1, <3>1
    <3>3. k \in 1 .. m + 1
      BY <1>3
    <3> QED BY <1>3, <3>2, <3>3
  <2> QED BY <2>1, <2>2
<1>10. Collected(subs, n + 1, good, r)
  BY <1>1, <1>3, <1>5, <1>7, <1>8, <1>9 DEF Collected
<1> QED BY <1>10 DEF r, x, Event

LEMMA OtherCollected ==
  ASSUME NEW subs, NEW n, NEW good, NEW e, Collected(subs, n, good, e), n < Len(subs),
         subs[n + 1] \notin Unserved, NEW g, g \in {good, good \cup {n + 1}}
  PROVE  Collected(subs, n + 1, g, e)
<1>1. /\ subs \in Seq(SubscriptionKinds) /\ n \in 0 .. Len(subs) /\ Len(subs) \in Nat
      /\ good \subseteq 1 .. n /\ e \in Seq(Events) /\ Once(e)
      /\ \A k \in 1 .. Len(e) : e[k].kind = "error" /\ e[k].sub \in 1 .. n /\ e[k].sub \notin good
      /\ \A s \in 1 .. n : subs[s] \in Unserved => \E k \in 1 .. Len(e) : e[k].sub = s
  BY DEF Collected
<1>2. n + 1 \in 0 .. Len(subs) /\ g \subseteq 1 .. n + 1 /\ n \in Nat
  BY <1>1
<1>3. \A k \in 1 .. Len(e) : e[k].kind = "error" /\ e[k].sub \in 1 .. n + 1 /\ e[k].sub \notin g
  <2> TAKE k \in 1 .. Len(e)
  <2>1. e[k].kind = "error" /\ e[k].sub \in 1 .. n /\ e[k].sub \notin good
    BY <1>1
  <2>2. e[k].sub \in 1 .. n + 1 /\ e[k].sub # n + 1
    BY <1>2, <2>1
  <2> QED BY <2>1, <2>2
<1>4. \A s \in 1 .. n + 1 : subs[s] \in Unserved => \E k \in 1 .. Len(e) : e[k].sub = s
  <2> SUFFICES ASSUME NEW s \in 1 .. n + 1, subs[s] \in Unserved
               PROVE  \E k \in 1 .. Len(e) : e[k].sub = s
    OBVIOUS
  <2>1. s \in 1 .. n
    <3>1. s # n + 1
      OBVIOUS
    <3> QED BY <1>2, <3>1
  <2> QED BY <1>1, <2>1
<1> QED BY <1>1, <1>2, <1>3, <1>4 DEF Collected

(* A set of numbers can be written in ascending order.                     *)
Ascending(S, f) ==
  f \in [1 .. Cardinality(S) -> S] /\ \A i, j \in DOMAIN f : i < j => f[i] < f[j]

LEMMA AscendingExists ==
  ASSUME NEW n \in Nat, NEW S \in SUBSET (1 .. n)
  PROVE  \E f : Ascending(S, f)
<1> DEFINE P == {m \in Nat : \A T \in SUBSET (1 .. m) : \E f : Ascending(T, f)}
<1>1. 0 \in P
  <2> SUFFICES ASSUME NEW T \in SUBSET (1 .. 0) PROVE \E f : Ascending(T, f)
    OBVIOUS
  <2>1. T = {}
    OBVIOUS
  <2> DEFINE f == [i \in {} |-> i]
  <2>2. Cardinality(T) = 0
    BY <2>1, FS_EmptySet
  <2>3. 1 .. 0 = {}
    OBVIOUS
  <2>4. f \in [{} -> T] /\ DOMAIN f = {}
    OBVIOUS
  <2> HIDE DEF f
  <2>5. Ascending(T, f)
    BY <2>2, <2>3, <2>4 DEF Ascending
  <2> QED BY <2>5
<1>2. ASSUME NEW m \in Nat, m \in P
      PROVE  m + 1 \in P
  <2> SUFFICES ASSUME NEW T \in SUBSET (1 .. m + 1) PROVE \E f : Ascending(T, f)
    OBVIOUS
  <2>1. CASE m + 1 \notin T
    <3>1. T \in SUBSET (1 .. m)
      BY <2>1
    <3> QED BY <1>2, <3>1
  <2>2. CASE m + 1 \in T
    <3> DEFINE U == T \ {m + 1}
               c == Cardinality(U)
    <3>1. U \in SUBSET (1 .. m)
      OBVIOUS
    <3>2. PICK f : Ascending(U, f)
      BY <1>2, <3>1
    <3>3. IsFiniteSet(T)
      <4>1. IsFiniteSet(1 .. m + 1)
        BY FS_Interval
      <4> QED BY <4>1, FS_Subset
    <3>4. Cardinality(T) \in Nat /\ c = Cardinality(T) - 1 /\ c \in Nat
      <4>1. IsFiniteSet(U) /\ Cardinality(U) = Cardinality(T) - 1
        BY <2>2, <3>3, FS_RemoveElement
      <4> QED BY <3>3, <4>1, FS_CardinalityType
    <3>5. f \in [1 .. c -> U] /\ \A i, j \in 1 .. c : i < j => f[i] < f[j]
      BY <3>2 DEF Ascending
    <3> HIDE DEF c
    <3> DEFINE g == [i \in 1 .. c + 1 |-> IF i = c + 1 THEN m + 1 ELSE f[i]]
    <3>6. \A i \in 1 .. c + 1 : i = c + 1 \/ i \in 1 .. c
      BY <3>4
    <3>7. g \in [1 .. c + 1 -> T]
      <4>1. \A i \in 1 .. c + 1 : (IF i = c + 1 THEN m + 1 ELSE f[i]) \in T
        BY <2>2, <3>5, <3>6
      <4> QED BY <4>1
    <3>8. ASSUME NEW i \in 1 .. c + 1, NEW j \in 1 .. c + 1, i < j PROVE g[i] < g[j]
      <4>1. i \in 1 .. c /\ i # c + 1
        BY <3>4, <3>8
      <4>2. g[i] = f[i] /\ f[i] \in 1 .. m
        BY <3>1, <3>5, <4>1
      <4>3. CASE j = c + 1
        <5>1. g[j] = m + 1
          BY <4>3
        <5> HIDE DEF g
        <5> QED BY <4>2, <5>1
      <4>4. CASE j # c + 1
        <5>1. j \in 1 .. c /\ g[j] = f[j]
          BY <3>6, <4>4
        <5> HIDE DEF g
        <5> QED BY <3>5, <3>8, <4>1, <4>2, <5>1
      <4> QED BY <4>3, <4>4
    <3>9. DOMAIN g = 1 .. c + 1 /\ c + 1 = Cardinality(T)
      BY <3>4
    <3> HIDE DEF g
    <3>10. Ascending(T, g)
      BY <3>7, <3>8, <3>9 DEF Ascending
    <3> QED BY <3>10
  <2> QED BY <2>1, <2>2
<1> HIDE DEF P
<1>3. Nat \subseteq P
  BY <1>1, <1>2, Induction
<1> QED BY <1>3 DEF P

(* The events of the descriptors that answered.                            *)
LEMMA InOrderIs ==
  ASSUME NEW n \in Nat, NEW S \in SUBSET (1 .. n), S # {}, NEW q, q = InOrder(S)
  PROVE  /\ q \in Seq(Events) /\ q # <<>> /\ Once(q)
         /\ \A k \in 1 .. Len(q) : q[k].sub \in S /\ q[k].kind = "descriptor"
<1> DEFINE c == Cardinality(S)
           f == CHOOSE s \in [1 .. Cardinality(S) -> S] : \A i, j \in DOMAIN s : i < j => s[i] < s[j]
<1>1. f \in [1 .. c -> S] /\ \A i, j \in DOMAIN f : i < j => f[i] < f[j]
  <2>1. \E s \in [1 .. Cardinality(S) -> S] : \A i, j \in DOMAIN s : i < j => s[i] < s[j]
    BY AscendingExists DEF Ascending
  <2> QED BY <2>1, Zenon
<1>2. c \in Nat \ {0}
  <2>1. IsFiniteSet(1 .. n)
    BY FS_Interval
  <2>2. IsFiniteSet(S)
    BY <2>1, FS_Subset
  <2> QED BY <2>2, FS_CardinalityType, FS_EmptySet
<1>3. q = [k \in DOMAIN f |-> [sub |-> f[k], kind |-> "descriptor"]]
  BY Zenon DEF InOrder
<1> HIDE DEF f, c
<1>4. /\ DOMAIN f = 1 .. c /\ \A k \in 1 .. c : f[k] \in S /\ f[k] \in Nat
      /\ q = [k \in 1 .. c |-> [sub |-> f[k], kind |-> "descriptor"]]
  <2>1. DOMAIN f = 1 .. c
    BY <1>1
  <2>2. \A k \in 1 .. c : f[k] \in S
    BY <1>1
  <2>3. \A k \in S : k \in Nat
    OBVIOUS
  <2> QED BY <1>3, <2>1, <2>2, <2>3
<1>5. \A k \in 1 .. c : q[k].sub = f[k] /\ q[k].kind = "descriptor" /\ q[k] \in Events
  BY <1>4 DEF Events
<1>6. q \in [1 .. c -> Events]
  BY <1>4, <1>5
<1>7. q \in Seq(Events) /\ Len(q) = c /\ DOMAIN q = 1 .. c
  BY <1>2, <1>6
<1>8. q # <<>>
  BY <1>2, <1>7
<1>9. Once(q)
  <2> SUFFICES ASSUME NEW i \in 1 .. c, NEW j \in 1 .. c, q[i].sub = q[j].sub PROVE i = j
    BY <1>7 DEF Once
  <2>1. f[i] = f[j] /\ f[i] \in Nat
    BY <1>4, <1>5
  <2>2. ~(i < j) /\ ~(j < i)
    <3>1. (i < j => f[i] < f[j]) /\ (j < i => f[j] < f[i])
      BY <1>1, <1>4
    <3> QED BY <2>1, <3>1
  <2> QED BY <1>2, <2>2
<1> QED BY <1>4, <1>5, <1>7, <1>8, <1>9

(* What was collected is told, alone or with the answers of descriptors.   *)
LEMMA ErrorsTold ==
  ASSUME NEW subs, NEW good, NEW e, NEW r, Collected(subs, Len(subs), good, e),
         r = "ok" => e # <<>>
  PROVE  Told(subs, e, r)
<1>1. /\ subs \in Seq(SubscriptionKinds) /\ e \in Seq(Events) /\ Once(e)
      /\ \A k \in 1 .. Len(e) : e[k].kind = "error"
      /\ \A s \in 1 .. Len(subs) : subs[s] \in Unserved => \E k \in 1 .. Len(e) : e[k].sub = s
  BY DEF Collected
<1>2. DOMAIN e = 1 .. Len(e) /\ DOMAIN subs = 1 .. Len(subs)
  BY <1>1
<1>3. OfClock(e) = {}
  BY <1>1, <1>2 DEF OfClock
<1>4. \A s \in DOMAIN subs : subs[s] \in Unserved => s \in Reported(e)
  BY <1>1, <1>2 DEF Reported
<1> QED BY <1>1, <1>3, <1>4 DEF Told

LEMMA AnswersTold ==
  ASSUME NEW subs, NEW good, NEW e, Collected(subs, Len(subs), good, e),
         NEW S \in SUBSET good, S # {}, NEW r
  PROVE  Told(subs, e \o InOrder(S), r)
<1> DEFINE q == InOrder(S)
           a == Len(e)
           b == Len(q)
           t == e \o q
<1>1. /\ subs \in Seq(SubscriptionKinds) /\ e \in Seq(Events) /\ Once(e) /\ good \subseteq 1 .. Len(subs)
      /\ \A k \in 1 .. a : e[k].kind = "error" /\ e[k].sub \notin good
      /\ \A s \in 1 .. Len(subs) : subs[s] \in Unserved => \E k \in 1 .. a : e[k].sub = s
  BY DEF Collected
<1>2. /\ q \in Seq(Events) /\ q # <<>> /\ Once(q)
      /\ \A k \in 1 .. b : q[k].sub \in S /\ q[k].kind = "descriptor"
  <2>1. Len(subs) \in Nat /\ S \in SUBSET (1 .. Len(subs))
    BY <1>1
  <2> QED BY <2>1, InOrderIs
<1> HIDE DEF q
<1>3. /\ t \in Seq(Events) /\ Len(t) = a + b /\ a \in Nat /\ b \in Nat \ {0}
      /\ \A i \in 1 .. a + b : t[i] = IF i <= a THEN e[i] ELSE q[i - a]
  BY <1>1, <1>2, ConcatProperties, EmptySeq
<1>4. DOMAIN t = 1 .. a + b /\ DOMAIN e = 1 .. a /\ DOMAIN q = 1 .. b /\ DOMAIN subs = 1 .. Len(subs)
  BY <1>1, <1>2, <1>3
<1>5. t # <<>>
  <2> HIDE DEF t, a, b
  <2> QED BY <1>3, EmptySeq
<1> HIDE DEF t, a, b
<1>6. \A i \in 1 .. a + b : \/ i \in 1 .. a /\ t[i] = e[i]
                            \/ i - a \in 1 .. b /\ t[i] = q[i - a] /\ i \notin 1 .. a
  BY <1>3
<1>7. \A i \in 1 .. a + b : /\ t[i].kind # "clock"
                            /\ (t[i].sub \in good <=> i \notin 1 .. a)
  <2> TAKE i \in 1 .. a + b
  <2>1. CASE i \in 1 .. a /\ t[i] = e[i]
    BY <1>1, <2>1
  <2>2. CASE i - a \in 1 .. b /\ t[i] = q[i - a] /\ i \notin 1 .. a
    BY <1>2, <2>2
  <2> QED BY <1>6, <2>1, <2>2
<1>8. Once(t)
  <2> SUFFICES ASSUME NEW i \in 1 .. a + b, NEW j \in 1 .. a + b, t[i].sub = t[j].sub PROVE i = j
    BY <1>4 DEF Once
  <2>1. i \in 1 .. a <=> j \in 1 .. a
    BY <1>7
  <2>2. CASE i \in 1 .. a /\ j \in 1 .. a
    <3>1. t[i] = e[i] /\ t[j] = e[j]
      BY <1>6, <2>2
    <3> QED BY <1>1, <1>4, <2>2, <3>1 DEF Once
  <2>3. CASE i \notin 1 .. a /\ j \notin 1 .. a
    <3>1. i - a \in 1 .. b /\ j - a \in 1 .. b /\ t[i] = q[i - a] /\ t[j] = q[j - a]
      BY <1>6, <2>3
    <3>2. i - a = j - a
      BY <1>2, <1>4, <3>1 DEF Once
    <3> QED BY <1>3, <3>2
  <2> QED BY <2>1, <2>2, <2>3
<1>9. OfClock(t) = {}
  BY <1>4, <1>7 DEF OfClock
<1>10. \A s \in DOMAIN subs : subs[s] \in Unserved => s \in Reported(t)
  <2> SUFFICES ASSUME NEW s \in 1 .. Len(subs), subs[s] \in Unserved PROVE s \in Reported(t)
    BY <1>4
  <2>1. PICK k \in 1 .. a : e[k].sub = s
    BY <1>1
  <2>2. k \in 1 .. a + b /\ k <= a
    BY <1>3
  <2>3. t[k] = e[k]
    BY <1>3, <2>2
  <2>4. t[k].kind = "error" /\ t[k].sub = s
    BY <1>1, <2>1, <2>3
  <2> QED BY <1>4, <2>2, <2>4 DEF Reported
<1>11. Told(subs, t, r)
  BY <1>5, <1>8, <1>9, <1>10 DEF Told
<1> QED BY <1>11 DEF t, q

(* One event alone, when nothing had to be refused.                        *)
LEMMA OneTold ==
  ASSUME NEW subs, NEW i, NEW kind, NEW r, \A s \in DOMAIN subs : subs[s] \notin Unserved
  PROVE  Told(subs, Event(i, kind), r)
<1> DEFINE x == [sub |-> i, kind |-> kind]
           t == <<x>>
<1>1. t # <<>> /\ DOMAIN t = {1} /\ Len(t) = 1
  OBVIOUS
<1> HIDE DEF t
<1>2. Once(t)
  BY <1>1 DEF Once
<1>3. Told(subs, t, r)
  BY <1>1, <1>2 DEF Told
<1> QED BY <1>3 DEF t, Event

(* A poll begins.                                                          *)
LEMMA StartPollTold ==
  ASSUME CallInv, PollTold, StartPoll
  PROVE  PollTold'
<1>1. At("poll") /\ poll.pc = "idle" /\ UNCHANGED <<call, ret>>
  BY Zenon DEF StartPoll, PollOnly, result
<1>2. Running
  BY <1>1 DEF At
<1>3. PICK A, Post, Err : \E b \in BOOLEAN : Standing(A, Post, Err, b)
  BY <1>2, CallStanding
<1>4. PICK b \in BOOLEAN : Standing(A, Post, Err, b)
  BY <1>3
<1>5. call.name = "poll_oneoff"
  <2> DEFINE p == Prog
             c == Now(b)
  <2>1. /\ at \in 1 .. Len(p) /\ p[at].op = "poll" /\ c \in A[at] /\ Outlined(call.name, p, A, Post, Err)
    BY <1>1, <1>4, PollBegins
  <2> HIDE DEF p, c
  <2>2. Allowed(call.name, p[at], c)
    BY <2>1, OutlineStep DEF Outlined
  <2> QED BY <2>1, <2>2 DEF Allowed
<1>6. PICK subs \in Subscriptions :
        LET p == [NoPoll EXCEPT !.subs = subs, !.next = 1]
        IN  \/ Len(subs) = 1 /\ subs[1] \in Clocks /\ poll' = [p EXCEPT !.pc = "sleep"]
            \/ poll' = [p EXCEPT !.pc = "subscribe"]
            \/ poll' = poll
  BY Zenon DEF StartPoll
<1> DEFINE p == [NoPoll EXCEPT !.subs = subs, !.next = 1]
<1>7. subs \in Seq(SubscriptionKinds)
  BY WasiCallsAssumption DEF SubscriptionKinds
<1>8. PollShaped(p) /\ p.subs = subs /\ p.next = 1 /\ p.good = {} /\ p.events = <<>>
  BY DEF PollShaped, PollFields, NoPoll
<1> HIDE DEF p
<1>9. CASE Len(subs) = 1 /\ subs[1] \in Clocks /\ poll' = [p EXCEPT !.pc = "sleep"]
  <2>1. poll'.pc = "sleep" /\ poll'.subs = subs
    BY <1>8, <1>9 DEF PollShaped, PollFields
  <2>2. DOMAIN subs = {1}
    BY <1>7, <1>9
  <2> QED BY <1>1, <1>5, <1>9, <2>1, <2>2 DEF PollTold
<1>10. CASE poll' = [p EXCEPT !.pc = "subscribe"]
  <2>1. /\ poll'.pc = "subscribe" /\ poll'.subs = subs /\ poll'.next = 1 /\ poll'.good = {}
        /\ poll'.events = <<>>
    BY <1>8, <1>10 DEF PollShaped, PollFields
  <2>2. Collected(subs, 0, {}, <<>>)
    <3>1. 0 \in 0 .. Len(subs) /\ <<>> \in Seq(Events) /\ Len(<<>>) = 0 /\ DOMAIN <<>> = {}
      BY <1>7
    <3>2. Once(<<>>)
      BY <3>1 DEF Once
    <3> QED BY <1>7, <3>1, <3>2 DEF Collected
  <2>3. 1 \in Nat \ {0} /\ 1 - 1 = 0
    OBVIOUS
  <2> QED BY <1>1, <1>5, <2>1, <2>2, <2>3 DEF PollTold
<1>11. CASE poll' = poll
  <2>1. poll'.pc = "idle"
    BY <1>1, <1>11
  <2> QED BY <2>1 DEF PollTold
<1> QED BY <1>6, <1>9, <1>10, <1>11 DEF p

(* The sleep ends.                                                         *)
LEMMA SleepTold ==
  ASSUME CallInv, PollTold, Sleep
  PROVE  PollTold'
<1>1. poll.pc = "sleep" /\ UNCHANGED <<call, ret>>
  BY Zenon DEF Sleep, PollOnly, result
<1>2. PICK kind \in {"clock", "error"} : poll' = [poll EXCEPT !.pc = "done", !.events = Event(1, kind)]
  BY Zenon DEF Sleep
<1> DEFINE e == Event(1, kind)
<1>3. PollShaped(poll) /\ call.name = "poll_oneoff" /\ DOMAIN poll.subs = {1} /\ poll.subs[1] \in Clocks
  BY <1>1 DEF CallInv, WalkInv, PollTold
<1>4. Told(poll.subs, e, ret)
  <2>1. \A s \in DOMAIN poll.subs : poll.subs[s] \notin Unserved
    BY <1>3 DEF Clocks, Unserved
  <2> QED BY <2>1, OneTold
<1> HIDE DEF e
<1>5. poll' = [poll EXCEPT !.pc = "done", !.events = e]
  BY <1>2 DEF e
<1>6. poll'.pc = "done" /\ poll'.subs = poll.subs /\ poll'.events = e
  BY <1>3, <1>5 DEF PollShaped, PollFields
<1> QED BY <1>1, <1>3, <1>4, <1>6 DEF PollTold

(* A turn of the loop over the subscriptions.                              *)
LEMMA SubscribeTold ==
  ASSUME CallInv, PollTold, Subscribe
  PROVE  PollTold'
<1> DEFINE i == poll.next
           n == i - 1
           subs == poll.subs
           good == poll.good
           p == [poll EXCEPT !.next = i + 1]
           g == good \cup {i}
           x == Event(i, "error")
           e == poll.events
           r == e \o x
<1>1. poll.pc = "subscribe" /\ UNCHANGED <<call, ret>>
  BY Zenon DEF Subscribe, PollOnly, result
<1>2. \/ i > Len(subs) /\ poll' = [poll EXCEPT !.pc = "wait"]
      \/ ~(i > Len(subs)) /\ subs[i] = "good" /\ poll' = [p EXCEPT !.good = g]
      \/ ~(i > Len(subs)) /\ subs[i] \in {"clock", "long"} /\ poll' = [p EXCEPT !.clock = i]
      \/ ~(i > Len(subs)) /\ subs[i] # "good" /\ poll' = [p EXCEPT !.events = r]
  BY Zenon DEF Subscribe
<1>3. /\ PollShaped(poll) /\ call.name = "poll_oneoff" /\ i \in Nat \ {0}
      /\ Collected(subs, n, good, e)
  BY <1>1 DEF CallInv, WalkInv, PollTold
<1>4. Len(subs) \in Nat /\ n \in 0 .. Len(subs)
  BY <1>3 DEF Collected
<1>5. n + 1 = i /\ i + 1 - 1 = i /\ i + 1 \in Nat \ {0}
  BY <1>3
<1>6. /\ PollShaped(p) /\ p.pc = "subscribe" /\ p.subs = subs /\ p.next = i + 1 /\ p.good = good
      /\ p.events = e
  BY <1>1, <1>3 DEF PollShaped, PollFields
<1>7. ~(i > Len(subs)) => n < Len(subs)
  BY <1>3, <1>4
<1> HIDE DEF p, r, x, g
<1>8. CASE i > Len(subs) /\ poll' = [poll EXCEPT !.pc = "wait"]
  <2>1. /\ poll'.pc = "wait" /\ poll'.subs = subs /\ poll'.good = good /\ poll'.events = e
    BY <1>3, <1>8 DEF PollShaped, PollFields
  <2>2. n = Len(subs)
    BY <1>3, <1>4, <1>8
  <2> QED BY <1>1, <1>3, <2>1, <2>2 DEF PollTold
<1>9. ASSUME poll'.pc = "subscribe", poll'.subs = subs, poll'.next = i + 1,
             Collected(subs, i, poll'.good, poll'.events)
      PROVE  PollTold'
  BY <1>1, <1>3, <1>5, <1>9 DEF PollTold
<1>10. CASE ~(i > Len(subs)) /\ subs[i] = "good" /\ poll' = [p EXCEPT !.good = g]
  <2>1. poll'.pc = "subscribe" /\ poll'.subs = subs /\ poll'.next = i + 1 /\ poll'.good = g /\ poll'.events = e
    BY <1>6, <1>10 DEF PollShaped, PollFields
  <2>2. subs[n + 1] \notin Unserved /\ g \in {good, good \cup {n + 1}}
    BY <1>5, <1>10 DEF Unserved, g
  <2> HIDE DEF n, e, subs, good, i
  <2>3. Collected(subs, n + 1, g, e)
    BY <1>3, <1>7, <1>10, <2>2, OtherCollected
  <2> QED BY <1>5, <1>9, <2>1, <2>3
<1>11. CASE ~(i > Len(subs)) /\ subs[i] \in {"clock", "long"} /\ poll' = [p EXCEPT !.clock = i]
  <2>1. poll'.pc = "subscribe" /\ poll'.subs = subs /\ poll'.next = i + 1 /\ poll'.good = good /\ poll'.events = e
    BY <1>6, <1>11 DEF PollShaped, PollFields
  <2>2. subs[n + 1] \notin Unserved
    BY <1>5, <1>11 DEF Unserved
  <2> HIDE DEF n, e, subs, good, i
  <2>3. Collected(subs, n + 1, good, e)
    BY <1>3, <1>7, <1>11, <2>2, OtherCollected
  <2> QED BY <1>5, <1>9, <2>1, <2>3
<1>12. CASE ~(i > Len(subs)) /\ subs[i] # "good" /\ poll' = [p EXCEPT !.events = r]
  <2>1. poll'.pc = "subscribe" /\ poll'.subs = subs /\ poll'.next = i + 1 /\ poll'.good = good /\ poll'.events = r
    BY <1>6, <1>12 DEF PollShaped, PollFields
  <2>2. r = e \o Event(n + 1, "error")
    BY <1>5 DEF r, x
  <2> HIDE DEF n, e, subs, good, i
  <2>3. Collected(subs, n + 1, good, r)
    BY <1>3, <1>5, <1>7, <1>12, <2>2, ErrorCollected
  <2> QED BY <1>5, <1>9, <2>1, <2>3
<1> QED BY <1>2, <1>8, <1>10, <1>11, <1>12

(* The wait ends: poll fails, its timeout is over, or descriptors answer.  *)
LEMMA WaitTold ==
  ASSUME CallInv, PollTold, Wait
  PROVE  PollTold'
<1> DEFINE subs == poll.subs
           e == poll.events
           good == poll.good
           fired == IF ClockFires THEN Event(poll.clock, "clock") ELSE <<>>
<1>1. poll.pc = "wait" /\ call' = call
  BY Zenon DEF Wait, PollOnly
<1>2. \/ ret' = "failed" /\ poll' = [poll EXCEPT !.pc = "release", !.events = e]
      \/ ~Forever /\ poll' = [poll EXCEPT !.pc = "release", !.events = e \o fired]
      \/ \E answered \in (SUBSET good) \ {{}} :
           poll' = [poll EXCEPT !.pc = "release", !.events = e \o InOrder(answered)]
  BY Zenon DEF Wait
<1>3. PollShaped(poll) /\ call.name = "poll_oneoff" /\ Collected(subs, Len(subs), good, e)
  BY <1>1 DEF CallInv, WalkInv, PollTold
<1>4. ASSUME NEW q, poll' = [poll EXCEPT !.pc = "release", !.events = q], Told(subs, q, ret')
      PROVE  PollTold'
  <2>1. poll'.pc = "release" /\ poll'.subs = subs /\ poll'.events = q
    BY <1>3, <1>4 DEF PollShaped, PollFields
  <2> QED BY <1>1, <1>3, <1>4, <2>1 DEF PollTold
<1>5. e \in Seq(Events)
  BY <1>3 DEF Collected
<1>6. CASE ret' = "failed" /\ poll' = [poll EXCEPT !.pc = "release", !.events = e]
  <2>1. Told(subs, e, ret')
    BY <1>3, <1>6, ErrorsTold
  <2> QED BY <1>4, <1>6, <2>1
<1>7. CASE ~Forever /\ poll' = [poll EXCEPT !.pc = "release", !.events = e \o fired]
  <2>1. CASE ClockFires
    <3> DEFINE x == Event(poll.clock, "clock")
    <3>1. e = <<>> /\ fired = x
      BY <2>1 DEF ClockFires
    <3>2. e \o fired = x
      BY <3>1 DEF Event
    <3>3. \A s \in DOMAIN subs : subs[s] \notin Unserved
      <4>1. Len(e) = 0
        BY <3>1
      <4>2. DOMAIN subs = 1 .. Len(subs)
        BY <1>3 DEF Collected
      <4> QED BY <1>3, <4>1, <4>2 DEF Collected
    <3>4. Told(subs, x, ret')
      BY <3>3, OneTold
    <3> QED BY <1>4, <1>7, <3>2, <3>4
  <2>2. CASE ~ClockFires
    <3>1. e # <<>>
      BY <1>7, <2>2 DEF Forever, ClockFires
    <3>2. e \o fired = e
      BY <1>5, <2>2
    <3>3. Told(subs, e, ret')
      BY <1>3, <3>1, ErrorsTold
    <3> QED BY <1>4, <1>7, <3>2, <3>3
  <2> QED BY <2>1, <2>2
<1>8. CASE \E answered \in (SUBSET good) \ {{}} :
             poll' = [poll EXCEPT !.pc = "release", !.events = e \o InOrder(answered)]
  <2>1. PICK answered \in (SUBSET good) \ {{}} :
             poll' = [poll EXCEPT !.pc = "release", !.events = e \o InOrder(answered)]
    BY <1>8
  <2>2. Told(subs, e \o InOrder(answered), ret')
    BY <1>3, AnswersTold
  <2> QED BY <1>4, <2>1, <2>2
<1> QED BY <1>2, <1>6, <1>7, <1>8

(* The buffers are given back, and the call goes on.                       *)
LEMMA EndPollTold ==
  ASSUME CallInv, PollTold, EndPoll
  PROVE  PollTold'
<1>1. UNCHANGED <<call, ret>>
  BY Zenon DEF EndPoll, PollOnly, result
<1>2. (poll.pc = "release" /\ poll' = [poll EXCEPT !.pc = "done"]) \/ poll' = poll
  BY Zenon DEF EndPoll
<1>3. PollShaped(poll)
  BY DEF CallInv, WalkInv
<1>4. CASE poll.pc = "release" /\ poll' = [poll EXCEPT !.pc = "done"]
  <2>1. poll'.pc = "done" /\ poll'.subs = poll.subs /\ poll'.events = poll.events
    BY <1>3, <1>4 DEF PollShaped, PollFields
  <2> QED BY <1>1, <1>4, <2>1 DEF PollTold
<1>5. CASE poll' = poll
  BY <1>1, <1>5 DEF PollTold
<1> QED BY <1>2, <1>4, <1>5

(* Other steps leave the poll alone.                                       *)
LEMMA PollAlone ==
  ASSUME CallStep, ~PollStep
  PROVE  poll' = poll
<1>1. CASE CheckAddress \/ CheckArgument \/ Take \/ Give \/ GetReference \/ ReleaseReference
  BY <1>1, Zenon DEF CheckAddress, CheckArgument, Take, Give, GetReference, ReleaseReference, Locals
<1>2. CASE SystemCall \/ ReportResult \/ InsertDescriptor \/ UnlessUnsupported \/ Throw \/ Randomness
  BY <1>2, Zenon DEF SystemCall, ReportResult, InsertDescriptor, UnlessUnsupported, Throw, Randomness, Locals
<1>3. CASE StartPath \/ PathFound \/ PathRefused \/ PutPath
  BY <1>3, Zenon DEF StartPath, PathFound, PathRefused, PutPath
<1>4. CASE StepPath \/ Interfere
  BY <1>4, Zenon DEF StepPath, Interfere, callVars
<1>5. CASE OpenDirectory \/ SeekDirectory \/ ReadEntry \/ EndListing
  BY <1>5, Zenon DEF OpenDirectory, SeekDirectory, ReadEntry, EndListing, ListOnly
<1> QED BY <1>1, <1>2, <1>3, <1>4, <1>5, Zenon DEF CallStep, PollStep

(* And if there is one, they leave what the call returns.                  *)
LEMMA OtherTold ==
  ASSUME CallInv, PollTold, Begin \/ Return \/ CallStep, ~PollStep
  PROVE  PollTold'
<1>1. CASE Begin
  <2>1. call = NoCall /\ poll' = poll
    BY <1>1, Zenon DEF Begin
  <2>2. poll.pc = "idle"
    BY <2>1 DEF CallInv, Fresh, NoPoll
  <2> QED BY <2>1, <2>2 DEF PollTold
<1>2. CASE Return
  <2>1. poll' = NoPoll
    BY <1>2, Zenon DEF Return
  <2>2. poll'.pc = "idle"
    BY <2>1 DEF NoPoll
  <2> QED BY <2>2 DEF PollTold
<1>3. CASE CallStep
  <2>1. call # NoCall /\ call' = call /\ poll' = poll
    BY <1>3, CallRuns, PollAlone
  <2>2. PICK A, Post, Err : \E b \in BOOLEAN : Standing(A, Post, Err, b)
    BY <2>1 DEF CallInv, Onward
  <2>3. PICK b \in BOOLEAN : Standing(A, Post, Err, b)
    BY <2>2
  <2>4. CASE ret' = ret
    BY <2>1, <2>4 DEF PollTold
  <2>5. CASE At("host") \/ At("refused") \/ At("ignored")
    <3>1. call.name \notin Silent
      BY <2>3, <2>5, StepAsked
    <3>2. poll.pc = "idle"
      BY <3>1 DEF PollTold, Silent
    <3> QED BY <2>1, <3>2 DEF PollTold
  <2>6. CASE SeekDirectory \/ ReadEntry \/ EndListing
    <3>1. At("seekdir") \/ At("readdir")
      BY <2>6, Zenon DEF SeekDirectory, ReadEntry, EndListing
    <3>2. call.name = "fd_readdir"
      BY <2>3, <3>1, ListingIs
    <3>3. poll.pc = "idle"
      BY <3>2 DEF PollTold
    <3> QED BY <2>1, <3>3 DEF PollTold
  <2>7. ~Wait
    BY DEF PollStep
  <2> QED BY <1>3, <2>4, <2>5, <2>6, <2>7, ResultSet
<1> QED BY <1>1, <1>2, <1>3

(* Every step keeps what is known of a poll.                               *)
LEMMA ToldNext == CallInv /\ PollTold /\ [Next]_vars => PollTold'
<1> SUFFICES ASSUME CallInv, PollTold, [Next]_vars PROVE PollTold'
  OBVIOUS
<1>1. CASE PollStep
  BY <1>1, StartPollTold, SubscribeTold, EndPollTold, SleepTold, WaitTold DEF PollStep
<1>2. CASE (Begin \/ Return \/ CallStep) /\ ~PollStep
  BY <1>2, OtherTold
<1>3. CASE UNCHANGED vars
  <2>1. UNCHANGED <<poll, call, ret>>
    BY <1>3, Zenon DEF vars, callVars
  <2> QED BY <2>1 DEF PollTold
<1> QED BY <1>1, <1>2, <1>3, CallSorts

(* poll_oneoff that succeeds reports at least one event, no subscription   *)
(* twice, every subscription that could not be served, and the clock only  *)
(* alone: for every list of subscriptions, however they are mixed, and     *)
(* whichever descriptors answer.                                           *)
THEOREM AlwaysPollAnswers == Spec => []PollAnswers
<1>1. Init => PollTold
  <2> SUFFICES ASSUME Init PROVE PollTold
    OBVIOUS
  <2>1. poll = NoPoll
    BY DEF Init
  <2>2. poll.pc = "idle"
    BY <2>1 DEF NoPoll
  <2> QED BY <2>2 DEF PollTold
<1>2. PollTold => PollAnswers
  <2> SUFFICES ASSUME PollTold, poll.pc = "done", ret = "ok" PROVE PollAnswers
    BY DEF PollAnswers
  <2> DEFINE e == poll.events
  <2>1. Told(poll.subs, e, "ok")
    BY DEF PollTold
  <2>2. /\ e # <<>> /\ Once(e) /\ (OfClock(e) # {} => Len(e) = 1)
        /\ \A s \in DOMAIN poll.subs : poll.subs[s] \in Unserved => s \in Reported(e)
    BY <2>1 DEF Told
  <2> QED BY <2>2, Zenon DEF PollAnswers, Once, OfClock, Unserved, Reported
<1> QED BY <1>1, <1>2, CallAlways, ToldNext, PTL DEF Spec

=============================================================================
