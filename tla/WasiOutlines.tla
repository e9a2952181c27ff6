---------------------------- MODULE WasiOutlines -----------------------------
(***************************************************************************)
(* Proofs about the programs of the WASI calls: each has an outline, which *)
(* says before each of its steps what the call has got, and every failure  *)
(* of a step is cleaned up.  No behaviour is looked at; WasiProofs relates *)
(* the outlines to the steps of the calls.                                 *)
(***************************************************************************)
EXTENDS WasiProperties, SequenceProofs

----------------------------------------------------------------------------
(* What a call has, and where it stands                                    *)

(* What a call has got besides the leases of its paths, the paths that are *)
(* leased, and the rights its references were got with.                    *)
Resources(need, leased, rights) == [need |-> need, leased |-> leased, granted |-> rights]

IsResources(r) ==
  /\ r = Resources(r.need, r.leased, r.granted)
  /\ r.need \in [Kinds -> Int] /\ r.leased \subseteq Slots
  /\ r.granted = [s \in Slots |-> r.granted[s]]

Gained(r, kind) == Resources(Plus(r.need, kind, 1), r.leased, r.granted)
Given(r, kind) == Resources(Minus(r.need, kind, 1), r.leased, r.granted)
Entitled(r, slot, rights) ==
  Resources(r.need, r.leased, [r.granted EXCEPT ![slot] = rights])
Leasing(r, slot, rights) ==
  Resources(r.need, r.leased \cup {slot}, [r.granted EXCEPT ![slot] = rights])
Returning(r, slot) ==
  Resources(r.need, r.leased \ {slot}, [r.granted EXCEPT ![slot] = {}])

(* The result and the history of the system calls, whether the directory   *)
(* stands where the program asked for, and what the call has.              *)
Stand(answer, erred, placed, r) ==
  [ret |-> answer, failed |-> erred, placed |-> placed, has |-> r]
Calm(r) == Stand("ok", FALSE, FALSE, r)
Upset(r) == Stand("failed", TRUE, FALSE, r)

----------------------------------------------------------------------------
(* What a step does to it                                                  *)

Effect(step, r) ==
  CASE step.op = "allocate" -> Gained(r, "blocks")
    [] step.op = "free" -> Given(r, "blocks")
    [] step.op = "lock" -> Gained(r, "locks")
    [] step.op = "unlock" -> Given(r, "locks")
    [] step.op \in {"close", "insert"} -> Given(r, "fds")
    [] step.op = "reference" -> Entitled(Gained(r, "references"), "fd", step.arg)
    [] step.op = "release" -> Entitled(Given(r, "references"), "fd", {})
    [] step.op = "path_get" -> Leasing(r, step.arg.slot, step.arg.rights)
    [] step.op = "path_put" -> Returning(r, step.arg)
    [] OTHER -> r

(* After the step, when it succeeds.                                       *)
After(step, c) ==
  CASE step.op = "host" ->
         {Stand("ok", c.failed, c.placed, IF step.arg = "nothing" THEN c.has ELSE Gained(c.has, step.arg)),
          Stand("failed", TRUE, c.placed, c.has)}
    [] step.op = "refused" -> {Stand("failed", TRUE, c.placed, c.has)}
    [] step.op = "ignored" -> {Stand("ok", c.failed, c.placed, c.has)}
    [] step.op \in {"report", "if_succeeded"} -> IF c.ret = "ok" THEN {c} ELSE {}
    [] step.op = "unless_unsupported" ->
         IF c.ret = "failed" THEN {Stand("failed", c.failed, c.placed, Gained(c.has, "blocks"))} ELSE {}
    [] step.op = "refuse" -> {}
    [] step.op = "poll" ->
         {c, Stand("ok", c.failed, c.placed, c.has), Stand("failed", TRUE, c.placed, c.has)}
    [] step.op = "seekdir" -> {Stand(c.ret, c.failed, TRUE, c.has)}
    [] step.op = "readdir" ->
         {Stand("ok", c.failed, c.placed, c.has), Stand("ok", TRUE, c.placed, c.has),
          Stand("failed", TRUE, c.placed, c.has)}
    [] OTHER -> {Stand(c.ret, c.failed, c.placed, Effect(step, c.has))}

(* Where it jumps.                                                         *)
Skipping(step, c) ==
  CASE step.op = "if_succeeded" -> IF c.ret = "ok" THEN {} ELSE {c}
    [] step.op = "unless_unsupported" -> {c}
    [] OTHER -> {}

(* What the call has when the step fails and the cleanup begins.           *)
Failing(step, c) ==
  CASE step.op \in {"address", "argument", "refuse", "allocate", "reference",
                    "path_get", "poll", "opendir"} -> {c.has}
    [] step.op = "report" -> IF c.ret = "ok" THEN {} ELSE {c.has}
    [] step.op = "insert" -> {Effect(step, c.has)}
    [] OTHER -> {}

----------------------------------------------------------------------------
(* What a step needs                                                       *)

(* The host may act: the object is alive, and the rights were asked for.   *)
Authorised(name, r) ==
  /\ RightsOf(name) \subseteq UNION {r.granted[s] : s \in Slots}
  /\ \/ r.need["references"] > 0 \/ r.need["locks"] > 0
     \/ r.need["references"] >= 0 /\ r.leased # {}
     \/ name \in WithoutDescriptor

Silent == {"poll_oneoff", "fd_readdir"}

Allowed(name, step, c) ==
  CASE step.op = "host" ->
         name \notin Silent /\ step.arg \in {"nothing"} \cup Kinds /\ Authorised(name, c.has)
    [] step.op \in {"refused", "ignored"} -> name \notin Silent
    [] step.op = "if_succeeded" -> step.arg \in Nat
    [] step.op = "unless_unsupported" -> name \notin Silent /\ step.arg \in Nat
    [] step.op = "throw" -> name \in {"proc_exit", "proc_raise"}
    [] step.op = "poll" -> name = "poll_oneoff"
    [] step.op \in {"opendir", "seekdir"} -> name = "fd_readdir" /\ ~c.placed /\ ~c.failed
    [] step.op = "readdir" -> name = "fd_readdir" /\ c.placed /\ ~c.failed
    [] step.op = "path_put" -> step.arg \in c.has.leased
    [] step.op = "path_get" ->
         /\ step.arg.slot \in Slots \ c.has.leased
         /\ c.has.granted[step.arg.slot] = {}
         /\ step.arg.follow \in BOOLEAN /\ step.arg.needsFinal \in BOOLEAN
    [] OTHER -> TRUE

----------------------------------------------------------------------------
(* Programs and their outlines                                             *)

IsSteps(p) == \E S : p \in Seq(S)
IsStep(s) == s = [op |-> s.op, arg |-> s.arg, undo |-> s.undo] /\ IsSteps(s.undo)
IsProgram(p) == IsSteps(p) /\ \A i \in 1 .. Len(p) : IsStep(p[i])

Cleaning == {"free", "unlock", "release", "path_put", "close"}

(* The cleanup u, begun with r, ends with something of Err.                *)
Undoing(u, B, Err) ==
  /\ B[Len(u) + 1] \in Err
  /\ \A j \in 1 .. Len(u) :
       /\ u[j].op \in Cleaning
       /\ u[j].op = "path_put" => u[j].arg \in B[j].leased
       /\ B[j + 1] = Effect(u[j], B[j])
CleansUp(u, r, Err) == \E B : Undoing(u, B, Err) /\ B[1] = r

(* A says for each step of p in which states it may begin, and in which    *)
(* the program may end; every failure is cleaned up.                       *)
Outline(name, p, A, Post, Err) ==
  /\ A[Len(p) + 1] \subseteq Post
  /\ \A i \in 1 .. Len(p) : \A c \in A[i] :
       /\ Allowed(name, p[i], c)
       /\ After(p[i], c) \subseteq A[i + 1]
       /\ Skipping(p[i], c) # {} =>
            i + 1 + p[i].arg \in 1 .. Len(p) + 1 /\ Skipping(p[i], c) \subseteq A[i + 1 + p[i].arg]
       /\ \A r \in Failing(p[i], c) : CleansUp(p[i].undo, r, Err)

(* From a state of Pre, p comes to one of Post or fails with one of Err.   *)
Leads(name, p, Pre, Post, Err) ==
  IsProgram(p) /\ \E A : Outline(name, p, A, Post, Err) /\ Pre \subseteq A[1]

----------------------------------------------------------------------------
(* Sequences of steps                                                      *)

(* Two sequences of steps, one after the other, index by index.            *)
LEMMA StepsJoined ==
  ASSUME NEW p, NEW q, IsSteps(p), IsSteps(q)
  PROVE  /\ IsSteps(p \o q) /\ Len(p) \in Nat /\ Len(q) \in Nat
         /\ Len(p \o q) = Len(p) + Len(q)
         /\ \A i \in 1 .. Len(p) : (p \o q)[i] = p[i]
         /\ \A i \in 1 .. Len(q) : (p \o q)[Len(p) + i] = q[i]
<1>1. PICK S : p \in Seq(S)
  BY DEF IsSteps
<1>2. PICK T : q \in Seq(T)
  BY DEF IsSteps
<1> DEFINE U == S \cup T
<1>3. p \in Seq(U) /\ q \in Seq(U)
  BY <1>1, <1>2
<1> HIDE DEF U
<1>4. p \o q \in Seq(U) /\ Len(p \o q) = Len(p) + Len(q) /\ Len(p) \in Nat /\ Len(q) \in Nat
  BY <1>3
<1>5. \A i \in 1 .. Len(p) : (p \o q)[i] = p[i]
  BY <1>3
<1>6. \A i \in 1 .. Len(q) : (p \o q)[Len(p) + i] = q[i]
  BY <1>3
<1> QED BY <1>4, <1>5, <1>6 DEF IsSteps

(* An index past the first sequence is one of the second.                  *)
LEMMA StepsAfter ==
  ASSUME NEW p, NEW q, IsSteps(p), IsSteps(q), NEW i \in 1 .. Len(p \o q), i \notin 1 .. Len(p)
  PROVE  i - Len(p) \in 1 .. Len(q) /\ (p \o q)[i] = q[i - Len(p)]
<1>1. i - Len(p) \in 1 .. Len(q) /\ Len(p) + (i - Len(p)) = i
  BY StepsJoined
<1> QED BY <1>1, StepsJoined

(* Programs one after the other are a program.                             *)
LEMMA ProgramJoined ==
  ASSUME NEW p, NEW q, IsProgram(p), IsProgram(q)
  PROVE  IsProgram(p \o q)
<1>1. IsSteps(p) /\ IsSteps(q) /\ IsSteps(p \o q)
  BY StepsJoined DEF IsProgram
<1>2. ASSUME NEW i \in 1 .. Len(p \o q) PROVE IsStep((p \o q)[i])
  <2>1. CASE i \in 1 .. Len(p)
    BY <1>1, <2>1, StepsJoined DEF IsProgram
  <2>2. CASE i \notin 1 .. Len(p)
    BY <1>1, <2>2, StepsAfter DEF IsProgram
  <2> QED BY <2>1, <2>2
<1> QED BY <1>1, <1>2 DEF IsProgram

(* One outline after the other: what the first ends with, the second       *)
(* begins with.                                                            *)
Spliced(B, C, m, n) == [j \in 1 .. m + n + 1 |-> IF j <= m THEN B[j] ELSE C[j - m]]

(* An outline that is spliced keeps the entries of the first ...           *)
LEMMA SplicedFirst ==
  ASSUME NEW B, NEW C, NEW m, NEW n, m \in Nat, n \in Nat, NEW j, j \in 1 .. m
  PROVE  Spliced(B, C, m, n)[j] = B[j]
BY DEF Spliced

(* ... and those of the second.                                            *)
LEMMA SplicedSecond ==
  ASSUME NEW B, NEW C, NEW m, NEW n, m \in Nat, n \in Nat, NEW j, j \in 1 .. n + 1
  PROVE  Spliced(B, C, m, n)[m + j] = C[j]
<1>1. m + j \in 1 .. m + n + 1 /\ ~ (m + j <= m) /\ m + j - m = j
  OBVIOUS
<1> QED BY <1>1 DEF Spliced

(* One cleanup after the other.                                            *)
LEMMA CleansUpJoined ==
  ASSUME NEW u, NEW v, IsSteps(u), IsSteps(v), NEW r, NEW Err, NEW Err2,
         CleansUp(u, r, Err), \A s \in Err : CleansUp(v, s, Err2)
  PROVE  CleansUp(u \o v, r, Err2)
<1> DEFINE w == u \o v  m == Len(u)  n == Len(v)
<1>1. PICK B : Undoing(u, B, Err) /\ B[1] = r
  BY DEF CleansUp
<1>2. PICK C : Undoing(v, C, Err2) /\ C[1] = B[m + 1]
  BY <1>1 DEF CleansUp, Undoing
<1>3. m \in Nat /\ n \in Nat /\ Len(w) = m + n
  BY StepsJoined
<1> DEFINE D == Spliced(B, C, m, n)
<1>0. /\ \A j \in 1 .. m : D[j] = B[j]
      /\ \A j \in 1 .. n + 1 : D[m + j] = C[j]
  BY <1>3, SplicedFirst, SplicedSecond
<1>8. D[m + 1] = C[1]
  BY <1>0, <1>3
<1> HIDE DEF D
<1>4. D[1] = r
  <2>1. CASE m = 0
    BY <1>1, <1>2, <1>8, <2>1
  <2>2. CASE m # 0
    BY <1>0, <1>1, <1>3, <2>2
  <2> QED BY <2>1, <2>2
<1>5. D[Len(w) + 1] = C[n + 1]
  <2>1. n + 1 \in 1 .. n + 1 /\ m + (n + 1) = Len(w) + 1
    BY <1>3
  <2> QED BY <1>0, <2>1
<1>6. ASSUME NEW j \in 1 .. Len(w)
      PROVE  /\ w[j].op \in Cleaning
             /\ w[j].op = "path_put" => w[j].arg \in D[j].leased
             /\ D[j + 1] = Effect(w[j], D[j])
  <2>1. CASE j \in 1 .. m
    <3>1. w[j] = u[j] /\ D[j] = B[j]
      BY <1>0, <2>1, StepsJoined
    <3>2. D[j + 1] = B[j + 1]
      <4>1. CASE j = m
        BY <1>2, <1>8, <4>1
      <4>2. CASE j # m
        BY <1>0, <1>3, <2>1, <4>2
      <4> QED BY <4>1, <4>2
    <3> QED BY <1>1, <2>1, <3>1, <3>2 DEF Undoing
  <2>2. CASE j \notin 1 .. m
    <3> DEFINE i == j - m
    <3>1. i \in 1 .. n /\ w[j] = v[i]
      BY <2>2, StepsAfter
    <3>2. m + i = j /\ m + (i + 1) = j + 1 /\ i \in 1 .. n + 1 /\ i + 1 \in 1 .. n + 1
      BY <1>3, <3>1
    <3> HIDE DEF i
    <3>3. D[j] = C[i] /\ D[j + 1] = C[i + 1]
      BY <1>0, <3>2
    <3> QED BY <1>2, <3>1, <3>3 DEF Undoing
  <2> QED BY <2>1, <2>2
<1>7. Undoing(w, D, Err2)
  BY <1>2, <1>5, <1>6 DEF Undoing
<1> QED BY <1>4, <1>7 DEF CleansUp

(* No cleanup.                                                             *)
LEMMA CleansUpNothing ==
  ASSUME NEW r, NEW Err, r \in Err
  PROVE  CleansUp(<<>>, r, Err)
<1> DEFINE B == [j \in {1} |-> r]
<1>1. Undoing(<<>>, B, Err)
  BY DEF Undoing
<1>2. B[1] = r
  OBVIOUS
<1> QED BY <1>1, <1>2 DEF CleansUp

(* One step of a cleanup.                                                  *)
LEMMA CleansUpStep ==
  ASSUME NEW op \in Cleaning, NEW arg, NEW r, NEW Err,
         op = "path_put" => arg \in r.leased,
         Effect([op |-> op, arg |-> arg, undo |-> <<>>], r) \in Err
  PROVE  CleansUp(Step(op, arg), r, Err)
<1> DEFINE s == [op |-> op, arg |-> arg, undo |-> <<>>]
           B == [j \in {1, 2} |-> IF j = 1 THEN r ELSE Effect(s, r)]
<1>1. Step(op, arg) = <<s>> /\ Len(<<s>>) = 1 /\ <<s>>[1] = s
  BY DEF Step
<1>2. B[1] = r /\ B[2] = Effect(s, r)
  OBVIOUS
<1>3. s.op = op /\ s.arg = arg
  OBVIOUS
<1> HIDE DEF s, B
<1>4. Undoing(<<s>>, B, Err)
  <2>1. \A j \in 1 .. Len(<<s>>) : j = 1 /\ <<s>>[j] = s /\ j + 1 = 2
    BY <1>1
  <2>2. Effect(s, r) \in Err
    BY DEF s
  <2> QED BY <1>1, <1>2, <1>3, <2>1, <2>2 DEF Undoing
<1> QED BY <1>1, <1>2, <1>4 DEF CleansUp

----------------------------------------------------------------------------
(* Programs that lead from one state to another                            *)

(* What an outline says of one step.                                       *)
LEMMA OutlineStep ==
  ASSUME NEW name, NEW p, NEW A, NEW Post, NEW Err, Outline(name, p, A, Post, Err),
         NEW i, i \in 1 .. Len(p), NEW c, c \in A[i]
  PROVE  /\ Allowed(name, p[i], c)
         /\ After(p[i], c) \subseteq A[i + 1]
         /\ Skipping(p[i], c) # {} =>
              i + 1 + p[i].arg \in 1 .. Len(p) + 1 /\ Skipping(p[i], c) \subseteq A[i + 1 + p[i].arg]
         /\ \A r \in Failing(p[i], c) : CleansUp(p[i].undo, r, Err)
BY DEF Outline

(* A jump of the second part, counted from the start of the first.         *)
LEMMA Shifted ==
  ASSUME NEW i, NEW j, NEW m, NEW a, j \in Nat, m \in Nat, a \in Nat, m + j = i
  PROVE  i + 1 + a = m + (j + 1 + a)
OBVIOUS

(* One program after the other.                                            *)
LEMMA LeadsJoined ==
  ASSUME NEW name, NEW p, NEW q, NEW Pre, NEW Mid, NEW Post, NEW Err,
         Leads(name, p, Pre, Mid, Err), Leads(name, q, Mid, Post, Err)
  PROVE  Leads(name, p \o q, Pre, Post, Err)
<1> DEFINE w == p \o q  m == Len(p)  n == Len(q)
<1>1. PICK B : Outline(name, p, B, Mid, Err) /\ Pre \subseteq B[1]
  BY DEF Leads
<1>2. PICK C : Outline(name, q, C, Post, Err) /\ Mid \subseteq C[1]
  BY DEF Leads
<1>3. IsProgram(p) /\ IsProgram(q) /\ IsSteps(p) /\ IsSteps(q) /\ IsProgram(w)
  BY ProgramJoined DEF Leads, IsProgram
<1>4. m \in Nat /\ n \in Nat /\ Len(w) = m + n
  BY <1>3, StepsJoined
<1> DEFINE A == Spliced(B, C, m, n)
<1>5. /\ \A j \in 1 .. m : A[j] = B[j]
      /\ \A j \in 1 .. n + 1 : A[m + j] = C[j]
  BY <1>4, SplicedFirst, SplicedSecond
<1> HIDE DEF A
<1>6. A[m + 1] = C[1] /\ B[m + 1] \subseteq A[m + 1]
  BY <1>1, <1>2, <1>4, <1>5 DEF Outline
<1>7. ASSUME NEW j \in 1 .. m + 1 PROVE B[j] \subseteq A[j]
  BY <1>4, <1>5, <1>6
<1>8. A[Len(w) + 1] \subseteq Post
  <2>1. n + 1 \in 1 .. n + 1 /\ m + (n + 1) = Len(w) + 1
    BY <1>4
  <2>2. A[Len(w) + 1] = C[n + 1]
    BY <1>5, <2>1
  <2> QED BY <1>2, <2>2 DEF Outline
<1>9. ASSUME NEW i \in 1 .. Len(w), NEW c \in A[i]
      PROVE  /\ Allowed(name, w[i], c)
             /\ After(w[i], c) \subseteq A[i + 1]
             /\ Skipping(w[i], c) # {} =>
                  /\ i + 1 + w[i].arg \in 1 .. Len(w) + 1
                  /\ Skipping(w[i], c) \subseteq A[i + 1 + w[i].arg]
             /\ \A r \in Failing(w[i], c) : CleansUp(w[i].undo, r, Err)
  <2>1. CASE i \in 1 .. m
    <3>1. w[i] = p[i] /\ A[i] = B[i]
      BY <1>3, <1>5, <2>1, StepsJoined
    <3>2. /\ Allowed(name, p[i], c)
          /\ After(p[i], c) \subseteq B[i + 1]
          /\ Skipping(p[i], c) # {} =>
               i + 1 + p[i].arg \in 1 .. m + 1 /\ Skipping(p[i], c) \subseteq B[i + 1 + p[i].arg]
          /\ \A r \in Failing(p[i], c) : CleansUp(p[i].undo, r, Err)
      BY <1>1, <1>9, <2>1, <3>1, OutlineStep
    <3>3. B[i + 1] \subseteq A[i + 1]
      BY <1>4, <1>7, <2>1
    <3>4. ASSUME Skipping(p[i], c) # {}
          PROVE  /\ i + 1 + p[i].arg \in 1 .. Len(w) + 1
                 /\ Skipping(p[i], c) \subseteq A[i + 1 + p[i].arg]
      BY <1>4, <1>7, <3>2, <3>4
    <3> HIDE DEF w, m, n
    <3> QED BY <3>1, <3>2, <3>3, <3>4
  <2>2. CASE i \notin 1 .. m
    <3> DEFINE j == i - m
    <3>1. j \in 1 .. n /\ w[i] = q[j] /\ m + j = i /\ m + (j + 1) = i + 1
      BY <1>3, <1>4, <2>2, StepsAfter
    <3>2. A[i] = C[j] /\ A[i + 1] = C[j + 1]
      <4>1. j \in 1 .. n + 1 /\ j + 1 \in 1 .. n + 1
        BY <1>4, <3>1
      <4> HIDE DEF j
      <4> QED BY <1>5, <3>1, <4>1
    <3> HIDE DEF j
    <3>3. /\ Allowed(name, q[j], c)
          /\ After(q[j], c) \subseteq C[j + 1]
          /\ Skipping(q[j], c) # {} =>
               j + 1 + q[j].arg \in 1 .. n + 1 /\ Skipping(q[j], c) \subseteq C[j + 1 + q[j].arg]
          /\ \A r \in Failing(q[j], c) : CleansUp(q[j].undo, r, Err)
      BY <1>2, <1>9, <3>1, <3>2, OutlineStep
    <3>4. ASSUME Skipping(q[j], c) # {}
          PROVE  /\ i + 1 + q[j].arg \in 1 .. Len(w) + 1
                 /\ Skipping(q[j], c) \subseteq A[i + 1 + q[j].arg]
      <4> DEFINE k == j + 1 + q[j].arg
      <4>1. k \in 1 .. n + 1 /\ Skipping(q[j], c) \subseteq C[k]
        BY <3>3, <3>4
      <4>2. A[m + k] = C[k] /\ m + k \in 1 .. Len(w) + 1
        BY <1>4, <1>5, <4>1
      <4>3. Allowed(name, q[j], c) /\ q[j].arg \in Nat
        BY <3>3, <3>4 DEF Allowed, Skipping
      <4>4. j \in Nat
        BY <1>4, <3>1
      <4>5. i + 1 + q[j].arg = m + k
        <5> DEFINE a == q[j].arg
        <5>1. m \in Nat /\ j \in Nat /\ a \in Nat /\ m + j = i
          BY <1>4, <3>1, <4>3, <4>4
        <5> HIDE DEF m, n, w, a
        <5>2. i + 1 + a = m + (j + 1 + a)
          BY <5>1, Shifted
        <5> QED BY <5>2 DEF a
      <4> QED BY <4>1, <4>2, <4>5
    <3> HIDE DEF w, m, n
    <3> QED BY <3>1, <3>2, <3>3, <3>4
  <2> QED BY <2>1, <2>2
<1>10. Outline(name, w, A, Post, Err)
  BY <1>8, <1>9 DEF Outline
<1>11. Pre \subseteq A[1]
  BY <1>1, <1>4, <1>7
<1> QED BY <1>3, <1>10, <1>11 DEF Leads

(* Less is known before, more is allowed after.                            *)
LEMMA LeadsWeaker ==
  ASSUME NEW name, NEW p, NEW Pre, NEW Post, NEW Err, NEW Pre2, NEW Post2, NEW Err2,
         Leads(name, p, Pre, Post, Err),
         Pre2 \subseteq Pre, Post \subseteq Post2, Err \subseteq Err2
  PROVE  Leads(name, p, Pre2, Post2, Err2)
<1>1. PICK A : Outline(name, p, A, Post, Err) /\ Pre \subseteq A[1]
  BY DEF Leads
<1>2. ASSUME NEW u, NEW r, CleansUp(u, r, Err) PROVE CleansUp(u, r, Err2)
  BY <1>2 DEF CleansUp, Undoing
<1>3. Outline(name, p, A, Post2, Err2)
  BY <1>1, <1>2 DEF Outline
<1> QED BY <1>1, <1>3 DEF Leads

(* The program may begin in a state of either set.                         *)
LEMMA LeadsEither ==
  ASSUME NEW name, NEW p, NEW Pre, NEW Pre2, NEW Post, NEW Err,
         Leads(name, p, Pre, Post, Err), Leads(name, p, Pre2, Post, Err)
  PROVE  Leads(name, p, Pre \cup Pre2, Post, Err)
<1>1. PICK B : Outline(name, p, B, Post, Err) /\ Pre \subseteq B[1]
  BY DEF Leads
<1>2. PICK C : Outline(name, p, C, Post, Err) /\ Pre2 \subseteq C[1]
  BY DEF Leads
<1>3. IsProgram(p) /\ Len(p) \in Nat
  BY StepsJoined DEF Leads, IsProgram
<1> DEFINE A == [i \in 1 .. Len(p) + 1 |-> B[i] \cup C[i]]
<1>4. ASSUME NEW i \in 1 .. Len(p) + 1 PROVE A[i] = B[i] \cup C[i]
  OBVIOUS
<1> HIDE DEF A
<1>5. A[Len(p) + 1] \subseteq Post
  BY <1>1, <1>2, <1>3, <1>4 DEF Outline
<1>6. ASSUME NEW i \in 1 .. Len(p), NEW c \in A[i]
      PROVE  /\ Allowed(name, p[i], c)
             /\ After(p[i], c) \subseteq A[i + 1]
             /\ Skipping(p[i], c) # {} =>
                  /\ i + 1 + p[i].arg \in 1 .. Len(p) + 1
                  /\ Skipping(p[i], c) \subseteq A[i + 1 + p[i].arg]
             /\ \A r \in Failing(p[i], c) : CleansUp(p[i].undo, r, Err)
  <2>1. i \in 1 .. Len(p) + 1 /\ i + 1 \in 1 .. Len(p) + 1
    BY <1>3
  <2>2. c \in B[i] \/ c \in C[i]
    BY <1>4, <1>6, <2>1
  <2>3. CASE c \in B[i]
    <3>1. /\ Allowed(name, p[i], c)
          /\ After(p[i], c) \subseteq B[i + 1]
          /\ Skipping(p[i], c) # {} =>
               i + 1 + p[i].arg \in 1 .. Len(p) + 1 /\ Skipping(p[i], c) \subseteq B[i + 1 + p[i].arg]
          /\ \A r \in Failing(p[i], c) : CleansUp(p[i].undo, r, Err)
      BY <1>1, <2>3, OutlineStep
    <3> QED BY <1>4, <2>1, <3>1
  <2>4. CASE c \in C[i]
    <3>1. /\ Allowed(name, p[i], c)
          /\ After(p[i], c) \subseteq C[i + 1]
          /\ Skipping(p[i], c) # {} =>
               i + 1 + p[i].arg \in 1 .. Len(p) + 1 /\ Skipping(p[i], c) \subseteq C[i + 1 + p[i].arg]
          /\ \A r \in Failing(p[i], c) : CleansUp(p[i].undo, r, Err)
      BY <1>2, <2>4, OutlineStep
    <3> QED BY <1>4, <2>1, <3>1
  <2> QED BY <2>2, <2>3, <2>4
<1>7. Outline(name, p, A, Post, Err)
  BY <1>5, <1>6 DEF Outline
<1>8. Pre \cup Pre2 \subseteq A[1]
  BY <1>1, <1>2, <1>3, <1>4
<1> QED BY <1>3, <1>7, <1>8 DEF Leads

(* Every error passes through the cleanup.                                 *)
LEMMA LeadsWithin ==
  ASSUME NEW name, NEW p, NEW Pre, NEW Post, NEW Err, NEW Err2, NEW cleanup,
         Leads(name, p, Pre, Post, Err), IsSteps(cleanup),
         \A r \in Err : CleansUp(cleanup, r, Err2)
  PROVE  Leads(name, Within(cleanup, p), Pre, Post, Err2)
<1> DEFINE w == Within(cleanup, p)
<1>1. PICK A : Outline(name, p, A, Post, Err) /\ Pre \subseteq A[1]
  BY DEF Leads
<1>2. PICK S : p \in Seq(S)
  BY DEF Leads, IsProgram, IsSteps
<1>3. DOMAIN p = 1 .. Len(p) /\ Len(p) \in Nat
  BY <1>2
<1>4. ASSUME NEW i \in 1 .. Len(p)
      PROVE  /\ IsStep(p[i])
             /\ w[i] = [op |-> p[i].op, arg |-> p[i].arg, undo |-> p[i].undo \o cleanup]
  <2>1. IsStep(p[i])
    BY DEF Leads, IsProgram
  <2>2. w[i] = [p[i] EXCEPT !.undo = @ \o cleanup]
    BY <1>3 DEF Within
  <2>3. p[i] = [op |-> p[i].op, arg |-> p[i].arg, undo |-> p[i].undo]
    BY <2>1 DEF IsStep
  <2> HIDE DEF w
  <2> DEFINE u == p[i].undo \o cleanup
  <2>4. w[i] = [p[i] EXCEPT !.undo = u]
    BY <2>2
  <2> HIDE DEF w, u
  <2>5. w[i] = [op |-> p[i].op, arg |-> p[i].arg, undo |-> u]
    BY <2>3, <2>4
  <2> QED BY <2>1, <2>5 DEF u
<1>5. w \in Seq({w[i] : i \in 1 .. Len(p)}) /\ Len(w) = Len(p)
  <2>1. w = [i \in 1 .. Len(p) |-> w[i]]
    BY <1>3 DEF Within
  <2> HIDE DEF w
  <2>2. w \in [1 .. Len(p) -> {w[i] : i \in 1 .. Len(p)}]
    BY <2>1
  <2> QED BY <1>3, <2>2
<1> HIDE DEF w
<1>6. IsProgram(w)
  <2>1. ASSUME NEW i \in 1 .. Len(p) PROVE IsStep(w[i])
    <3> DEFINE u == p[i].undo \o cleanup
    <3>1. IsSteps(u)
      BY <1>4, StepsJoined DEF IsStep
    <3>2. w[i] = [op |-> p[i].op, arg |-> p[i].arg, undo |-> u]
      BY <1>4
    <3> HIDE DEF u
    <3> QED BY <3>1, <3>2 DEF IsStep
  <2> QED BY <1>5, <2>1 DEF IsProgram, IsSteps
<1>7. ASSUME NEW i \in 1 .. Len(p), NEW c
      PROVE  /\ Allowed(name, w[i], c) <=> Allowed(name, p[i], c)
             /\ After(w[i], c) = After(p[i], c)
             /\ Skipping(w[i], c) = Skipping(p[i], c)
             /\ Failing(w[i], c) = Failing(p[i], c)
             /\ w[i].arg = p[i].arg /\ w[i].undo = p[i].undo \o cleanup
  <2> DEFINE u == p[i].undo \o cleanup
  <2>0. w[i] = [op |-> p[i].op, arg |-> p[i].arg, undo |-> u]
    BY <1>4
  <2> HIDE DEF u
  <2>7. w[i].op = p[i].op /\ w[i].arg = p[i].arg /\ w[i].undo = u
    BY <2>0
  <2>1. w[i].op = p[i].op /\ w[i].arg = p[i].arg /\ w[i].undo = p[i].undo \o cleanup
    BY <2>7 DEF u
  <2>2. \A r : Effect(w[i], r) = Effect(p[i], r)
    BY <2>1 DEF Effect
  <2>3. Allowed(name, w[i], c) <=> Allowed(name, p[i], c)
    BY <2>1 DEF Allowed
  <2>4. After(w[i], c) = After(p[i], c)
    BY <2>1, <2>2 DEF After
  <2>5. Skipping(w[i], c) = Skipping(p[i], c)
    BY <2>1 DEF Skipping
  <2>6. Failing(w[i], c) = Failing(p[i], c)
    BY <2>1, <2>2 DEF Failing
  <2> QED BY <2>1, <2>3, <2>4, <2>5, <2>6
<1>8. ASSUME NEW i \in 1 .. Len(p), NEW r, CleansUp(p[i].undo, r, Err)
      PROVE  CleansUp(w[i].undo, r, Err2)
  <2>1. IsSteps(p[i].undo)
    BY <1>4 DEF IsStep
  <2>2. CleansUp(p[i].undo \o cleanup, r, Err2)
    BY <1>8, <2>1, CleansUpJoined
  <2> QED BY <1>7, <2>2
<1>9. Outline(name, w, A, Post, Err2)
  <2>1. A[Len(w) + 1] \subseteq Post
    BY <1>1, <1>5 DEF Outline
  <2>2. ASSUME NEW i \in 1 .. Len(w), NEW c \in A[i]
        PROVE  /\ Allowed(name, w[i], c)
               /\ After(w[i], c) \subseteq A[i + 1]
               /\ Skipping(w[i], c) # {} =>
                    /\ i + 1 + w[i].arg \in 1 .. Len(w) + 1
                    /\ Skipping(w[i], c) \subseteq A[i + 1 + w[i].arg]
               /\ \A r \in Failing(w[i], c) : CleansUp(w[i].undo, r, Err2)
    <3>1. i \in 1 .. Len(p)
      BY <1>5
    <3>2. /\ Allowed(name, p[i], c)
          /\ After(p[i], c) \subseteq A[i + 1]
          /\ Skipping(p[i], c) # {} =>
               i + 1 + p[i].arg \in 1 .. Len(p) + 1 /\ Skipping(p[i], c) \subseteq A[i + 1 + p[i].arg]
          /\ \A r \in Failing(p[i], c) : CleansUp(p[i].undo, r, Err)
      BY <1>1, <2>2, <3>1, OutlineStep
    <3> QED BY <1>5, <1>7, <1>8, <3>1, <3>2
  <2> QED BY <2>1, <2>2 DEF Outline
<1>10. Leads(name, w, Pre, Post, Err2)
  BY <1>1, <1>6, <1>9 DEF Leads
<1> QED BY <1>10 DEF w

(* A single step.                                                          *)
LEMMA LeadsStep ==
  ASSUME NEW name, NEW op, NEW arg, NEW Pre, NEW Post, NEW Err,
         \A c \in Pre :
           LET s == [op |-> op, arg |-> arg, undo |-> <<>>]
           IN  /\ Allowed(name, s, c) /\ After(s, c) \subseteq Post
               /\ Skipping(s, c) = {} /\ Failing(s, c) \subseteq Err
  PROVE  Leads(name, Step(op, arg), Pre, Post, Err)
<1> DEFINE s == [op |-> op, arg |-> arg, undo |-> <<>>]
           p == <<s>>
           A == [i \in {1, 2} |-> IF i = 1 THEN Pre ELSE Post]
<1>1. Step(op, arg) = p
  BY DEF Step
<1>2. p \in Seq({s}) /\ Len(p) = 1 /\ p[1] = s /\ A[1] = Pre /\ A[2] = Post
  OBVIOUS
<1>3. s.op = op /\ s.arg = arg /\ s.undo = <<>>
  OBVIOUS
<1>4. IsProgram(p)
  <2>1. <<>> \in Seq({})
    OBVIOUS
  <2>2. IsStep(s)
    BY <2>1 DEF IsStep, IsSteps
  <2> HIDE DEF s, p
  <2>3. \A i \in 1 .. Len(p) : i = 1
    BY <1>2
  <2> QED BY <1>2, <2>2, <2>3 DEF IsProgram, IsSteps
<1>5. \A c \in Pre : /\ Allowed(name, s, c) /\ After(s, c) \subseteq Post
                     /\ Skipping(s, c) = {} /\ Failing(s, c) \subseteq Err
  OBVIOUS
<1> HIDE DEF s, p, A
<1>6. Outline(name, p, A, Post, Err)
  <2>1. \A i \in 1 .. Len(p) : i = 1 /\ i + 1 = 2
    BY <1>2
  <2>2. \A r \in Err : CleansUp(s.undo, r, Err)
    BY <1>3, CleansUpNothing
  <2>3. A[Len(p) + 1] \subseteq Post
    BY <1>2
  <2> QED BY <1>2, <1>5, <2>1, <2>2, <2>3 DEF Outline
<1> QED BY <1>1, <1>2, <1>4, <1>6 DEF Leads

(* No step.                                                                *)
LEMMA LeadsNowhere ==
  ASSUME NEW name, NEW Pre, NEW Err
  PROVE  Leads(name, <<>>, Pre, Pre, Err)
<1> DEFINE A == [i \in {1} |-> Pre]
<1>1. A[1] = Pre /\ Len(<<>>) = 0
  OBVIOUS
<1>2. Outline(name, <<>>, A, Pre, Err)
  BY <1>1 DEF Outline
<1>3. <<>> \in Seq({})
  OBVIOUS
<1>4. IsProgram(<<>>)
  BY <1>1, <1>3 DEF IsProgram, IsSteps
<1> QED BY <1>1, <1>2, <1>4 DEF Leads

----------------------------------------------------------------------------
(* Getting and giving back                                                 *)

(* Getting one of a kind and giving it back changes nothing.               *)
LEMMA GainedGiven ==
  ASSUME NEW r, IsResources(r), NEW kind, kind \in Kinds
  PROVE  /\ IsResources(Gained(r, kind)) /\ Given(Gained(r, kind), kind) = r
         /\ Gained(r, kind).need[kind] = r.need[kind] + 1
         /\ Gained(r, kind).leased = r.leased /\ Gained(r, kind).granted = r.granted
         /\ \A k \in Kinds \ {kind} : Gained(r, kind).need[k] = r.need[k]
<1> DEFINE n == r.need  g == Plus(n, kind, 1)
<1>1. n \in [Kinds -> Int]
  BY DEF IsResources
<1>2. g \in [Kinds -> Int] /\ g[kind] = n[kind] + 1 /\ \A k \in Kinds \ {kind} : g[k] = n[k]
  BY <1>1 DEF Plus
<1> HIDE DEF n, g
<1>3. Minus(g, kind, 1) = n
  <2> DEFINE m == Minus(g, kind, 1)
  <2>1. m \in [Kinds -> Int] /\ m[kind] = g[kind] - 1 /\ \A k \in Kinds \ {kind} : m[k] = g[k]
    BY <1>2 DEF Minus
  <2> HIDE DEF m
  <2>2. \A k \in Kinds : m[k] = n[k]
    BY <1>1, <1>2, <2>1
  <2>3. m = n
    BY <1>1, <2>1, <2>2
  <2> QED BY <2>3 DEF m
<1>4. Gained(r, kind) = Resources(g, r.leased, r.granted)
  BY DEF Gained, g, n
<1>5. Given(Gained(r, kind), kind) = Resources(n, r.leased, r.granted)
  BY <1>3, <1>4 DEF Given, Resources
<1> QED BY <1>2, <1>4, <1>5 DEF IsResources, Resources, n

(* Nothing was leased or granted yet.                                      *)
NoRights == [s \in Slots |-> {}]
Base(r) ==
  /\ IsResources(r) /\ r.leased = {} /\ r.granted = NoRights
  /\ \A k \in Kinds : r.need[k] >= 0

(* With one more of a kind, still nothing is leased or granted.            *)
LEMMA GainedBase ==
  ASSUME NEW r, Base(r), NEW kind, kind \in Kinds
  PROVE  Base(Gained(r, kind))
<1>1. IsResources(r) /\ r.need \in [Kinds -> Int]
  BY DEF Base, IsResources
<1>2. \A k \in Kinds : Gained(r, kind).need[k] >= 0
  BY <1>1, GainedGiven DEF Base
<1> QED BY <1>1, <1>2, GainedGiven DEF Base

(* A reference, got with some rights.                                      *)
Referring(r, rights) == Entitled(Gained(r, "references"), "fd", rights)

(* A reference can be used, and giving it back changes nothing.            *)
LEMMA ReferringBase ==
  ASSUME NEW r, Base(r), NEW rights
  PROVE  /\ Referring(r, rights).need["references"] > 0
         /\ Referring(r, rights).granted["fd"] = rights
         /\ Referring(r, rights).leased = {}
         /\ IsResources(Referring(r, rights))
         /\ Entitled(Given(Referring(r, rights), "references"), "fd", {}) = r
<1> DEFINE g == Gained(r, "references")  e == [g.granted EXCEPT !["fd"] = rights]
<1>0. "references" \in Kinds /\ "fd" \in Slots
  BY DEF Kinds, Slots
<1>1. /\ IsResources(r) /\ r.granted = NoRights
      /\ r.need \in [Kinds -> Int] /\ r.need["references"] >= 0 /\ r.leased = {}
      /\ r = Resources(r.need, r.leased, r.granted)
  BY <1>0 DEF Base, IsResources
<1>2. /\ IsResources(g) /\ Given(g, "references") = r /\ g.leased = {} /\ g.granted = NoRights
      /\ g.need["references"] = r.need["references"] + 1
  BY <1>0, <1>1, GainedGiven
<1>3. Referring(r, rights) = Resources(g.need, g.leased, e)
  BY DEF Referring, Entitled
<1>4. e = [s \in Slots |-> e[s]] /\ e["fd"] = rights /\ [e EXCEPT !["fd"] = {}] = NoRights
  <2>1. e = [NoRights EXCEPT !["fd"] = rights]
    BY <1>2
  <2> HIDE DEF g, e
  <2>2. e = [s \in Slots |-> e[s]] /\ e["fd"] = rights /\ \A s \in Slots : s # "fd" => e[s] = {}
    BY <1>0, <2>1 DEF NoRights
  <2>3. [e EXCEPT !["fd"] = {}] = NoRights
    BY <1>0, <2>2 DEF NoRights
  <2> QED BY <2>2, <2>3
<1> HIDE DEF g, e
<1>9. g.need \in [Kinds -> Int] /\ g.need["references"] > 0
  BY <1>0, <1>1, <1>2 DEF IsResources
<1>5. Minus(g.need, "references", 1) = r.need
  BY <1>1, <1>2 DEF Given, Resources
<1>6. Given(Referring(r, rights), "references") = Resources(r.need, g.leased, e)
  BY <1>3, <1>5 DEF Given, Resources
<1>7. Entitled(Resources(r.need, g.leased, e), "fd", {}) = Resources(r.need, r.leased, r.granted)
  BY <1>1, <1>2, <1>4 DEF Entitled, Resources
<1>8. /\ Referring(r, rights).need = g.need /\ Referring(r, rights).leased = {}
      /\ Referring(r, rights).granted = e
  BY <1>2, <1>3 DEF Resources
<1>10. IsResources(Referring(r, rights))
  <2>1. {} \subseteq Slots
    OBVIOUS
  <2>2. Referring(r, rights) = Resources(g.need, {}, e)
    BY <1>2, <1>3
  <2> QED BY <1>4, <1>8, <1>9, <2>1, <2>2 DEF IsResources
<1>11. Entitled(Given(Referring(r, rights), "references"), "fd", {}) = r
  BY <1>1, <1>6, <1>7
<1> QED BY <1>4, <1>8, <1>9, <1>10, <1>11

----------------------------------------------------------------------------
(* Single steps                                                            *)

(* The call ends as it began, and a failure leaves what it had.            *)
Balanced(name, p, r) == Leads(name, p, {Calm(r)}, {Calm(r)}, {r})

(* The host answers: the call goes on either way.                          *)
Asked(name, p, r) == Leads(name, p, {Calm(r)}, {Calm(r), Upset(r)}, {})

(* A check that refuses the call.                                          *)
LEMMA ChecksLead ==
  ASSUME NEW name, NEW r
  PROVE  Balanced(name, Address, r) /\ Balanced(name, Argument, r)
<1>1. Leads(name, Step("address", {}), {Calm(r)}, {Calm(r)}, {r})
  BY LeadsStep DEF Allowed, After, Skipping, Failing, Effect, Calm, Stand
<1>2. Leads(name, Step("argument", {}), {Calm(r)}, {Calm(r)}, {r})
  BY LeadsStep DEF Allowed, After, Skipping, Failing, Effect, Calm, Stand
<1> QED BY <1>1, <1>2 DEF Balanced, Address, Argument

(* The steps of the programs, one lemma each: an allocation.               *)
LEMMA AllocateLeads ==
  ASSUME NEW name, NEW r
  PROVE  Leads(name, Allocate, {Calm(r)}, {Calm(Gained(r, "blocks"))}, {r})
BY LeadsStep DEF Allocate, Allowed, After, Skipping, Failing, Effect, Calm, Stand

(* The lock of the table is taken ...                                      *)
LEMMA LockLeads ==
  ASSUME NEW name, NEW a, NEW f, NEW b, NEW r
  PROVE  Leads(name, Lock, {Stand(a, f, b, r)}, {Stand(a, f, b, Gained(r, "locks"))}, {})
BY LeadsStep DEF Lock, Allowed, After, Skipping, Failing, Effect, Stand

(* ... and given back.                                                     *)
LEMMA UnlockLeads ==
  ASSUME NEW name, NEW a, NEW f, NEW b, NEW r
  PROVE  Leads(name, Unlock, {Stand(a, f, b, r)}, {Stand(a, f, b, Given(r, "locks"))}, {})
BY LeadsStep DEF Unlock, Allowed, After, Skipping, Failing, Effect, Stand

(* A buffer is freed.                                                      *)
LEMMA FreeLeads ==
  ASSUME NEW name, NEW a, NEW f, NEW b, NEW r
  PROVE  Leads(name, Free, {Stand(a, f, b, r)}, {Stand(a, f, b, Given(r, "blocks"))}, {})
BY LeadsStep DEF Free, Allowed, After, Skipping, Failing, Effect, Stand

(* fd_object_get takes a reference, with rights ...                        *)
LEMMA ReferenceLeads ==
  ASSUME NEW name, NEW r, NEW rights
  PROVE  Leads(name, Reference(rights), {Calm(r)}, {Calm(Referring(r, rights))}, {r})
BY LeadsStep DEF Reference, Referring, Allowed, After, Skipping, Failing, Effect, Calm, Stand

(* ... and fd_object_release gives it back.                                *)
LEMMA ReleaseLeads ==
  ASSUME NEW name, NEW r, Base(r), NEW rights, NEW a, NEW f, NEW b
  PROVE  Leads(name, Release, {Stand(a, f, b, Referring(r, rights))}, {Stand(a, f, b, r)}, {})
<1>1. Entitled(Given(Referring(r, rights), "references"), "fd", {}) = r
  BY ReferringBase
<1> QED BY <1>1, LeadsStep DEF Release, Allowed, After, Skipping, Failing, Effect, Stand

(* A system call succeeds or fails.                                        *)
LEMMA HostLeads ==
  ASSUME NEW name, name \notin Silent, NEW r, Authorised(name, r), NEW a, NEW f, NEW b
  PROVE  Leads(name, Host, {Stand(a, f, b, r)}, {Stand("ok", f, b, r), Stand("failed", TRUE, b, r)}, {})
BY LeadsStep DEF Host, Allowed, After, Skipping, Failing, Effect, Stand

(* A system call that makes something succeeds or fails.                   *)
LEMMA MakeLeads ==
  ASSUME NEW name, name \notin Silent, NEW r, Authorised(name, r), NEW kind, kind \in Kinds
  PROVE  Leads(name, Make(kind), {Calm(r)}, {Calm(Gained(r, kind)), Upset(r)}, {})
<1>1. kind # "nothing"
  BY DEF Kinds
<1> QED BY <1>1, LeadsStep DEF Make, Allowed, After, Skipping, Failing, Effect, Stand, Calm, Upset

(* The failure of a system call ends the program with an error.            *)
LEMMA ReportLeads ==
  ASSUME NEW name, NEW r
  PROVE  /\ Leads(name, Report, {Calm(r), Upset(r)}, {Calm(r)}, {r})
         /\ \A s : Leads(name, Report, {Calm(r), Upset(s)}, {Calm(r)}, {s})
<1>1. ASSUME NEW s PROVE Leads(name, Report, {Calm(r), Upset(s)}, {Calm(r)}, {s})
  BY LeadsStep DEF Report, Allowed, After, Skipping, Failing, Effect, Stand, Calm, Upset
<1> QED BY <1>1

----------------------------------------------------------------------------
(* Steps that skip others                                                  *)

(* A step that may skip the program q, and q.                              *)
LEMMA SkipLeads ==
  ASSUME NEW name, NEW op, op \in {"if_succeeded", "unless_unsupported"},
         NEW q, NEW Pre, NEW Mid, NEW Post, NEW Err,
         Leads(name, q, Mid, Post, Err),
         op = "unless_unsupported" => name \notin Silent,
         \A c \in Pre :
           LET s == [op |-> op, arg |-> Len(q), undo |-> <<>>]
           IN  After(s, c) \subseteq Mid /\ Skipping(s, c) \subseteq Post
  PROVE  Leads(name, Step(op, Len(q)) \o q, Pre, Post, Err)
<1> DEFINE n == Len(q)
           s == [op |-> op, arg |-> n, undo |-> <<>>]
           p == <<s>>
           w == p \o q
<1>1. Step(op, n) = p
  BY DEF Step
<1>2. s.op = op /\ s.arg = n /\ s.undo = <<>>
  OBVIOUS
<1>3. IsProgram(p) /\ Len(p) = 1 /\ p[1] = s
  <2>1. p \in Seq({s}) /\ Len(p) = 1 /\ p[1] = s
    OBVIOUS
  <2>2. <<>> \in Seq({})
    OBVIOUS
  <2>3. IsStep(s)
    BY <2>2 DEF IsStep, IsSteps
  <2> HIDE DEF s, p
  <2>4. \A i \in 1 .. Len(p) : i = 1
    BY <2>1
  <2> QED BY <2>1, <2>3, <2>4 DEF IsProgram, IsSteps
<1>4. PICK C : Outline(name, q, C, Post, Err) /\ Mid \subseteq C[1]
  BY DEF Leads
<1>5. IsProgram(q) /\ IsProgram(w) /\ n \in Nat /\ Len(w) = 1 + n
  <2> HIDE DEF p, n
  <2>1. IsProgram(q)
    BY DEF Leads
  <2>2. IsSteps(q) /\ IsSteps(p)
    BY <1>3, <2>1 DEF IsProgram
  <2>3. IsProgram(p \o q)
    BY <1>3, <2>1, ProgramJoined
  <2>4. Len(q) \in Nat /\ Len(p \o q) = Len(p) + Len(q)
    BY <2>2, StepsJoined
  <2> QED BY <1>3, <2>1, <2>3, <2>4 DEF n
<1>6. w[1] = s /\ \A i \in 1 .. n : w[1 + i] = q[i]
  <2> HIDE DEF p, s
  <2>1. IsSteps(q) /\ IsSteps(p)
    BY <1>3, <1>5 DEF IsProgram
  <2>4. /\ \A i \in 1 .. Len(p) : (p \o q)[i] = p[i]
        /\ \A i \in 1 .. Len(q) : (p \o q)[Len(p) + i] = q[i]
    BY <2>1, StepsJoined
  <2>2. 1 \in 1 .. Len(p)
    BY <1>3
  <2>3. w[1] = p[1]
    BY <2>2, <2>4
  <2> QED BY <1>3, <2>3, <2>4
<1>7. \A c \in Pre : /\ After(s, c) \subseteq Mid /\ Skipping(s, c) \subseteq Post
                     /\ Failing(s, c) = {} /\ Allowed(name, s, c)
  <2>1. \A c \in Pre : After(s, c) \subseteq Mid /\ Skipping(s, c) \subseteq Post
    OBVIOUS
  <2> HIDE DEF s
  <2>2. \A c : Failing(s, c) = {}
    BY <1>2 DEF Failing
  <2>3. \A c : Allowed(name, s, c)
    BY <1>2, <1>5 DEF Allowed
  <2> QED BY <2>1, <2>2, <2>3
<1> DEFINE A == [j \in 1 .. n + 2 |-> IF j = 1 THEN Pre ELSE IF j = n + 2 THEN Post ELSE C[j - 1]]
<1>8. /\ A[1] = Pre /\ A[n + 2] = Post
      /\ \A j \in 1 .. n : A[1 + j] = C[j]
  <2>1. 1 \in 1 .. n + 2 /\ n + 2 \in 1 .. n + 2 /\ n + 2 # 1
    BY <1>5
  <2>2. ASSUME NEW j \in 1 .. n PROVE A[1 + j] = C[j]
    <3>1. 1 + j \in 1 .. n + 2 /\ 1 + j # 1 /\ 1 + j # n + 2 /\ (1 + j) - 1 = j
      BY <1>5
    <3> HIDE DEF n
    <3> QED BY <3>1
  <2> QED BY <2>1, <2>2
<1> HIDE DEF A
<1>9. \A j \in 1 .. n + 1 : C[j] \subseteq A[1 + j]
  <2> SUFFICES ASSUME NEW j \in 1 .. n + 1 PROVE C[j] \subseteq A[1 + j]
    OBVIOUS
  <2>1. CASE j = n + 1
    <3>1. C[n + 1] \subseteq Post
      BY <1>4 DEF Outline
    <3>2. 1 + j = n + 2
      BY <1>5, <2>1
    <3> QED BY <1>8, <2>1, <3>1, <3>2
  <2>2. CASE j # n + 1
    BY <1>5, <1>8, <2>2
  <2> QED BY <2>1, <2>2
<1>10. ASSUME NEW i \in 1 .. Len(w), NEW c \in A[i]
       PROVE  /\ Allowed(name, w[i], c)
              /\ After(w[i], c) \subseteq A[i + 1]
              /\ Skipping(w[i], c) # {} =>
                   /\ i + 1 + w[i].arg \in 1 .. Len(w) + 1
                   /\ Skipping(w[i], c) \subseteq A[i + 1 + w[i].arg]
              /\ \A r \in Failing(w[i], c) : CleansUp(w[i].undo, r, Err)
  <2> HIDE DEF w
  <2>1. CASE i = 1
    <3>1. w[i] = s /\ c \in Pre
      BY <1>6, <1>8, <1>10, <2>1
    <3>2. Mid \subseteq A[i + 1]
      BY <1>4, <1>5, <1>9, <2>1
    <3>3. i + 1 + n = n + 2 /\ n + 2 \in 1 .. Len(w) + 1
      BY <1>5, <2>1
    <3> HIDE DEF s, n
    <3> QED BY <1>2, <1>7, <1>8, <3>1, <3>2, <3>3
  <2>2. CASE i # 1
    <3> DEFINE j == i - 1
    <3>1. j \in 1 .. n /\ 1 + j = i /\ 1 + (j + 1) = i + 1 /\ j + 1 \in 1 .. n + 1 /\ j \in Nat
      BY <1>5, <2>2
    <3> HIDE DEF j
    <3>2. w[i] = q[j] /\ c \in C[j] /\ C[j + 1] \subseteq A[i + 1]
      BY <1>6, <1>8, <1>9, <1>10, <3>1
    <3>3. /\ Allowed(name, q[j], c)
          /\ After(q[j], c) \subseteq C[j + 1]
          /\ Skipping(q[j], c) # {} =>
               j + 1 + q[j].arg \in 1 .. n + 1 /\ Skipping(q[j], c) \subseteq C[j + 1 + q[j].arg]
          /\ \A r \in Failing(q[j], c) : CleansUp(q[j].undo, r, Err)
      BY <1>4, <3>1, <3>2, OutlineStep
    <3>4. ASSUME Skipping(q[j], c) # {}
          PROVE  /\ i + 1 + q[j].arg \in 1 .. Len(w) + 1
                 /\ Skipping(q[j], c) \subseteq A[i + 1 + q[j].arg]
      <4> DEFINE k == j + 1 + q[j].arg
      <4>1. k \in 1 .. n + 1 /\ Skipping(q[j], c) \subseteq C[k]
        BY <3>3, <3>4
      <4>2. C[k] \subseteq A[1 + k] /\ 1 + k \in 1 .. Len(w) + 1
        <5> HIDE DEF k
        <5> QED BY <1>5, <1>9, <4>1
      <4>3. q[j].arg \in Nat
        BY <3>3, <3>4 DEF Allowed, Skipping
      <4>4. i + 1 + q[j].arg = 1 + k
        BY <3>1, <4>3, Shifted
      <4> QED BY <4>1, <4>2, <4>4
    <3> HIDE DEF n
    <3> QED BY <3>2, <3>3, <3>4
  <2> QED BY <2>1, <2>2
<1>11. Outline(name, w, A, Post, Err)
  <2>1. Len(w) + 1 = n + 2
    BY <1>5
  <2> HIDE DEF w, n
  <2>2. A[Len(w) + 1] \subseteq Post
    BY <1>8, <2>1
  <2> QED BY <1>10, <2>2 DEF Outline
<1>12. Leads(name, w, Pre, Post, Err)
  <2> HIDE DEF w
  <2> QED BY <1>5, <1>8, <1>11 DEF Leads
<1> QED BY <1>1, <1>12

(* Joining sequences of steps is associative.                              *)
LEMMA StepsAssociative ==
  ASSUME NEW p, NEW q, NEW r, IsSteps(p), IsSteps(q), IsSteps(r)
  PROVE  (p \o q) \o r = p \o (q \o r)
<1>1. PICK P : p \in Seq(P)
  BY DEF IsSteps
<1>2. PICK Q : q \in Seq(Q)
  BY DEF IsSteps
<1>3. PICK R : r \in Seq(R)
  BY DEF IsSteps
<1> DEFINE S == P \cup Q \cup R
<1>4. p \in Seq(S) /\ q \in Seq(S) /\ r \in Seq(S)
  BY <1>1, <1>2, <1>3
<1> HIDE DEF S
<1> QED BY <1>4, ConcatAssociative

(* One step is a program.                                                  *)
LEMMA StepIsProgram ==
  ASSUME NEW op, NEW arg
  PROVE  IsProgram(Step(op, arg)) /\ IsSteps(Step(op, arg))
<1>1. Leads("none", Step(op, arg), {}, {}, {})
  BY LeadsStep
<1> QED BY <1>1 DEF Leads, IsProgram

(* The second only if the first has succeeded.                             *)
LEMMA ThenLeads ==
  ASSUME NEW name, NEW p, NEW q, NEW Pre, NEW r, NEW s, NEW Post, NEW Err,
         Leads(name, p, Pre, {Calm(s), Upset(r)}, Err),
         Leads(name, q, {Calm(s)}, Post, Err), Upset(r) \in Post
  PROVE  Leads(name, Then(p, q), Pre, Post, Err)
<1> DEFINE t == Step("if_succeeded", Len(q))
<1>1. Leads(name, t \o q, {Calm(s), Upset(r)}, Post, Err)
  <2> DEFINE u == [op |-> "if_succeeded", arg |-> Len(q), undo |-> <<>>]
  <2>1. u.op = "if_succeeded"
    OBVIOUS
  <2> HIDE DEF u
  <2>2. Calm(s).ret = "ok" /\ Upset(r).ret = "failed"
    BY DEF Calm, Upset, Stand
  <2>3. After(u, Calm(s)) = {Calm(s)} /\ Skipping(u, Calm(s)) = {}
    BY <2>1, <2>2 DEF After, Skipping
  <2>4. After(u, Upset(r)) = {} /\ Skipping(u, Upset(r)) = {Upset(r)}
    BY <2>1, <2>2 DEF After, Skipping
  <2>5. \A c \in {Calm(s), Upset(r)} : After(u, c) \subseteq {Calm(s)} /\ Skipping(u, c) \subseteq Post
    BY <2>3, <2>4
  <2> QED BY <2>5, SkipLeads DEF u
<1>2. Leads(name, p \o (t \o q), Pre, Post, Err)
  BY <1>1, LeadsJoined
<1>3. (p \o t) \o q = p \o (t \o q)
  BY StepsAssociative, StepIsProgram DEF Leads, IsProgram
<1> QED BY <1>2, <1>3 DEF Then

----------------------------------------------------------------------------
(* Shapes of programs                                                      *)

(* Programs that give back what they get, one after the other.             *)
LEMMA BalancedJoined ==
  ASSUME NEW name, NEW p, NEW q, NEW r, Balanced(name, p, r), Balanced(name, q, r)
  PROVE  Balanced(name, p \o q, r)
BY LeadsJoined DEF Balanced

(* Nothing fails that would not have failed before.                        *)
LEMMA NeverFails ==
  ASSUME NEW name, NEW p, NEW Pre, NEW Post, NEW Err, Leads(name, p, Pre, Post, {})
  PROVE  Leads(name, p, Pre, Post, Err)
BY LeadsWeaker

(* A check before a program that gives back what it gets.                  *)
LEMMA CheckedLeads ==
  ASSUME NEW name, NEW q, NEW r, Balanced(name, q, r)
  PROVE  Balanced(name, Address \o q, r) /\ Balanced(name, Argument \o q, r)
BY ChecksLead, BalancedJoined

(* A program that only asks the host.                                      *)
LEMMA HostAsked ==
  ASSUME NEW name, name \notin Silent, NEW r, Authorised(name, r)
  PROVE  Asked(name, Host, r)
<1>1. Leads(name, Host, {Stand("ok", FALSE, FALSE, r)},
            {Stand("ok", FALSE, FALSE, r), Stand("failed", TRUE, FALSE, r)}, {})
  BY HostLeads
<1> QED BY <1>1 DEF Asked, Calm, Upset

(* One that the platform refuses.                                          *)
LEMMA RefusedAsked ==
  ASSUME NEW name, name \notin Silent, NEW r
  PROVE  Asked(name, Refused, r)
<1>1. Leads(name, Refused, {Calm(r)}, {Upset(r)}, {})
  BY LeadsStep DEF Refused, Allowed, After, Skipping, Failing, Effect, Calm, Upset, Stand
<1> QED BY <1>1, LeadsWeaker DEF Asked

(* Two such programs, the second if the first succeeds.                    *)
LEMMA ThenAsked ==
  ASSUME NEW name, NEW p, NEW q, NEW r, Asked(name, p, r), Asked(name, q, r)
  PROVE  Asked(name, Then(p, q), r)
BY ThenLeads DEF Asked

(* The result of such a program is reported.                               *)
LEMMA AskedReported ==
  ASSUME NEW name, NEW p, NEW r, Asked(name, p, r)
  PROVE  Balanced(name, p \o Report, r)
<1>1. Leads(name, p, {Calm(r)}, {Calm(r), Upset(r)}, {r})
  BY NeverFails DEF Asked
<1> QED BY <1>1, ReportLeads, LeadsJoined DEF Balanced

(* A reference is released whether the host fails or not.                  *)
LEMMA ReleasedEither ==
  ASSUME NEW name, NEW r, Base(r), NEW rights, NEW Err
  PROVE  Leads(name, Release, {Calm(Referring(r, rights)), Upset(Referring(r, rights))},
               {Calm(r), Upset(r)}, Err)
<1> DEFINE R == Referring(r, rights)
<1>1. Leads(name, Release, {Stand("ok", FALSE, FALSE, R)}, {Stand("ok", FALSE, FALSE, r)}, {})
  BY ReleaseLeads
<1>2. Leads(name, Release, {Stand("failed", TRUE, FALSE, R)}, {Stand("failed", TRUE, FALSE, r)}, {})
  BY ReleaseLeads
<1> HIDE DEF R
<1>7. Leads(name, Release, {Calm(R)}, {Calm(r)}, {})
  BY <1>1 DEF Calm
<1>8. Leads(name, Release, {Upset(R)}, {Upset(r)}, {})
  BY <1>2 DEF Upset
<1>3. Leads(name, Release, {Calm(R)}, {Calm(r), Upset(r)}, Err)
  BY <1>7, LeadsWeaker
<1>4. Leads(name, Release, {Upset(R)}, {Calm(r), Upset(r)}, Err)
  BY <1>8, LeadsWeaker
<1>5. Leads(name, Release, {Calm(R)} \cup {Upset(R)}, {Calm(r), Upset(r)}, Err)
  BY <1>3, <1>4, LeadsEither
<1>6. {Calm(R)} \cup {Upset(R)} = {Calm(R), Upset(R)}
  OBVIOUS
<1> QED BY <1>5, <1>6 DEF R

(* A reference is held around a program that asks the host.                *)
LEMMA WithReferenceLeads ==
  ASSUME NEW name, NEW prog, NEW r, Base(r), NEW rights, Asked(name, prog, Referring(r, rights))
  PROVE  Balanced(name, WithReference(rights, prog), r)
<1> DEFINE R == Referring(r, rights)
<1>1. Leads(name, Reference(rights), {Calm(r)}, {Calm(R)}, {r})
  BY ReferenceLeads
<1>2. Leads(name, prog, {Calm(R)}, {Calm(R), Upset(R)}, {r})
  BY NeverFails DEF Asked
<1>3. Leads(name, Release, {Calm(R), Upset(R)}, {Calm(r), Upset(r)}, {r})
  BY ReleasedEither
<1>4. Leads(name, Report, {Calm(r), Upset(r)}, {Calm(r)}, {r})
  BY ReportLeads
<1> HIDE DEF R
<1>5. Leads(name, Reference(rights) \o prog, {Calm(r)}, {Calm(R), Upset(R)}, {r})
  BY <1>1, <1>2, LeadsJoined
<1>6. Leads(name, Reference(rights) \o prog \o Release, {Calm(r)}, {Calm(r), Upset(r)}, {r})
  BY <1>3, <1>5, LeadsJoined
<1> QED BY <1>4, <1>6, LeadsJoined DEF Balanced, WithReference

(* The right that the call is named after is among those asked for.        *)
LEMMA ReferenceAuthorises ==
  ASSUME NEW name, NEW r, Base(r), NEW rights, RightsOf(name) \subseteq rights
  PROVE  Authorised(name, Referring(r, rights))
<1> DEFINE R == Referring(r, rights)
<1>1. R.need["references"] > 0 /\ R.granted["fd"] = rights /\ "fd" \in Slots
  BY ReferringBase DEF Slots
<1> HIDE DEF R
<1>2. RightsOf(name) \subseteq UNION {R.granted[s] : s \in Slots}
  BY <1>1
<1> QED BY <1>1, <1>2 DEF Authorised, R

(* One system call with a reference.                                       *)
LEMMA OnReferenceLeads ==
  ASSUME NEW name, name \notin Silent, NEW r, Base(r), NEW rights, RightsOf(name) \subseteq rights
  PROVE  Balanced(name, OnReference(rights), r)
BY ReferenceAuthorises, HostAsked, WithReferenceLeads DEF OnReference

----------------------------------------------------------------------------
(* Buffers and locks                                                       *)

(* A cleanup that frees a buffer.                                          *)
LEMMA FreesBuffer ==
  ASSUME NEW r, IsResources(r)
  PROVE  CleansUp(Free, Gained(r, "blocks"), {r})
<1> DEFINE f == [op |-> "free", arg |-> {}, undo |-> <<>>]
<1>1. f.op = "free"
  OBVIOUS
<1>2. "blocks" \in Kinds /\ "free" \in Cleaning
  BY DEF Kinds, Cleaning
<1>3. Effect(f, Gained(r, "blocks")) = r
  <2> HIDE DEF f
  <2> QED BY <1>1, <1>2, GainedGiven DEF Effect
<1> QED BY <1>2, <1>3, CleansUpStep DEF Free

(* A cleanup that gives the lock back.                                     *)
LEMMA Unlocks ==
  ASSUME NEW r, IsResources(r)
  PROVE  CleansUp(Unlock, Gained(r, "locks"), {r})
<1> DEFINE f == [op |-> "unlock", arg |-> {}, undo |-> <<>>]
<1>1. f.op = "unlock"
  OBVIOUS
<1>2. "locks" \in Kinds /\ "unlock" \in Cleaning
  BY DEF Kinds, Cleaning
<1>3. Effect(f, Gained(r, "locks")) = r
  <2> HIDE DEF f
  <2> QED BY <1>1, <1>2, GainedGiven DEF Effect
<1> QED BY <1>2, <1>3, CleansUpStep DEF Unlock

(* What holds a buffer for a while and frees it, whatever fails.           *)
LEMMA BufferedLeads ==
  ASSUME NEW name, NEW first, NEW p, NEW r, IsResources(r),
         Leads(name, first, {Calm(r)}, {Calm(Gained(r, "blocks"))}, {r}),
         Balanced(name, p, Gained(r, "blocks"))
  PROVE  Balanced(name, first \o Within(Free, p) \o Free, r)
<1> DEFINE R == Gained(r, "blocks")
<1>1. IsSteps(Free)
  BY StepIsProgram DEF Free
<1>2. Leads(name, Within(Free, p), {Calm(R)}, {Calm(R)}, {r})
  <2>1. \A s \in {R} : CleansUp(Free, s, {r})
    BY FreesBuffer
  <2>2. Leads(name, p, {Calm(R)}, {Calm(R)}, {R})
    BY DEF Balanced
  <2> QED BY <1>1, <2>1, <2>2, LeadsWithin
<1>3. Leads(name, Free, {Calm(R)}, {Calm(r)}, {r})
  <2>1. Given(R, "blocks") = r
    BY GainedGiven DEF Kinds
  <2>2. Leads(name, Free, {Stand("ok", FALSE, FALSE, R)}, {Stand("ok", FALSE, FALSE, r)}, {})
    BY <2>1, FreeLeads
  <2> QED BY <2>2, NeverFails DEF Calm
<1>4. Leads(name, first, {Calm(r)}, {Calm(R)}, {r})
  OBVIOUS
<1> HIDE DEF R
<1>5. Leads(name, first \o Within(Free, p), {Calm(r)}, {Calm(R)}, {r})
  BY <1>2, <1>4, LeadsJoined
<1> QED BY <1>3, <1>5, LeadsJoined DEF Balanced

(* The same for the lock of the table.                                     *)
LEMMA LockedLeads ==
  ASSUME NEW name, NEW first, NEW p, NEW r, IsResources(r),
         Leads(name, first, {Calm(r)}, {Calm(Gained(r, "locks"))}, {r}),
         Balanced(name, p, Gained(r, "locks"))
  PROVE  Balanced(name, first \o Within(Unlock, p) \o Unlock, r)
<1> DEFINE R == Gained(r, "locks")
<1>1. IsSteps(Unlock)
  BY StepIsProgram DEF Unlock
<1>2. Leads(name, Within(Unlock, p), {Calm(R)}, {Calm(R)}, {r})
  <2>1. \A s \in {R} : CleansUp(Unlock, s, {r})
    BY Unlocks
  <2>2. Leads(name, p, {Calm(R)}, {Calm(R)}, {R})
    BY DEF Balanced
  <2> QED BY <1>1, <2>1, <2>2, LeadsWithin
<1>3. Leads(name, Unlock, {Calm(R)}, {Calm(r)}, {r})
  <2>1. Given(R, "locks") = r
    BY GainedGiven DEF Kinds
  <2>2. Leads(name, Unlock, {Stand("ok", FALSE, FALSE, R)}, {Stand("ok", FALSE, FALSE, r)}, {})
    BY <2>1, UnlockLeads
  <2> QED BY <2>2, NeverFails DEF Calm
<1>4. Leads(name, first, {Calm(r)}, {Calm(R)}, {r})
  OBVIOUS
<1> HIDE DEF R
<1>5. Leads(name, first \o Within(Unlock, p), {Calm(r)}, {Calm(R)}, {r})
  BY <1>2, <1>4, LeadsJoined
<1> QED BY <1>3, <1>5, LeadsJoined DEF Balanced

(* After a balanced program, or at once.                                   *)
LEMMA TakesLead ==
  ASSUME NEW name, NEW first, NEW r, Balanced(name, first, r)
  PROVE  /\ Leads(name, first \o Allocate, {Calm(r)}, {Calm(Gained(r, "blocks"))}, {r})
         /\ Leads(name, Allocate, {Calm(r)}, {Calm(Gained(r, "blocks"))}, {r})
         /\ Leads(name, first \o Lock, {Calm(r)}, {Calm(Gained(r, "locks"))}, {r})
         /\ Leads(name, Lock, {Calm(r)}, {Calm(Gained(r, "locks"))}, {r})
<1>1. Leads(name, Lock, {Calm(r)}, {Calm(Gained(r, "locks"))}, {r})
  BY LockLeads, NeverFails DEF Calm
<1>2. Leads(name, first, {Calm(r)}, {Calm(r)}, {r})
  BY DEF Balanced
<1> QED BY <1>1, <1>2, AllocateLeads, LeadsJoined

(* The copy of the vector is held around the program.                      *)
LEMMA WithVectorLeads ==
  ASSUME NEW name, NEW prog, NEW r, Base(r), Balanced(name, prog, Gained(r, "blocks"))
  PROVE  Balanced(name, WithVector(prog), r)
<1>1. Balanced(name, Address \o Address, r)
  BY ChecksLead, BalancedJoined
<1>2. Leads(name, Address \o Address \o Allocate, {Calm(r)}, {Calm(Gained(r, "blocks"))}, {r})
  BY <1>1, TakesLead
<1>3. Balanced(name, Address \o prog, Gained(r, "blocks"))
  BY CheckedLeads
<1> QED BY <1>2, <1>3, BufferedLeads DEF WithVector, Base

----------------------------------------------------------------------------
(* Paths                                                                   *)

(* One more of a kind ...                                                  *)
LEMMA PlusIs ==
  ASSUME NEW n, n \in [Kinds -> Int], NEW kind, kind \in Kinds
  PROVE  /\ Plus(n, kind, 1) \in [Kinds -> Int]
         /\ \A k \in Kinds : Plus(n, kind, 1)[k] = IF k = kind THEN n[k] + 1 ELSE n[k]
BY DEF Plus

(* ... one less ...                                                        *)
LEMMA MinusIs ==
  ASSUME NEW n, n \in [Kinds -> Int], NEW kind, kind \in Kinds
  PROVE  /\ Minus(n, kind, 1) \in [Kinds -> Int]
         /\ \A k \in Kinds : Minus(n, kind, 1)[k] = IF k = kind THEN n[k] - 1 ELSE n[k]
BY DEF Minus

(* ... and both, in either order.                                          *)
LEMMA MinusPlus ==
  ASSUME NEW n, n \in [Kinds -> Int], NEW kind, kind \in Kinds
  PROVE  /\ Plus(n, kind, 1) \in [Kinds -> Int] /\ Minus(Plus(n, kind, 1), kind, 1) = n
         /\ \A k \in Kinds \ {kind} :
              /\ Minus(Plus(Plus(n, k, 1), kind, 1), k, 1) = Plus(n, kind, 1)
              /\ Plus(Plus(n, k, 1), kind, 1) = Plus(Plus(n, kind, 1), k, 1)
<1> DEFINE p == Plus(n, kind, 1)
<1>1. /\ p \in [Kinds -> Int]
      /\ \A k \in Kinds : p[k] = IF k = kind THEN n[k] + 1 ELSE n[k]
  BY PlusIs
<1> HIDE DEF p
<1>2. Minus(p, kind, 1) = n
  <2> DEFINE m == Minus(p, kind, 1)
  <2>1. m \in [Kinds -> Int] /\ \A k \in Kinds : m[k] = IF k = kind THEN p[k] - 1 ELSE p[k]
    BY <1>1, MinusIs
  <2> HIDE DEF m
  <2>2. \A k \in Kinds : m[k] = n[k]
    BY <1>1, <2>1
  <2>3. m = n
    BY <2>1, <2>2
  <2> QED BY <2>3 DEF m
<1>3. ASSUME NEW k, k \in Kinds, k # kind
      PROVE  Minus(Plus(Plus(n, k, 1), kind, 1), k, 1) = p /\ Plus(Plus(n, k, 1), kind, 1) = Plus(p, k, 1)
  <2> DEFINE g == Plus(n, k, 1)  h == Plus(g, kind, 1)  m == Minus(h, k, 1)  i == Plus(p, k, 1)
  <2>1. g \in [Kinds -> Int] /\ \A j \in Kinds : g[j] = IF j = k THEN n[j] + 1 ELSE n[j]
    BY <1>3, PlusIs
  <2> HIDE DEF g
  <2>2. h \in [Kinds -> Int] /\ \A j \in Kinds : h[j] = IF j = kind THEN g[j] + 1 ELSE g[j]
    BY <2>1, PlusIs
  <2> HIDE DEF h
  <2>3. m \in [Kinds -> Int] /\ \A j \in Kinds : m[j] = IF j = k THEN h[j] - 1 ELSE h[j]
    BY <1>3, <2>2, MinusIs
  <2>4. i \in [Kinds -> Int] /\ \A j \in Kinds : i[j] = IF j = k THEN p[j] + 1 ELSE p[j]
    BY <1>1, <1>3, PlusIs
  <2> HIDE DEF m, i
  <2>5. \A j \in Kinds : m[j] = p[j] /\ h[j] = i[j]
    BY <1>1, <1>3, <2>1, <2>2, <2>3, <2>4
  <2>6. m = p /\ h = i
    BY <1>1, <2>2, <2>3, <2>4, <2>5
  <2> QED BY <2>6 DEF m, i, h, g
<1> QED BY <1>1, <1>2, <1>3 DEF p

(* A slot of which nothing is leased.                                      *)
Unleased(r, slot) == slot \in Slots \ r.leased /\ r.granted[slot] = {}

(* A lease that is given back leaves what was there before.                *)
LEMMA LeasingReturning ==
  ASSUME NEW r, IsResources(r), NEW slot, Unleased(r, slot), NEW rights
  PROVE  /\ IsResources(Leasing(r, slot, rights)) /\ slot \in Leasing(r, slot, rights).leased
         /\ Leasing(r, slot, rights).need = r.need
         /\ Leasing(r, slot, rights).granted[slot] = rights
         /\ Returning(Leasing(r, slot, rights), slot) = r
<1> DEFINE g == [r.granted EXCEPT ![slot] = rights]
<1>1. /\ slot \in Slots /\ slot \notin r.leased /\ r.granted[slot] = {}
      /\ r.leased \subseteq Slots /\ r.granted = [s \in Slots |-> r.granted[s]]
      /\ r.need \in [Kinds -> Int] /\ r = Resources(r.need, r.leased, r.granted)
  BY DEF Unleased, IsResources
<1>2. g = [s \in Slots |-> g[s]] /\ g[slot] = rights /\ [g EXCEPT ![slot] = {}] = r.granted
  BY <1>1
<1> HIDE DEF g
<1>3. Leasing(r, slot, rights) = Resources(r.need, r.leased \cup {slot}, g)
  BY DEF Leasing, g
<1>4. (r.leased \cup {slot}) \ {slot} = r.leased
  BY <1>1
<1>5. r.leased \cup {slot} \subseteq Slots
  BY <1>1
<1>6. Returning(Leasing(r, slot, rights), slot) = Resources(r.need, r.leased, r.granted)
  BY <1>2, <1>3, <1>4 DEF Returning, Resources
<1> QED BY <1>1, <1>2, <1>3, <1>5, <1>6 DEF IsResources, Resources

(* path_get leases a path, or fails.                                       *)
LEMMA PathGetLeads ==
  ASSUME NEW name, NEW r, IsResources(r), NEW slot, Unleased(r, slot), NEW rights,
         NEW follow, NEW needsFinal, follow \in BOOLEAN, needsFinal \in BOOLEAN
  PROVE  Leads(name, PathGet(slot, rights, follow, needsFinal), {Calm(r)},
               {Calm(Leasing(r, slot, rights))}, {r})
<1> DEFINE a == [slot |-> slot, rights |-> rights, follow |-> follow, needsFinal |-> needsFinal]
           s == [op |-> "path_get", arg |-> a, undo |-> <<>>]
<1>1. a.slot = slot /\ a.rights = rights /\ a.follow = follow /\ a.needsFinal = needsFinal
  OBVIOUS
<1> HIDE DEF a
<1>2. s.op = "path_get" /\ s.arg = a
  OBVIOUS
<1> HIDE DEF s
<1>3. Calm(r).ret = "ok" /\ Calm(r).failed = FALSE /\ Calm(r).placed = FALSE /\ Calm(r).has = r
  BY DEF Calm, Stand
<1>4. Allowed(name, s, Calm(r))
  BY <1>1, <1>2, <1>3 DEF Allowed, Unleased
<1>5. After(s, Calm(r)) = {Calm(Leasing(r, slot, rights))}
  <2>1. Effect(s, r) = Leasing(r, slot, rights)
    BY <1>1, <1>2 DEF Effect
  <2> QED BY <1>2, <1>3, <2>1 DEF After, Calm
<1>6. Skipping(s, Calm(r)) = {} /\ Failing(s, Calm(r)) = {r}
  BY <1>2, <1>3 DEF Skipping, Failing
<1>7. Leads(name, Step("path_get", a), {Calm(r)}, {Calm(Leasing(r, slot, rights))}, {r})
  BY <1>4, <1>5, <1>6, LeadsStep DEF s
<1> QED BY <1>7 DEF PathGet, a

(* Whatever is known of the call when a path is put.                       *)
LEMMA PathPutLeads ==
  ASSUME NEW name, NEW s, NEW slot, slot \in s.leased, NEW a, NEW f, NEW b
  PROVE  Leads(name, PathPut(slot), {Stand(a, f, b, s)}, {Stand(a, f, b, Returning(s, slot))}, {})
BY LeadsStep DEF PathPut, Allowed, After, Skipping, Failing, Effect, Stand

(* A program that runs whether the host has failed or not.                 *)
LEMMA EitherLeads ==
  ASSUME NEW name, NEW p, NEW c, NEW d, NEW c2, NEW d2, NEW Err,
         Leads(name, p, {c}, {c2}, Err), Leads(name, p, {d}, {d2}, Err)
  PROVE  Leads(name, p, {c, d}, {c2, d2}, Err)
<1>1. Leads(name, p, {c}, {c2, d2}, Err)
  BY LeadsWeaker
<1>2. Leads(name, p, {d}, {c2, d2}, Err)
  BY LeadsWeaker
<1>3. Leads(name, p, {c} \cup {d}, {c2, d2}, Err)
  BY <1>1, <1>2, LeadsEither
<1>4. {c} \cup {d} = {c, d}
  OBVIOUS
<1> QED BY <1>3, <1>4

(* path_put, whether or not the system call has failed.                    *)
LEMMA PathPutEither ==
  ASSUME NEW name, NEW r, NEW s, NEW slot, slot \in r.leased, slot \in s.leased, NEW Err
  PROVE  Leads(name, PathPut(slot), {Calm(r), Upset(s)},
               {Calm(Returning(r, slot)), Upset(Returning(s, slot))}, Err)
<1>1. Leads(name, PathPut(slot), {Calm(r)}, {Calm(Returning(r, slot))}, Err)
  BY PathPutLeads, NeverFails DEF Calm
<1>2. Leads(name, PathPut(slot), {Upset(s)}, {Upset(Returning(s, slot))}, Err)
  BY PathPutLeads, NeverFails DEF Upset
<1> QED BY <1>1, <1>2, EitherLeads

(* At first no slot has a lease.                                           *)
LEMMA BaseUnleased ==
  ASSUME NEW r, Base(r), NEW slot, slot \in Slots
  PROVE  Unleased(r, slot) /\ IsResources(r)
BY DEF Base, Unleased, NoRights

(* The rights of the path suffice, and its reference keeps the object.     *)
LEMMA LeaseAuthorises ==
  ASSUME NEW name, NEW r, IsResources(r), NEW slot, Unleased(r, slot), NEW rights,
         r.need["references"] >= 0, RightsOf(name) \subseteq rights
  PROVE  Authorised(name, Leasing(r, slot, rights))
<1> DEFINE R == Leasing(r, slot, rights)
<1>1. R.need = r.need /\ R.granted[slot] = rights /\ slot \in R.leased /\ slot \in Slots
  BY LeasingReturning DEF Unleased
<1> HIDE DEF R
<1>2. RightsOf(name) \subseteq UNION {R.granted[s] : s \in Slots}
  BY <1>1
<1> QED BY <1>1, <1>2 DEF Authorised, R

(* One system call on a path.                                              *)
LEMMA OnPathLeads ==
  ASSUME NEW name, name \notin Silent, NEW r, Base(r), NEW rights, RightsOf(name) \subseteq rights,
         NEW follow, NEW needsFinal, follow \in BOOLEAN, needsFinal \in BOOLEAN
  PROVE  Balanced(name, OnPath(rights, follow, needsFinal), r)
<1> DEFINE R == Leasing(r, "pa", rights)
<1>1. IsResources(r) /\ Unleased(r, "pa") /\ r.need["references"] >= 0
  BY BaseUnleased DEF Base, Kinds, Slots
<1>2. Returning(R, "pa") = r /\ "pa" \in R.leased
  BY <1>1, LeasingReturning
<1>3. Leads(name, PathGet("pa", rights, follow, needsFinal), {Calm(r)}, {Calm(R)}, {r})
  BY <1>1, PathGetLeads
<1>4. Leads(name, Host, {Calm(R)}, {Calm(R), Upset(R)}, {r})
  BY <1>1, LeaseAuthorises, HostAsked, NeverFails DEF Asked
<1> HIDE DEF R
<1>5. Leads(name, PathPut("pa"), {Calm(R), Upset(R)}, {Calm(r), Upset(r)}, {r})
  BY <1>2, PathPutEither
<1>6. Leads(name, PathGet("pa", rights, follow, needsFinal) \o Host, {Calm(r)}, {Calm(R), Upset(R)}, {r})
  BY <1>3, <1>4, LeadsJoined
<1>7. Leads(name, PathGet("pa", rights, follow, needsFinal) \o Host \o PathPut("pa"),
            {Calm(r)}, {Calm(r), Upset(r)}, {r})
  BY <1>5, <1>6, LeadsJoined
<1>8. Leads(name, Report, {Calm(r), Upset(r)}, {Calm(r)}, {r})
  BY ReportLeads
<1> QED BY <1>7, <1>8, LeadsJoined DEF Balanced, OnPath

----------------------------------------------------------------------------
(* How a call ends                                                         *)

(* A call begins with nothing.                                             *)
Zero == Resources(Nothing, {}, NoRights)

(* With success: everything is given back, and only three calls hide that  *)
(* a system call has failed.                                               *)
Settled(name, c) ==
  /\ c.ret = "ok" /\ c.has.need = Nothing /\ c.has.leased = {}
  /\ c.failed => name \in {"sock_shutdown", "path_link", "fd_readdir"}

(* With an error: only two calls may keep the leases of their paths.       *)
Abandoned(name, r) ==
  r.need = Nothing /\ (r.leased # {} => name \in {"path_link", "path_symlink"})

Settles(name, p) ==
  \E Post, Err : /\ Leads(name, p, {Calm(Zero)}, Post, Err)
                 /\ \A c \in Post : Settled(name, c)
                 /\ \A r \in Err : Abandoned(name, r)

(* Nothing is got, leased or granted when a call begins.                   *)
LEMMA ZeroBase == Base(Zero)
<1>1. Nothing \in [Kinds -> Int] /\ \A k \in Kinds : Nothing[k] >= 0
  BY DEF Nothing
<1>2. NoRights = [s \in Slots |-> NoRights[s]]
  BY DEF NoRights
<1> QED BY <1>1, <1>2 DEF Zero, Base, IsResources, Resources

(* A call may end with what it began with.                                 *)
LEMMA ZeroEnds ==
  ASSUME NEW name
  PROVE  Settled(name, Calm(Zero)) /\ Abandoned(name, Zero)
BY DEF Settled, Abandoned, Calm, Stand, Zero, Resources

(* A call that gives back what it gets ends as it must.                    *)
LEMMA BalancedSettles ==
  ASSUME NEW name, NEW p, Balanced(name, p, Zero)
  PROVE  Settles(name, p)
BY ZeroEnds DEF Balanced, Settles

----------------------------------------------------------------------------
(* Two paths                                                               *)

(* The second lease, and giving both back.                                 *)
LEMMA TwoLeases ==
  ASSUME NEW r, Base(r), NEW rights, NEW others
  PROVE  LET R == Leasing(r, "old", rights)
             S == Leasing(R, "new", others)
         IN  /\ IsResources(r) /\ Unleased(r, "old") /\ IsResources(R) /\ Unleased(R, "new")
             /\ IsResources(S) /\ S.need = r.need /\ "old" \in S.leased
             /\ S.granted["old"] = rights /\ S.granted["new"] = others
             /\ "new" \in Returning(S, "old").leased
             /\ Returning(Returning(S, "old"), "new") = r
             /\ Returning(R, "old") = r /\ "old" \in R.leased
<1> DEFINE R == Leasing(r, "old", rights)
           S == Leasing(R, "new", others)
<1>1. "old" \in Slots /\ "new" \in Slots /\ "old" # "new"
  BY DEF Slots
<1>2. IsResources(r) /\ Unleased(r, "old") /\ r.leased = {} /\ r.granted = NoRights
  BY <1>1, BaseUnleased DEF Base
<1>3. /\ IsResources(R) /\ "old" \in R.leased /\ R.granted["old"] = rights
      /\ R.need = r.need /\ Returning(R, "old") = r
  BY <1>2, LeasingReturning
<1>4. R.leased = {"old"} /\ R.granted = [NoRights EXCEPT !["old"] = rights]
  BY <1>2 DEF Leasing, Resources
<1> HIDE DEF R
<1>5. Unleased(R, "new")
  BY <1>1, <1>4 DEF Unleased, NoRights
<1>6. /\ IsResources(S) /\ S.granted["new"] = others /\ S.need = R.need
  BY <1>3, <1>5, LeasingReturning
<1>7. S.leased = {"old", "new"} /\ S.granted = [R.granted EXCEPT !["new"] = others]
  BY <1>4 DEF Leasing, Resources
<1> HIDE DEF S
<1>8. S.granted["old"] = rights
  BY <1>1, <1>4, <1>7 DEF NoRights
<1> DEFINE T == Returning(S, "old")
           g == [S.granted EXCEPT !["old"] = {}]
<1>9. T = Resources(S.need, {"new"}, g)
  <2>1. S.leased \ {"old"} = {"new"}
    BY <1>1, <1>7
  <2> QED BY <2>1 DEF Returning
<1>10. [g EXCEPT !["new"] = {}] = NoRights
  BY <1>1, <1>4, <1>7 DEF NoRights
<1>11. T.leased = {"new"} /\ T.need = S.need /\ T.granted = g
  <2> HIDE DEF T, g
  <2> QED BY <1>9 DEF Resources
<1> HIDE DEF T, g
<1>12. Returning(T, "new") = r
  <2>1. {"new"} \ {"new"} = {}
    OBVIOUS
  <2>2. Returning(T, "new") = Resources(r.need, {}, NoRights)
    BY <1>3, <1>6, <1>10, <1>11, <2>1 DEF Returning
  <2>3. r = Resources(r.need, {}, NoRights)
    BY <1>2 DEF IsResources
  <2> QED BY <2>2, <2>3
<1> QED BY <1>2, <1>3, <1>5, <1>6, <1>7, <1>8, <1>11, <1>12 DEF R, S, T

(* Both paths: the first is put when the second is refused.                *)
LEMMA BothPathsLead ==
  ASSUME NEW name, NEW r, Base(r), NEW rights, NEW others, NEW follow, follow \in BOOLEAN,
         NEW needsFinal, needsFinal \in BOOLEAN
  PROVE  Leads(name,
               PathGet("old", rights, follow, needsFinal)
                 \o Within(PathPut("old"), PathGet("new", others, FALSE, TRUE)),
               {Calm(r)}, {Calm(Leasing(Leasing(r, "old", rights), "new", others))}, {r})
<1> DEFINE R == Leasing(r, "old", rights)
           S == Leasing(R, "new", others)
           first == PathGet("old", rights, follow, needsFinal)
           second == PathGet("new", others, FALSE, TRUE)
<1>1. /\ IsResources(r) /\ Unleased(r, "old") /\ IsResources(R) /\ Unleased(R, "new")
      /\ Returning(R, "old") = r /\ "old" \in R.leased
  BY TwoLeases
<1>2. Leads(name, first, {Calm(r)}, {Calm(R)}, {r})
  BY <1>1, PathGetLeads
<1>3. Leads(name, second, {Calm(R)}, {Calm(S)}, {R})
  BY <1>1, PathGetLeads
<1>4. CleansUp(PathPut("old"), R, {r})
  <2> DEFINE s == [op |-> "path_put", arg |-> "old", undo |-> <<>>]
  <2>1. s.op = "path_put" /\ s.arg = "old"
    OBVIOUS
  <2>2. Effect(s, R) = r
    <3> HIDE DEF s, R
    <3> QED BY <1>1, <2>1 DEF Effect
  <2>3. "path_put" \in Cleaning
    BY DEF Cleaning
  <2> QED BY <1>1, <2>2, <2>3, CleansUpStep DEF PathPut
<1> HIDE DEF R, S, first, second
<1>5. Leads(name, Within(PathPut("old"), second), {Calm(R)}, {Calm(S)}, {r})
  <2>1. IsSteps(PathPut("old"))
    BY StepIsProgram DEF PathPut
  <2>2. \A t \in {R} : CleansUp(PathPut("old"), t, {r})
    BY <1>4
  <2> QED BY <1>3, <2>1, <2>2, LeadsWithin
<1> QED BY <1>2, <1>5, LeadsJoined DEF R, S, first, second

(* The host may be asked with both leases.                                 *)
LEMMA BothAuthorise ==
  ASSUME NEW name, NEW r, Base(r), NEW rights, NEW others, RightsOf(name) \subseteq rights \cup others,
         NEW s, s.granted = Leasing(Leasing(r, "old", rights), "new", others).granted,
         s.leased = Leasing(Leasing(r, "old", rights), "new", others).leased,
         s.need["references"] >= 0
  PROVE  Authorised(name, s)
<1> DEFINE S == Leasing(Leasing(r, "old", rights), "new", others)
<1>1. "old" \in S.leased /\ S.granted["old"] = rights /\ S.granted["new"] = others
  BY TwoLeases
<1> HIDE DEF S
<1>2. s.leased # {} /\ s.granted["old"] = rights /\ s.granted["new"] = others
  BY <1>1 DEF S
<1>3. RightsOf(name) \subseteq UNION {s.granted[t] : t \in Slots}
  BY <1>2 DEF Slots
<1> QED BY <1>2, <1>3 DEF Authorised

(* Both paths are put.                                                     *)
LEMMA BothPut ==
  ASSUME NEW name, NEW r, Base(r), NEW rights, NEW others, NEW a, NEW f
  PROVE  Leads(name, PathPut("old") \o PathPut("new"),
               {Stand(a, f, FALSE, Leasing(Leasing(r, "old", rights), "new", others))},
               {Stand(a, f, FALSE, r)}, {})
<1> DEFINE S == Leasing(Leasing(r, "old", rights), "new", others)
           T == Returning(S, "old")
<1>1. "old" \in S.leased /\ "new" \in T.leased /\ Returning(T, "new") = r
  BY TwoLeases
<1> HIDE DEF S
<1>2. Leads(name, PathPut("old"), {Stand(a, f, FALSE, S)}, {Stand(a, f, FALSE, T)}, {})
  BY <1>1, PathPutLeads
<1> HIDE DEF T
<1>3. Leads(name, PathPut("new"), {Stand(a, f, FALSE, T)}, {Stand(a, f, FALSE, r)}, {})
  BY <1>1, PathPutLeads
<1> QED BY <1>2, <1>3, LeadsJoined DEF S

(* path_rename has two leases, and gives both back.                        *)
LEMMA RenameLeads ==
  ASSUME NEW name, name \notin Silent,
         RightsOf(name) \subseteq {"PATH_RENAME_SOURCE", "PATH_RENAME_TARGET"}
  PROVE  Balanced(name, ssp_path_rename, Zero)
<1> DEFINE S == Leasing(Leasing(Zero, "old", {"PATH_RENAME_SOURCE"}), "new", {"PATH_RENAME_TARGET"})
           both == PathGet("old", {"PATH_RENAME_SOURCE"}, FALSE, TRUE)
                     \o Within(PathPut("old"), PathGet("new", {"PATH_RENAME_TARGET"}, FALSE, TRUE))
           put == PathPut("old") \o PathPut("new")
<1>1. Leads(name, both, {Calm(Zero)}, {Calm(S)}, {Zero})
  BY ZeroBase, BothPathsLead
<1>2. Authorised(name, S)
  <2>1. S.need = Zero.need
    BY ZeroBase, TwoLeases
  <2>2. S.need["references"] >= 0
    BY <2>1, ZeroBase DEF Base, Kinds
  <2>3. RightsOf(name) \subseteq {"PATH_RENAME_SOURCE"} \cup {"PATH_RENAME_TARGET"}
    OBVIOUS
  <2> QED BY <2>2, <2>3, ZeroBase, BothAuthorise
<1>3. /\ Leads(name, put, {Calm(S)}, {Calm(Zero)}, {Zero})
      /\ Leads(name, put, {Upset(S)}, {Upset(Zero)}, {Zero})
  BY ZeroBase, BothPut, NeverFails DEF Calm, Upset
<1> HIDE DEF S, both, put
<1>4. Leads(name, Host, {Calm(S)}, {Calm(S), Upset(S)}, {Zero})
  BY <1>2, HostAsked, NeverFails DEF Asked
<1>5. Leads(name, put, {Calm(S), Upset(S)}, {Calm(Zero), Upset(Zero)}, {Zero})
  BY <1>3, EitherLeads
<1>6. Leads(name, both \o Host, {Calm(Zero)}, {Calm(S), Upset(S)}, {Zero})
  BY <1>1, <1>4, LeadsJoined
<1>7. Leads(name, (both \o Host) \o put, {Calm(Zero)}, {Calm(Zero), Upset(Zero)}, {Zero})
  BY <1>5, <1>6, LeadsJoined
<1>8. Leads(name, ((both \o Host) \o put) \o Report, {Calm(Zero)}, {Calm(Zero)}, {Zero})
  BY <1>7, ReportLeads, LeadsJoined
<1>9. (both \o Host) \o put = ((both \o Host) \o PathPut("old")) \o PathPut("new")
  <2>1. IsSteps(both \o Host)
    BY <1>6 DEF Leads, IsProgram
  <2>2. IsSteps(PathPut("old")) /\ IsSteps(PathPut("new"))
    BY StepIsProgram DEF PathPut
  <2> QED BY <2>1, <2>2, StepsAssociative DEF put
<1> QED BY <1>8, <1>9 DEF Balanced, ssp_path_rename, both

----------------------------------------------------------------------------
(* Links                                                                   *)

(* A check of an argument.                                                 *)
LEMMA ArgumentLeads ==
  ASSUME NEW name, NEW a, NEW f, NEW b, NEW r
  PROVE  Leads(name, Argument, {Stand(a, f, b, r)}, {Stand(a, f, b, r)}, {r})
BY LeadsStep DEF Argument, Allowed, After, Skipping, Failing, Effect, Stand

(* The buffer of the target and the lock are given back in any case.       *)
LEMMA LinkAnewLeads ==
  ASSUME NEW name, name \notin Silent, NEW r, IsResources(r),
         Authorised(name, Gained(r, "blocks"))
  PROVE  Leads(name, LinkAnew, {Upset(Gained(r, "blocks"))},
               {Stand("ok", TRUE, FALSE, r), Stand("failed", TRUE, FALSE, r)}, {r})
<1> DEFINE G == Gained(r, "blocks")
           L == Gained(G, "locks")
           check == Within(Unlock \o Free, validate_path)
           on(s) == Stand("failed", TRUE, FALSE, s)
           made(s) == Stand("ok", TRUE, FALSE, s)
<1>1. IsResources(G) /\ Given(G, "blocks") = r /\ Given(L, "locks") = G
  BY GainedGiven DEF Kinds
<1>2. Leads(name, Lock, {on(G)}, {on(L)}, {r})
  BY LockLeads, NeverFails
<1>3. CleansUp(Unlock \o Free, L, {r})
  <2>1. CleansUp(Unlock, L, {G}) /\ CleansUp(Free, G, {r})
    BY <1>1, Unlocks, FreesBuffer
  <2>2. IsSteps(Unlock) /\ IsSteps(Free)
    BY StepIsProgram DEF Unlock, Free
  <2> HIDE DEF G, L
  <2>3. \A s \in {G} : CleansUp(Free, s, {r})
    BY <2>1
  <2> QED BY <2>1, <2>2, <2>3, CleansUpJoined
<1>4. Leads(name, check, {on(L)}, {on(L)}, {r})
  <2>1. IsSteps(Unlock \o Free)
    BY StepIsProgram, StepsJoined DEF Unlock, Free
  <2>2. \A s \in {L} : CleansUp(Unlock \o Free, s, {r})
    BY <1>3
  <2>3. Leads(name, validate_path, {on(L)}, {on(L)}, {L})
    BY ArgumentLeads DEF validate_path
  <2> HIDE DEF L, on
  <2> QED BY <2>1, <2>2, <2>3, LeadsWithin
<1>5. Leads(name, Unlock, {on(L)}, {on(G)}, {r})
  BY <1>1, UnlockLeads, NeverFails
<1>6. Leads(name, Host, {on(G)}, {made(G), on(G)}, {r})
  BY HostLeads, NeverFails
<1>7. Leads(name, Free, {made(G)}, {made(r)}, {r}) /\ Leads(name, Free, {on(G)}, {on(r)}, {r})
  BY <1>1, FreeLeads, NeverFails
<1>12. Upset(G) = on(G)
  BY DEF Upset
<1> HIDE DEF G, L, check, on, made
<1>8. Leads(name, Free, {made(G), on(G)}, {made(r), on(r)}, {r})
  BY <1>7, EitherLeads
<1>9. Leads(name, Lock \o check, {on(G)}, {on(L)}, {r})
  BY <1>2, <1>4, LeadsJoined
<1>10. Leads(name, Lock \o check \o Unlock, {on(G)}, {on(G)}, {r})
  BY <1>5, <1>9, LeadsJoined
<1>11. Leads(name, Lock \o check \o Unlock \o Host, {on(G)}, {made(G), on(G)}, {r})
  BY <1>6, <1>10, LeadsJoined
<1>13. Leads(name, Lock \o check \o Unlock \o Host \o Free, {on(G)}, {made(r), on(r)}, {r})
  BY <1>8, <1>11, LeadsJoined
<1> QED BY <1>12, <1>13 DEF LinkAnew, G, check, on, made

(* The link made anew is skipped when the first one was made or refused.   *)
LEMMA UnlessLeads ==
  ASSUME NEW name, name \notin Silent, NEW r, IsResources(r),
         Authorised(name, Gained(r, "blocks"))
  PROVE  Leads(name, Step("unless_unsupported", Len(LinkAnew)) \o LinkAnew, {Calm(r), Upset(r)},
               {Calm(r), Stand("ok", TRUE, FALSE, r), Stand("failed", TRUE, FALSE, r)}, {r})
<1> DEFINE u == [op |-> "unless_unsupported", arg |-> Len(LinkAnew), undo |-> <<>>]
           G == Gained(r, "blocks")
           Post == {Calm(r), Stand("ok", TRUE, FALSE, r), Stand("failed", TRUE, FALSE, r)}
<1>1. u.op = "unless_unsupported"
  OBVIOUS
<1>2. Leads(name, LinkAnew, {Upset(G)}, Post, {r})
  <2> DEFINE Made == {Stand("ok", TRUE, FALSE, r), Stand("failed", TRUE, FALSE, r)}
  <2>1. Leads(name, LinkAnew, {Upset(G)}, Made, {r})
    BY LinkAnewLeads
  <2>2. Made \subseteq Post
    OBVIOUS
  <2> HIDE DEF Made, Post, G
  <2> QED BY <2>1, <2>2, LeadsWeaker
<1> HIDE DEF u
<1>3. Calm(r).ret = "ok"
  BY DEF Calm, Stand
<1>4. After(u, Calm(r)) = {} /\ Skipping(u, Calm(r)) = {Calm(r)}
  BY <1>1, <1>3 DEF After, Skipping
<1>5. /\ Upset(r).ret = "failed" /\ Upset(r).failed = TRUE
      /\ Upset(r).placed = FALSE /\ Upset(r).has = r
  BY DEF Upset, Stand
<1>6. After(u, Upset(r)) = {Upset(G)} /\ Skipping(u, Upset(r)) = {Upset(r)}
  BY <1>1, <1>5 DEF After, Skipping, Upset
<1>7. Calm(r) \in Post /\ Upset(r) \in Post
  BY DEF Upset
<1> HIDE DEF Post, G
<1>8. \A c \in {Calm(r), Upset(r)} : After(u, c) \subseteq {Upset(G)} /\ Skipping(u, c) \subseteq Post
  BY <1>4, <1>6, <1>7
<1>9. Leads(name, Step("unless_unsupported", Len(LinkAnew)) \o LinkAnew, {Calm(r), Upset(r)}, Post, {r})
  BY <1>2, <1>8, SkipLeads DEF u
<1> QED BY <1>9 DEF Post

(* path_link: the refusal of validate_path keeps both leases.              *)
LEMMA LinkLeads ==
  ASSUME NEW follow, follow \in BOOLEAN
  PROVE  Settles("path_link", ssp_path_link(follow))
<1> DEFINE name == "path_link"
           S == Leasing(Leasing(Zero, "old", {"PATH_LINK_SOURCE"}), "new", {"PATH_LINK_TARGET"})
           L == Gained(S, "locks")
           both == PathGet("old", {"PATH_LINK_SOURCE"}, follow, FALSE)
                     \o Within(PathPut("old"), PathGet("new", {"PATH_LINK_TARGET"}, FALSE, TRUE))
           check == Within(Unlock, validate_path \o validate_path)
           anew == Step("unless_unsupported", Len(LinkAnew)) \o LinkAnew
           put == PathPut("old") \o PathPut("new")
           Err == {Zero, S}
           made(r) == Stand("ok", TRUE, FALSE, r)
<1>1. Leads(name, both, {Calm(Zero)}, {Calm(S)}, {Zero})
  BY ZeroBase, BothPathsLead
<1>2. IsResources(S) /\ S.need = Nothing
  <2>1. Zero.need = Nothing
    BY DEF Zero, Resources
  <2> QED BY <2>1, ZeroBase, TwoLeases
<1>3. name \notin Silent /\ RightsOf(name) = {"PATH_LINK_SOURCE", "PATH_LINK_TARGET"}
  BY DEF Silent, RightsOf, NamedRights
<1>4. Authorised(name, S)
  <2>1. S.need["references"] >= 0
    BY <1>2 DEF Nothing, Kinds
  <2>2. RightsOf(name) \subseteq {"PATH_LINK_SOURCE"} \cup {"PATH_LINK_TARGET"}
    BY <1>3
  <2> QED BY <2>1, <2>2, ZeroBase, BothAuthorise
<1>5. Authorised(name, Gained(S, "blocks"))
  <2> DEFINE G == Gained(S, "blocks")
  <2>1. G.granted = S.granted /\ G.leased = S.leased /\ G.need["references"] = S.need["references"]
    BY <1>2, GainedGiven DEF Kinds
  <2>2. G.need["references"] >= 0
    BY <1>2, <2>1 DEF Nothing, Kinds
  <2>3. RightsOf(name) \subseteq {"PATH_LINK_SOURCE"} \cup {"PATH_LINK_TARGET"}
    BY <1>3
  <2> HIDE DEF G
  <2>4. Authorised(name, G)
    BY <2>1, <2>2, <2>3, ZeroBase, BothAuthorise
  <2> QED BY <2>4 DEF G
<1>6. /\ Leads(name, put, {Calm(S)}, {Calm(Zero)}, {})
      /\ Leads(name, put, {Upset(S)}, {Upset(Zero)}, {})
      /\ Leads(name, put, {made(S)}, {made(Zero)}, {})
  BY ZeroBase, BothPut DEF Calm, Upset
<1> HIDE DEF S
<1>7. Leads(name, Lock, {Calm(S)}, {Calm(L)}, Err)
  BY LockLeads, NeverFails DEF Calm
<1>8. Leads(name, check, {Calm(L)}, {Calm(L)}, Err)
  <2>1. Balanced(name, validate_path \o validate_path, L)
    BY ChecksLead, BalancedJoined DEF validate_path
  <2>2. Leads(name, validate_path \o validate_path, {Calm(L)}, {Calm(L)}, {L})
    BY <2>1 DEF Balanced
  <2>3. \A s \in {L} : CleansUp(Unlock, s, {S})
    BY <1>2, Unlocks
  <2>4. IsSteps(Unlock)
    BY StepIsProgram DEF Unlock
  <2> HIDE DEF L
  <2>5. Leads(name, check, {Calm(L)}, {Calm(L)}, {S})
    BY <2>2, <2>3, <2>4, LeadsWithin
  <2>6. {S} \subseteq Err
    OBVIOUS
  <2> HIDE DEF check, Err
  <2> QED BY <2>5, <2>6, LeadsWeaker
<1>9. Leads(name, Unlock, {Calm(L)}, {Calm(S)}, Err)
  <2>1. Given(L, "locks") = S
    BY <1>2, GainedGiven DEF Kinds
  <2> QED BY <2>1, UnlockLeads, NeverFails DEF Calm
<1>10. Leads(name, Host, {Calm(S)}, {Calm(S), Upset(S)}, Err)
  BY <1>3, <1>4, HostAsked, NeverFails DEF Asked
<1>11. Leads(name, anew, {Calm(S), Upset(S)}, {Calm(S), made(S), Upset(S)}, Err)
  <2>1. Leads(name, anew, {Calm(S), Upset(S)}, {Calm(S), made(S), Upset(S)}, {S})
    BY <1>2, <1>3, <1>5, UnlessLeads DEF Upset
  <2>2. {S} \subseteq Err
    OBVIOUS
  <2> HIDE DEF Err, anew, made
  <2> QED BY <2>1, <2>2, LeadsWeaker
<1>12. Leads(name, put, {Calm(S), made(S), Upset(S)}, {Calm(Zero), made(Zero), Upset(Zero)}, Err)
  <2> HIDE DEF put, made, Err
  <2>1. Leads(name, put, {Calm(S), made(S)}, {Calm(Zero), made(Zero)}, {})
    BY <1>6, EitherLeads
  <2>2. Leads(name, put, {Calm(S), made(S)}, {Calm(Zero), made(Zero), Upset(Zero)}, {})
    BY <2>1, LeadsWeaker
  <2>3. Leads(name, put, {Upset(S)}, {Calm(Zero), made(Zero), Upset(Zero)}, {})
    BY <1>6, LeadsWeaker
  <2>4. Leads(name, put, {Calm(S), made(S)} \cup {Upset(S)}, {Calm(Zero), made(Zero), Upset(Zero)}, {})
    BY <2>2, <2>3, LeadsEither
  <2>5. {Calm(S), made(S)} \cup {Upset(S)} = {Calm(S), made(S), Upset(S)}
    OBVIOUS
  <2> QED BY <2>4, <2>5, NeverFails
<1>13. Leads(name, Report, {Calm(Zero), made(Zero), Upset(Zero)}, {Calm(Zero), made(Zero)}, Err)
  BY LeadsStep DEF Report, Allowed, After, Skipping, Failing, Effect, Stand, Calm, Upset
<1>14. Leads(name, both, {Calm(Zero)}, {Calm(S)}, Err)
  <2>1. {Zero} \subseteq Err
    OBVIOUS
  <2> HIDE DEF both, Err
  <2> QED BY <1>1, <2>1, LeadsWeaker
<1>15. Settled(name, Calm(Zero)) /\ Settled(name, made(Zero)) /\ Abandoned(name, Zero) /\ Abandoned(name, S)
  BY <1>2 DEF Settled, Abandoned, Calm, Stand, Zero, Resources
<1> HIDE DEF L, both, check, anew, put, Err, made
<1> DEFINE p1 == both \o Lock
           p2 == p1 \o check
           p3 == p2 \o Unlock
           p4 == p3 \o Host
<1>16. Leads(name, p4, {Calm(Zero)}, {Calm(S), Upset(S)}, Err)
  <2>1. Leads(name, p1, {Calm(Zero)}, {Calm(L)}, Err)
    BY <1>7, <1>14, LeadsJoined
  <2>2. Leads(name, p2, {Calm(Zero)}, {Calm(L)}, Err)
    BY <1>8, <2>1, LeadsJoined
  <2>3. Leads(name, p3, {Calm(Zero)}, {Calm(S)}, Err)
    BY <1>9, <2>2, LeadsJoined
  <2> QED BY <1>10, <2>3, LeadsJoined
<1> HIDE DEF p4
<1>17. Leads(name, p4 \o anew, {Calm(Zero)}, {Calm(S), made(S), Upset(S)}, Err)
  BY <1>11, <1>16, LeadsJoined
<1>18. Leads(name, (p4 \o anew) \o put, {Calm(Zero)}, {Calm(Zero), made(Zero), Upset(Zero)}, Err)
  BY <1>12, <1>17, LeadsJoined
<1>19. Leads(name, ((p4 \o anew) \o put) \o Report, {Calm(Zero)}, {Calm(Zero), made(Zero)}, Err)
  BY <1>13, <1>18, LeadsJoined
<1>20. /\ p4 \o anew = (p4 \o Step("unless_unsupported", Len(LinkAnew))) \o LinkAnew
       /\ (p4 \o anew) \o put = ((p4 \o anew) \o PathPut("old")) \o PathPut("new")
  <2>1. IsSteps(p4) /\ IsSteps(p4 \o anew)
    BY <1>16, <1>17 DEF Leads, IsProgram
  <2>2. IsSteps(PathPut("old")) /\ IsSteps(PathPut("new"))
    BY StepIsProgram DEF PathPut
  <2>3. IsSteps(LinkAnew)
    BY <1>2, <1>3, <1>5, LinkAnewLeads DEF Leads, IsProgram
  <2> DEFINE t == Step("unless_unsupported", Len(LinkAnew))
  <2>4. IsSteps(t)
    BY StepIsProgram
  <2>5. anew = t \o LinkAnew
    BY DEF anew
  <2> HIDE DEF t
  <2>6. p4 \o anew = (p4 \o t) \o LinkAnew
    <3>1. (p4 \o t) \o LinkAnew = p4 \o (t \o LinkAnew)
      BY <2>1, <2>3, <2>4, StepsAssociative, SMTT(60)
    <3> QED BY <2>5, <3>1
  <2> DEFINE w == p4 \o anew
  <2>7. IsSteps(w)
    BY <2>1
  <2> HIDE DEF w
  <2>8. w \o put = (w \o PathPut("old")) \o PathPut("new")
    BY <2>2, <2>7, StepsAssociative DEF put
  <2> QED BY <2>6, <2>8 DEF t, w
<1>21. Leads(name, ssp_path_link(follow), {Calm(Zero)}, {Calm(Zero), made(Zero)}, Err)
  BY <1>19, <1>20 DEF ssp_path_link, p4, both, check
<1>22. /\ \A c \in {Calm(Zero), made(Zero)} : Settled(name, c)
       /\ \A r \in Err : Abandoned(name, r)
  BY <1>15 DEF Err
<1> QED BY <1>21, <1>22 DEF Settles

(* path_symlink: the refusal frees the buffer but keeps the lease.         *)
LEMMA SymlinkLeads ==
  Settles("path_symlink", ssp_path_symlink)
<1> DEFINE name == "path_symlink"
           rights == {"PATH_SYMLINK"}
           G == Gained(Zero, "blocks")
           K == Leasing(Zero, "pa", rights)
           R == Leasing(G, "pa", rights)
           L == Gained(R, "locks")
           get == PathGet("pa", rights, FALSE, TRUE)
           Err == {Zero, K}
           check == Within(Unlock \o Free, validate_path)
<1>1. /\ Base(Zero) /\ Base(G) /\ IsResources(Zero) /\ IsResources(G)
      /\ Unleased(Zero, "pa") /\ Unleased(G, "pa") /\ Given(G, "blocks") = Zero
  <2>1. "pa" \in Slots /\ "blocks" \in Kinds
    BY DEF Slots, Kinds
  <2>2. Base(Zero) /\ Base(G)
    BY <2>1, ZeroBase, GainedBase
  <2>3. IsResources(Zero) /\ Unleased(Zero, "pa")
    BY <2>1, <2>2, BaseUnleased
  <2>4. IsResources(G) /\ Unleased(G, "pa")
    BY <2>1, <2>2, BaseUnleased
  <2> QED BY <2>1, <2>2, <2>3, <2>4, GainedGiven
<1>2. /\ IsResources(K) /\ K.need = Zero.need
      /\ IsResources(R) /\ Returning(R, "pa") = G /\ "pa" \in R.leased
  BY <1>1, LeasingReturning
<1>3. R = Gained(K, "blocks")
  BY DEF Gained, Leasing, Resources
<1>4. name \notin Silent /\ RightsOf(name) = rights
  BY DEF Silent, RightsOf, NamedRights
<1>5. Authorised(name, R)
  <2>1. G.need["references"] >= 0
    BY <1>1 DEF Base, Kinds
  <2> QED BY <1>1, <1>4, <2>1, LeaseAuthorises
<1>6. Given(L, "locks") = R /\ Given(R, "blocks") = K
  BY <1>2, <1>3, GainedGiven DEF Kinds
<1>20. Calm(Zero) = Stand("ok", FALSE, FALSE, Zero) /\ Settled(name, Calm(Zero)) /\ Abandoned(name, Zero)
  BY ZeroEnds DEF Calm
<1>21. Abandoned(name, K)
  BY <1>2 DEF Abandoned, Zero, Resources
<1>7. Leads(name, Allocate, {Calm(Zero)}, {Calm(G)}, Err)
  <2>1. Leads(name, Allocate, {Calm(Zero)}, {Calm(G)}, {Zero})
    BY AllocateLeads
  <2>2. {Zero} \subseteq Err
    OBVIOUS
  <2> HIDE DEF G, Err
  <2> QED BY <2>1, <2>2, LeadsWeaker
<1>8. Leads(name, Within(Free, get), {Calm(G)}, {Calm(R)}, Err)
  <2>1. Leads(name, get, {Calm(G)}, {Calm(R)}, {G})
    BY <1>1, PathGetLeads
  <2>2. CleansUp(Free, G, {Zero}) /\ IsSteps(Free)
    BY <1>1, FreesBuffer, StepIsProgram DEF Free
  <2>3. {Zero} \subseteq Err
    OBVIOUS
  <2> HIDE DEF G, R, get, Err
  <2>4. \A s \in {G} : CleansUp(Free, s, {Zero})
    BY <2>2
  <2>5. Leads(name, Within(Free, get), {Calm(G)}, {Calm(R)}, {Zero})
    BY <2>1, <2>2, <2>4, LeadsWithin
  <2> QED BY <2>3, <2>5, LeadsWeaker
<1>9. Leads(name, check, {Calm(L)}, {Calm(L)}, Err)
  <2>1. CleansUp(Unlock, L, {R}) /\ CleansUp(Free, R, {K})
    BY <1>2, <1>3, Unlocks, FreesBuffer
  <2>2. IsSteps(Unlock) /\ IsSteps(Free) /\ IsSteps(Unlock \o Free)
    BY StepIsProgram, StepsJoined DEF Unlock, Free
  <2>3. Leads(name, validate_path, {Calm(L)}, {Calm(L)}, {L})
    BY ArgumentLeads DEF validate_path, Calm
  <2>4. {K} \subseteq Err
    OBVIOUS
  <2> HIDE DEF L, R, K, Err
  <2>5. \A s \in {R} : CleansUp(Free, s, {K})
    BY <2>1
  <2>6. CleansUp(Unlock \o Free, L, {K})
    BY <2>1, <2>2, <2>5, CleansUpJoined
  <2>7. \A s \in {L} : CleansUp(Unlock \o Free, s, {K})
    BY <2>6
  <2>8. Leads(name, check, {Calm(L)}, {Calm(L)}, {K})
    BY <2>2, <2>3, <2>7, LeadsWithin
  <2> HIDE DEF check
  <2> QED BY <2>4, <2>8, LeadsWeaker
<1> HIDE DEF R, K
<1>10. Leads(name, Lock, {Calm(R)}, {Calm(L)}, Err)
  BY LockLeads, NeverFails DEF Calm
<1>11. Leads(name, Unlock, {Calm(L)}, {Calm(R)}, Err)
  BY <1>6, UnlockLeads, NeverFails DEF Calm
<1>12. Leads(name, Host, {Calm(R)}, {Calm(R), Upset(R)}, Err)
  BY <1>4, <1>5, HostAsked, NeverFails DEF Asked
<1>13. Leads(name, PathPut("pa"), {Calm(R), Upset(R)}, {Calm(G), Upset(G)}, Err)
  BY <1>2, PathPutEither
<1>14. Leads(name, Free, {Calm(G), Upset(G)}, {Calm(Zero), Upset(Zero)}, Err)
  <2>1. Leads(name, Free, {Calm(G)}, {Calm(Zero)}, Err)
    BY <1>1, FreeLeads, NeverFails DEF Calm
  <2>2. Leads(name, Free, {Upset(G)}, {Upset(Zero)}, Err)
    BY <1>1, FreeLeads, NeverFails DEF Upset
  <2> HIDE DEF G, Err
  <2> QED BY <2>1, <2>2, EitherLeads
<1>15. Leads(name, Report, {Calm(Zero), Upset(Zero)}, {Calm(Zero)}, Err)
  <2>1. Leads(name, Report, {Calm(Zero), Upset(Zero)}, {Calm(Zero)}, {Zero})
    BY ReportLeads
  <2>2. {Zero} \subseteq Err
    OBVIOUS
  <2> HIDE DEF Err
  <2> QED BY <2>1, <2>2, LeadsWeaker
<1>22. (\A c \in {Calm(Zero)} : Settled(name, c)) /\ \A r \in Err : Abandoned(name, r)
  BY <1>20, <1>21
<1> HIDE DEF G, L, check, get, Err
<1> DEFINE p1 == Allocate \o Within(Free, get)
           p2 == p1 \o Lock
           p3 == p2 \o check
           p4 == p3 \o Unlock
           p5 == p4 \o Host
           p6 == p5 \o PathPut("pa")
           p7 == p6 \o Free
<1>16. Leads(name, p3, {Calm(Zero)}, {Calm(L)}, Err)
  <2>1. Leads(name, p1, {Calm(Zero)}, {Calm(R)}, Err)
    BY <1>7, <1>8, LeadsJoined
  <2>2. Leads(name, p2, {Calm(Zero)}, {Calm(L)}, Err)
    BY <1>10, <2>1, LeadsJoined
  <2> QED BY <1>9, <2>2, LeadsJoined
<1> HIDE DEF p3
<1>17. Leads(name, p5, {Calm(Zero)}, {Calm(R), Upset(R)}, Err)
  <2>1. Leads(name, p4, {Calm(Zero)}, {Calm(R)}, Err)
    BY <1>11, <1>16, LeadsJoined
  <2> QED BY <1>12, <2>1, LeadsJoined
<1> HIDE DEF p5
<1>18. Leads(name, p7, {Calm(Zero)}, {Calm(Zero), Upset(Zero)}, Err)
  <2>1. Leads(name, p6, {Calm(Zero)}, {Calm(G), Upset(G)}, Err)
    BY <1>13, <1>17, LeadsJoined
  <2> QED BY <1>14, <2>1, LeadsJoined
<1> HIDE DEF p7
<1>19. Leads(name, p7 \o Report, {Calm(Zero)}, {Calm(Zero)}, Err)
  BY <1>15, <1>18, LeadsJoined
<1>23. Leads(name, ssp_path_symlink, {Calm(Zero)}, {Calm(Zero)}, Err)
  BY <1>19 DEF ssp_path_symlink, p7, p5, p3, check, get
<1> QED BY <1>22, <1>23 DEF Settles

----------------------------------------------------------------------------
(* New descriptors                                                         *)

(* A new descriptor is inserted or closed.                                 *)
LEMMA NewDescriptorLeads ==
  ASSUME NEW name, NEW r, IsResources(r), NEW checks, Balanced(name, checks, Gained(r, "fds"))
  PROVE  Leads(name, NewDescriptor(checks), {Calm(Gained(r, "fds"))}, {Calm(r)}, {r})
<1> DEFINE G == Gained(r, "fds")
<1>1. Given(G, "fds") = r
  BY GainedGiven DEF Kinds
<1>2. CleansUp(Close, G, {r}) /\ IsSteps(Close)
  <2> DEFINE f == [op |-> "close", arg |-> {}, undo |-> <<>>]
  <2>1. f.op = "close"
    OBVIOUS
  <2>2. Effect(f, G) = r
    <3> HIDE DEF f, G
    <3> QED BY <1>1, <2>1 DEF Effect
  <2>3. "close" \in Cleaning
    BY DEF Cleaning
  <2> QED BY <2>2, <2>3, CleansUpStep, StepIsProgram DEF Close
<1>3. Leads(name, checks, {Calm(G)}, {Calm(G)}, {G})
  BY DEF Balanced
<1> HIDE DEF G
<1>4. \A s \in {G} : CleansUp(Close, s, {r})
  BY <1>2
<1>5. Leads(name, Within(Close, checks), {Calm(G)}, {Calm(G)}, {r})
  BY <1>2, <1>3, <1>4, LeadsWithin
<1>6. Leads(name, Insert, {Calm(G)}, {Calm(r)}, {r})
  BY <1>1, LeadsStep DEF Insert, Allowed, After, Skipping, Failing, Effect, Calm, Stand
<1>7. Leads(name, Within(Close, checks) \o Insert, {Calm(G)}, {Calm(r)}, {r})
  BY <1>5, <1>6, LeadsJoined
<1> QED BY <1>7 DEF NewDescriptor, G

(* The host made a descriptor and the result is reported.                  *)
LEMMA MadeReported ==
  ASSUME NEW name, NEW r, IsResources(r), NEW checks, Balanced(name, checks, Gained(r, "fds")),
         NEW p, NEW s, Leads(name, p, {Calm(s)}, {Calm(Gained(r, "fds")), Upset(r)}, {r})
  PROVE  Leads(name, p \o Report \o NewDescriptor(checks), {Calm(s)}, {Calm(r)}, {r})
<1> DEFINE G == Gained(r, "fds")
<1>1. Leads(name, Report, {Calm(G), Upset(r)}, {Calm(G)}, {r})
  BY ReportLeads
<1>2. Leads(name, p \o Report, {Calm(s)}, {Calm(G)}, {r})
  BY <1>1, LeadsJoined
<1>3. Leads(name, NewDescriptor(checks), {Calm(G)}, {Calm(r)}, {r})
  BY NewDescriptorLeads
<1> QED BY <1>2, <1>3, LeadsJoined

(* path_open, whatever its flags.                                          *)
LEMMA OpenLeads ==
  ASSUME NEW flags
  PROVE  Balanced("path_open", ssp_path_open(flags), Zero)
<1> DEFINE name == "path_open"
           rights == {"PATH_OPEN"} \cup (IF "create" \in flags THEN {"PATH_CREATE_FILE"} ELSE {})
                       \cup (IF "truncate" \in flags THEN {"PATH_FILESTAT_SET_SIZE"} ELSE {})
           follow == "follow" \in flags
           needsFinal == "create" \in flags
           get == PathGet("pa", rights, follow, needsFinal)
           G == Gained(Zero, "fds")
           R == Leasing(Zero, "pa", rights)
           S == Gained(R, "fds")
<1>1. Base(Zero) /\ IsResources(Zero) /\ Unleased(Zero, "pa")
  BY ZeroBase, BaseUnleased DEF Slots
<1>2. IsResources(R) /\ Returning(R, "pa") = Zero /\ "pa" \in R.leased
  BY <1>1, LeasingReturning
<1>3. S = Leasing(G, "pa", rights)
  BY DEF Gained, Leasing, Resources
<1>4. IsResources(G) /\ Unleased(G, "pa")
  BY <1>1, GainedBase, BaseUnleased DEF Kinds, Slots
<1>5. Returning(S, "pa") = G /\ "pa" \in S.leased
  BY <1>3, <1>4, LeasingReturning
<1>6. name \notin Silent /\ RightsOf(name) \subseteq rights
  BY DEF Silent, RightsOf, NamedRights
<1>7. Authorised(name, R)
  <2>1. Zero.need["references"] >= 0
    BY <1>1 DEF Base, Kinds
  <2> HIDE DEF rights
  <2> QED BY <1>1, <1>6, <2>1, LeaseAuthorises
<1>8. Leads(name, get, {Calm(Zero)}, {Calm(R)}, {Zero})
  <2>1. follow \in BOOLEAN /\ needsFinal \in BOOLEAN
    OBVIOUS
  <2> HIDE DEF rights, follow, needsFinal
  <2> QED BY <1>1, <2>1, PathGetLeads
<1> HIDE DEF rights, get, R, S
<1>9. Leads(name, Make("fds"), {Calm(R)}, {Calm(S), Upset(R)}, {Zero})
  BY <1>6, <1>7, MakeLeads, NeverFails DEF Kinds, S
<1>10. Leads(name, PathPut("pa"), {Calm(S), Upset(R)}, {Calm(G), Upset(Zero)}, {Zero})
  BY <1>2, <1>5, PathPutEither
<1>11. Leads(name, get \o Make("fds"), {Calm(Zero)}, {Calm(S), Upset(R)}, {Zero})
  BY <1>8, <1>9, LeadsJoined
<1>12. Leads(name, get \o Make("fds") \o PathPut("pa"), {Calm(Zero)}, {Calm(G), Upset(Zero)}, {Zero})
  BY <1>10, <1>11, LeadsJoined
<1>13. Balanced(name, Argument \o Argument, G)
  BY ChecksLead, BalancedJoined
<1>14. Leads(name, (get \o Make("fds") \o PathPut("pa")) \o Report \o NewDescriptor(Argument \o Argument),
             {Calm(Zero)}, {Calm(Zero)}, {Zero})
  BY <1>1, <1>12, <1>13, MadeReported
<1> QED BY <1>14 DEF Balanced, ssp_path_open, get, rights

(* sock_open.                                                              *)
LEMMA SocketOpenLeads ==
  Balanced("sock_open", ssp_sock_open, Zero)
<1>1. "sock_open" \notin Silent /\ Authorised("sock_open", Zero)
  BY DEF Silent, Authorised, RightsOf, NamedRights, OtherRights, WithoutDescriptor
<1>2. Leads("sock_open", os_socket_create, {Calm(Zero)}, {Calm(Gained(Zero, "fds")), Upset(Zero)}, {Zero})
  BY <1>1, MakeLeads, NeverFails DEF os_socket_create, Kinds
<1>3. Balanced("sock_open", Argument, Gained(Zero, "fds"))
  BY ChecksLead
<1> QED BY <1>2, <1>3, ZeroBase, MadeReported DEF ssp_sock_open, Base, Balanced

(* sock_accept.                                                            *)
LEMMA AcceptLeads ==
  Balanced("sock_accept", ssp_sock_accept, Zero)
<1> DEFINE name == "sock_accept"
           rights == {"SOCK_ACCEPT"}
           G == Gained(Zero, "fds")
           R == Referring(Zero, rights)
           S == Gained(R, "fds")
<1>1. Base(Zero) /\ Base(G) /\ IsResources(Zero)
  BY ZeroBase, GainedBase DEF Kinds, Base
<1>2. S = Referring(G, rights)
  <2>1. Zero.need \in [Kinds -> Int] /\ "fds" \in Kinds /\ "references" \in Kinds
    BY <1>1 DEF IsResources, Kinds
  <2>2. Plus(Plus(Zero.need, "references", 1), "fds", 1) = Plus(Plus(Zero.need, "fds", 1), "references", 1)
    BY <2>1, MinusPlus
  <2> QED BY <2>2 DEF Referring, Gained, Entitled, Resources
<1>3. name \notin Silent /\ RightsOf(name) = rights
  BY DEF Silent, RightsOf, NamedRights
<1>4. Authorised(name, R)
  BY <1>1, <1>3, ReferenceAuthorises
<1>5. Leads(name, Reference(rights), {Calm(Zero)}, {Calm(R)}, {Zero})
  BY ReferenceLeads
<1>6. Leads(name, Release, {Calm(S)}, {Calm(G)}, {Zero})
  <2>1. Leads(name, Release, {Stand("ok", FALSE, FALSE, S)}, {Stand("ok", FALSE, FALSE, G)}, {})
    BY <1>1, <1>2, ReleaseLeads
  <2> QED BY <2>1, NeverFails DEF Calm
<1>7. Leads(name, Release, {Upset(R)}, {Upset(Zero)}, {Zero})
  <2>1. Leads(name, Release, {Stand("failed", TRUE, FALSE, R)}, {Stand("failed", TRUE, FALSE, Zero)}, {})
    BY <1>1, ReleaseLeads
  <2> QED BY <2>1, NeverFails DEF Upset
<1>8. Leads(name, os_socket_accept, {Calm(R)}, {Calm(S), Upset(R)}, {Zero})
  BY <1>3, <1>4, MakeLeads, NeverFails DEF os_socket_accept, Kinds
<1> HIDE DEF R, S, G
<1>9. Leads(name, Release, {Calm(S), Upset(R)}, {Calm(G), Upset(Zero)}, {Zero})
  BY <1>6, <1>7, EitherLeads
<1>10. Leads(name, Reference(rights) \o os_socket_accept, {Calm(Zero)}, {Calm(S), Upset(R)}, {Zero})
  BY <1>5, <1>8, LeadsJoined
<1>11. Leads(name, Reference(rights) \o os_socket_accept \o Release, {Calm(Zero)}, {Calm(G), Upset(Zero)}, {Zero})
  BY <1>9, <1>10, LeadsJoined
<1>12. Balanced(name, Argument, G)
  BY ChecksLead
<1>13. Leads(name, (Reference(rights) \o os_socket_accept \o Release) \o Report \o NewDescriptor(Argument),
             {Calm(Zero)}, {Calm(Zero)}, {Zero})
  BY <1>1, <1>11, <1>12, MadeReported DEF G
<1> QED BY <1>13 DEF Balanced, ssp_sock_accept

----------------------------------------------------------------------------
(* Calls of other shapes                                                   *)

(* The list of addresses is freed, and then the buffer.                    *)
LEMMA ResolveLeads ==
  Balanced("sock_addr_resolve", ssp_sock_addr_resolve, Zero)
<1> DEFINE name == "sock_addr_resolve"
           G == Gained(Zero, "blocks")
           GG == Gained(G, "blocks")
<1>1. Base(Zero) /\ IsResources(Zero) /\ Base(G) /\ IsResources(G)
  BY ZeroBase, GainedBase DEF Kinds, Base
<1>2. name \notin Silent /\ RightsOf(name) = {} /\ name \in WithoutDescriptor
  BY DEF Silent, RightsOf, NamedRights, OtherRights, WithoutDescriptor
<1>3. Authorised(name, G) /\ Authorised(name, GG)
  BY <1>2 DEF Authorised
<1>4. Given(GG, "blocks") = G
  BY <1>1, GainedGiven DEF Kinds
<1> HIDE DEF G
<1>5. Leads(name, Make("blocks"), {Calm(G)}, {Calm(GG), Upset(G)}, {})
  BY <1>2, <1>3, MakeLeads DEF Kinds
<1>6. Leads(name, sockaddr_to_bh_sockaddr \o Free, {Calm(GG)}, {Calm(G), Upset(G)}, {})
  <2>1. Leads(name, Host, {Calm(GG)}, {Calm(GG), Upset(GG)}, {})
    BY <1>2, <1>3, HostAsked DEF Asked
  <2>2. Leads(name, Free, {Calm(GG)}, {Calm(G)}, {})
    BY <1>4, FreeLeads DEF Calm
  <2>3. Leads(name, Free, {Upset(GG)}, {Upset(G)}, {})
    BY <1>4, FreeLeads DEF Upset
  <2> HIDE DEF GG
  <2>4. Leads(name, Free, {Calm(GG), Upset(GG)}, {Calm(G), Upset(G)}, {})
    BY <2>2, <2>3, EitherLeads
  <2> QED BY <2>1, <2>4, LeadsJoined DEF sockaddr_to_bh_sockaddr
<1>7. Asked(name, os_socket_addr_resolve, G)
  BY <1>5, <1>6, ThenLeads DEF os_socket_addr_resolve, Asked
<1> DEFINE p == ns_lookup_list_search \o os_socket_addr_resolve
<1>8. Leads(name, p, {Calm(G)}, {Calm(G), Upset(G)}, {G})
  <2>1. Leads(name, ns_lookup_list_search, {Calm(G)}, {Calm(G)}, {G})
    BY ChecksLead DEF Balanced, ns_lookup_list_search
  <2>2. Leads(name, os_socket_addr_resolve, {Calm(G)}, {Calm(G), Upset(G)}, {G})
    BY <1>7, NeverFails DEF Asked
  <2> QED BY <2>1, <2>2, LeadsJoined
<1>9. Balanced(name, p \o Report, G)
  BY <1>8, ReportLeads, LeadsJoined DEF Balanced
<1>10. Leads(name, Allocate, {Calm(Zero)}, {Calm(G)}, {Zero})
  BY AllocateLeads DEF G
<1>11. Balanced(name, Allocate \o Within(Free, p \o Report) \o Free, Zero)
  BY <1>1, <1>9, <1>10, BufferedLeads DEF G
<1> QED BY <1>11 DEF ssp_sock_addr_resolve

(* The result of shutdown is dropped, the reference is not.                *)
LEMMA ShutdownLeads ==
  Settles("sock_shutdown", ssp_sock_shutdown)
<1> DEFINE name == "sock_shutdown"
           R == Referring(Zero, {})
           made(r) == Stand("ok", TRUE, FALSE, r)
<1>1. name \notin Silent /\ RightsOf(name) = {}
  BY DEF Silent, RightsOf, NamedRights, OtherRights
<1>2. Authorised(name, R)
  BY <1>1, ZeroBase, ReferenceAuthorises
<1>3. Leads(name, Reference({}), {Calm(Zero)}, {Calm(R)}, {Zero})
  BY ReferenceLeads
<1>4. Leads(name, Release, {Calm(R)}, {Calm(Zero)}, {Zero})
  BY ZeroBase, ReleaseLeads, NeverFails DEF Calm
<1>5. Leads(name, Release, {made(R)}, {made(Zero)}, {Zero})
  BY ZeroBase, ReleaseLeads, NeverFails
<1>6. Leads(name, Host, {Calm(R)}, {Calm(R), Upset(R)}, {Zero})
  BY <1>1, <1>2, HostAsked, NeverFails DEF Asked
<1> HIDE DEF R
<1>7. Leads(name, Ignored, {Calm(R), Upset(R)}, {Calm(R), made(R)}, {Zero})
  BY <1>1, LeadsStep DEF Ignored, Allowed, After, Skipping, Failing, Effect, Calm, Upset, Stand
<1>8. Leads(name, Report, {Calm(Zero), made(Zero)}, {Calm(Zero), made(Zero)}, {Zero})
  BY LeadsStep DEF Report, Allowed, After, Skipping, Failing, Effect, Calm, Stand
<1>9. Settled(name, Calm(Zero)) /\ Settled(name, made(Zero)) /\ Abandoned(name, Zero)
  BY DEF Settled, Abandoned, Calm, Stand, Zero, Resources
<1> HIDE DEF made
<1>10. Leads(name, os_socket_shutdown, {Calm(R)}, {Calm(R), made(R)}, {Zero})
  BY <1>6, <1>7, LeadsJoined DEF os_socket_shutdown
<1>11. Leads(name, Release, {Calm(R), made(R)}, {Calm(Zero), made(Zero)}, {Zero})
  BY <1>4, <1>5, EitherLeads
<1>12. Leads(name, Reference({}) \o os_socket_shutdown, {Calm(Zero)}, {Calm(R), made(R)}, {Zero})
  BY <1>3, <1>10, LeadsJoined
<1>13. Leads(name, Reference({}) \o os_socket_shutdown \o Release, {Calm(Zero)}, {Calm(Zero), made(Zero)}, {Zero})
  BY <1>11, <1>12, LeadsJoined
<1>14. Leads(name, ssp_sock_shutdown, {Calm(Zero)}, {Calm(Zero), made(Zero)}, {Zero})
  BY <1>8, <1>13, LeadsJoined DEF ssp_sock_shutdown, WithReference
<1>15. (\A c \in {Calm(Zero), made(Zero)} : Settled(name, c)) /\ \A r \in {Zero} : Abandoned(name, r)
  BY <1>9
<1> QED BY <1>14, <1>15 DEF Settles

(* fd_readdir: once the directory stands where it was asked to, nothing is *)
(* refused; a failure after the first entry is not reported.               *)
LEMMA ReaddirLeads ==
  Settles("fd_readdir", wasi_fd_readdir)
<1> DEFINE name == "fd_readdir"
           rights == {"FD_READDIR"}
           R == Referring(Zero, rights)
           L == Gained(R, "locks")
           on(r) == {Stand("ok", FALSE, TRUE, r), Stand("ok", TRUE, TRUE, r), Stand("failed", TRUE, TRUE, r)}
           done == {Stand("ok", FALSE, TRUE, Zero), Stand("ok", TRUE, TRUE, Zero)}
           open == Within(Unlock \o Release, Step("opendir", {}))
<1>1. IsResources(R) /\ Entitled(Given(R, "references"), "fd", {}) = Zero
  BY ZeroBase, ReferringBase
<1> HIDE DEF R
<1>2. Given(L, "locks") = R
  BY <1>1, GainedGiven DEF Kinds
<1>3. Leads(name, Reference(rights), {Calm(Zero)}, {Calm(R)}, {Zero})
  BY ReferenceLeads DEF R
<1>4. Leads(name, Lock, {Calm(R)}, {Calm(L)}, {Zero})
  BY LockLeads, NeverFails DEF Calm
<1>5. CleansUp(Unlock \o Release, L, {Zero}) /\ IsSteps(Unlock \o Release)
  <2> DEFINE s == [op |-> "release", arg |-> {}, undo |-> <<>>]
  <2>1. s.op = "release" /\ "release" \in Cleaning
    BY DEF Cleaning
  <2> HIDE DEF s
  <2>2. Effect(s, R) = Zero
    BY <1>1, <2>1 DEF Effect
  <2>3. CleansUp(Release, R, {Zero})
    BY <2>1, <2>2, CleansUpStep DEF Release, s
  <2>4. CleansUp(Unlock, L, {R})
    BY <1>1, Unlocks
  <2>5. IsSteps(Unlock) /\ IsSteps(Release)
    BY StepIsProgram DEF Unlock, Release
  <2> HIDE DEF L
  <2>6. \A t \in {R} : CleansUp(Release, t, {Zero})
    BY <2>3
  <2> QED BY <2>4, <2>5, <2>6, CleansUpJoined, StepsJoined
<1> HIDE DEF L
<1>6. Leads(name, open, {Calm(L)}, {Calm(L)}, {Zero})
  <2>1. Leads(name, Step("opendir", {}), {Calm(L)}, {Calm(L)}, {L})
    BY LeadsStep DEF Allowed, After, Skipping, Failing, Effect, Calm, Stand
  <2>2. \A s \in {L} : CleansUp(Unlock \o Release, s, {Zero})
    BY <1>5
  <2> QED BY <1>5, <2>1, <2>2, LeadsWithin
<1>7. Leads(name, Step("seekdir", {}), {Calm(L)}, {Stand("ok", FALSE, TRUE, L)}, {Zero})
  BY LeadsStep DEF Allowed, After, Skipping, Failing, Effect, Calm, Stand
<1>8. Leads(name, Step("readdir", {}), {Stand("ok", FALSE, TRUE, L)}, on(L), {Zero})
  BY LeadsStep DEF Allowed, After, Skipping, Failing, Effect, Stand
<1>9. Leads(name, Unlock, on(L), on(R), {Zero})
  BY <1>2, LeadsStep DEF Unlock, Allowed, After, Skipping, Failing, Effect, Stand
<1>10. Leads(name, Release, on(R), on(Zero), {Zero})
  BY <1>1, LeadsStep DEF Release, Allowed, After, Skipping, Failing, Effect, Stand
<1>11. Leads(name, Report, on(Zero), done, {Zero})
  BY LeadsStep DEF Report, Allowed, After, Skipping, Failing, Effect, Stand
<1>12. \A c \in done : Settled(name, c)
  BY DEF Settled, Stand, Zero, Resources
<1>13. Leads(name, Address, {Calm(Zero)}, {Calm(Zero)}, {Zero})
  BY ChecksLead DEF Balanced
<1> HIDE DEF on, open, done
<1> DEFINE p1 == Reference(rights) \o Lock
           p2 == p1 \o open
           p3 == p2 \o Step("seekdir", {})
           p4 == p3 \o Step("readdir", {})
           p5 == p4 \o Unlock
           p6 == p5 \o Release
           p7 == p6 \o Report
<1>14. Leads(name, p3, {Calm(Zero)}, {Stand("ok", FALSE, TRUE, L)}, {Zero})
  <2>1. Leads(name, p1, {Calm(Zero)}, {Calm(L)}, {Zero})
    BY <1>3, <1>4, LeadsJoined
  <2>2. Leads(name, p2, {Calm(Zero)}, {Calm(L)}, {Zero})
    BY <1>6, <2>1, LeadsJoined
  <2> QED BY <1>7, <2>2, LeadsJoined
<1> HIDE DEF p3
<1>15. Leads(name, p5, {Calm(Zero)}, on(R), {Zero})
  <2>1. Leads(name, p4, {Calm(Zero)}, on(L), {Zero})
    BY <1>8, <1>14, LeadsJoined
  <2> QED BY <1>9, <2>1, LeadsJoined
<1> HIDE DEF p5
<1>16. Leads(name, p7, {Calm(Zero)}, done, {Zero})
  <2>1. Leads(name, p6, {Calm(Zero)}, on(Zero), {Zero})
    BY <1>10, <1>15, LeadsJoined
  <2> QED BY <1>11, <2>1, LeadsJoined
<1>17. p7 = ssp_fd_readdir
  BY DEF p5, p3, open, ssp_fd_readdir
<1>18. Leads(name, wasi_fd_readdir, {Calm(Zero)}, done, {Zero})
  BY <1>13, <1>16, <1>17, LeadsJoined DEF wasi_fd_readdir
<1>19. \A r \in {Zero} : Abandoned(name, r)
  BY ZeroEnds
<1> QED BY <1>12, <1>18, <1>19 DEF Settles

(* poll_oneoff: its loops give back what they get (see Polling below).     *)
LEMMA PollLeads ==
  Balanced("poll_oneoff", wasi_poll_oneoff, Zero)
<1> DEFINE name == "poll_oneoff"
           checks == Address \o Address \o Address
           p == Step("poll", {})
<1>1. Balanced(name, checks, Zero)
  BY ChecksLead, BalancedJoined
<1>2. Leads(name, p, {Calm(Zero)}, {Calm(Zero), Upset(Zero)}, {Zero})
  BY LeadsStep DEF Allowed, After, Skipping, Failing, Effect, Calm, Upset, Stand
<1> HIDE DEF checks, p
<1>3. Leads(name, checks \o p, {Calm(Zero)}, {Calm(Zero), Upset(Zero)}, {Zero})
  BY <1>1, <1>2, LeadsJoined DEF Balanced
<1>4. Leads(name, (checks \o p) \o Report, {Calm(Zero)}, {Calm(Zero)}, {Zero})
  BY <1>3, ReportLeads, LeadsJoined
<1> QED BY <1>4 DEF Balanced, wasi_poll_oneoff, checks, p

(* fd_fdstat_get: the host is asked under the lock of the table.           *)
LEMMA StatLeads ==
  Balanced("fd_fdstat_get", ssp_fd_fdstat_get, Zero)
<1> DEFINE name == "fd_fdstat_get"
           L == Gained(Zero, "locks")
           check == Within(Unlock, Argument)
<1>1. IsResources(Zero) /\ Base(Zero)
  BY ZeroBase DEF Base
<1>2. name \notin Silent /\ RightsOf(name) = {}
  BY DEF Silent, RightsOf, NamedRights, OtherRights
<1>3. Given(L, "locks") = Zero /\ L.need["locks"] > 0
  BY <1>1, GainedGiven DEF Kinds, Zero, Nothing, Resources
<1>4. Leads(name, Lock, {Calm(Zero)}, {Calm(L)}, {Zero})
  BY LockLeads, NeverFails DEF Calm
<1>5. Leads(name, check, {Calm(L)}, {Calm(L)}, {Zero})
  <2>1. Leads(name, Argument, {Calm(L)}, {Calm(L)}, {L})
    BY ChecksLead DEF Balanced
  <2>2. \A s \in {L} : CleansUp(Unlock, s, {Zero})
    BY <1>1, Unlocks
  <2>3. IsSteps(Unlock)
    BY StepIsProgram DEF Unlock
  <2> HIDE DEF L
  <2> QED BY <2>1, <2>2, <2>3, LeadsWithin
<1>6. Authorised(name, L)
  BY <1>2, <1>3 DEF Authorised
<1> HIDE DEF L, check
<1>7. Leads(name, Host, {Calm(L)}, {Calm(L), Upset(L)}, {Zero})
  BY <1>2, <1>6, HostAsked, NeverFails DEF Asked
<1>8. Leads(name, Unlock, {Calm(L), Upset(L)}, {Calm(Zero), Upset(Zero)}, {Zero})
  <2>1. Leads(name, Unlock, {Calm(L)}, {Calm(Zero)}, {Zero})
    BY <1>3, UnlockLeads, NeverFails DEF Calm
  <2>2. Leads(name, Unlock, {Upset(L)}, {Upset(Zero)}, {Zero})
    BY <1>3, UnlockLeads, NeverFails DEF Upset
  <2> QED BY <2>1, <2>2, EitherLeads
<1>9. Leads(name, Lock \o check, {Calm(Zero)}, {Calm(L)}, {Zero})
  BY <1>4, <1>5, LeadsJoined
<1>10. Leads(name, Lock \o check \o Host, {Calm(Zero)}, {Calm(L), Upset(L)}, {Zero})
  BY <1>7, <1>9, LeadsJoined
<1>11. Leads(name, Lock \o check \o Host \o Unlock, {Calm(Zero)}, {Calm(Zero), Upset(Zero)}, {Zero})
  BY <1>8, <1>10, LeadsJoined
<1>12. Leads(name, Lock \o check \o Host \o Unlock \o Report, {Calm(Zero)}, {Calm(Zero)}, {Zero})
  BY <1>11, ReportLeads, LeadsJoined
<1> QED BY <1>12 DEF Balanced, ssp_fd_fdstat_get, check

----------------------------------------------------------------------------
(* Every call settles                                                      *)

(* What a call begins with, and that with a buffer.                        *)
LEMMA ZeroFacts ==
  /\ Base(Zero) /\ IsResources(Zero)
  /\ Base(Gained(Zero, "blocks")) /\ IsResources(Gained(Zero, "blocks"))
BY ZeroBase, GainedBase DEF Base, Kinds

(* One system call with a reference, with or without a buffer.             *)
LEMMA SettlesOnReference ==
  ASSUME NEW name, name \notin Silent, NEW rights, RightsOf(name) \subseteq rights
  PROVE  /\ Balanced(name, OnReference(rights), Zero)
         /\ Balanced(name, OnReference(rights), Gained(Zero, "blocks"))
BY ZeroFacts, OnReferenceLeads

(* The descriptor calls that act on a reference.                           *)
LEMMA ReferenceCalls ==
  /\ Settles("fd_datasync", wasi_fd_datasync) /\ Settles("fd_sync", wasi_fd_sync)
  /\ Settles("fd_fdstat_set_flags", wasi_fd_fdstat_set_flags)
  /\ Settles("fd_allocate", wasi_fd_allocate)
  /\ Settles("fd_filestat_set_size", wasi_fd_filestat_set_size)
  /\ Settles("fd_tell", wasi_fd_tell) /\ Settles("fd_filestat_get", wasi_fd_filestat_get)
  /\ Settles("fd_advise", wasi_fd_advise)
  /\ Settles("fd_filestat_set_times", wasi_fd_filestat_set_times)
  /\ \A moves \in BOOLEAN : Settles("fd_seek", wasi_fd_seek(moves))
<1>1. /\ "fd_datasync" \notin Silent /\ RightsOf("fd_datasync") = {"FD_DATASYNC"}
      /\ "fd_sync" \notin Silent /\ RightsOf("fd_sync") = {"FD_SYNC"}
      /\ "fd_fdstat_set_flags" \notin Silent
      /\ RightsOf("fd_fdstat_set_flags") = {"FD_FDSTAT_SET_FLAGS"}
      /\ "fd_allocate" \notin Silent /\ RightsOf("fd_allocate") = {"FD_ALLOCATE"}
      /\ "fd_filestat_set_size" \notin Silent
      /\ RightsOf("fd_filestat_set_size") = {"FD_FILESTAT_SET_SIZE"}
  BY DEF Silent, RightsOf, NamedRights
<1>2. /\ "fd_tell" \notin Silent /\ RightsOf("fd_tell") = {"FD_TELL"}
      /\ "fd_filestat_get" \notin Silent /\ RightsOf("fd_filestat_get") = {"FD_FILESTAT_GET"}
      /\ "fd_advise" \notin Silent /\ RightsOf("fd_advise") = {"FD_ADVISE"}
      /\ "fd_filestat_set_times" \notin Silent
      /\ RightsOf("fd_filestat_set_times") = {"FD_FILESTAT_SET_TIMES"}
      /\ "fd_seek" \notin Silent /\ RightsOf("fd_seek") = {}
  BY DEF Silent, RightsOf, NamedRights, OtherRights
<1>3. /\ Settles("fd_datasync", wasi_fd_datasync) /\ Settles("fd_sync", wasi_fd_sync)
      /\ Settles("fd_fdstat_set_flags", wasi_fd_fdstat_set_flags)
  BY <1>1, SettlesOnReference, BalancedSettles
     DEF wasi_fd_datasync, ssp_fd_datasync, wasi_fd_sync, ssp_fd_sync,
         wasi_fd_fdstat_set_flags, ssp_fd_fdstat_set_flags
<1>4. /\ Settles("fd_allocate", wasi_fd_allocate)
      /\ Settles("fd_filestat_set_size", wasi_fd_filestat_set_size)
  BY <1>1, SettlesOnReference, BalancedSettles
     DEF wasi_fd_allocate, ssp_fd_allocate, wasi_fd_filestat_set_size, ssp_fd_filestat_set_size
<1>5. Settles("fd_tell", wasi_fd_tell) /\ Settles("fd_filestat_get", wasi_fd_filestat_get)
  BY <1>2, SettlesOnReference, CheckedLeads, BalancedSettles
     DEF wasi_fd_tell, ssp_fd_tell, wasi_fd_filestat_get, ssp_fd_filestat_get
<1>6. /\ Settles("fd_advise", wasi_fd_advise)
      /\ Settles("fd_filestat_set_times", wasi_fd_filestat_set_times)
  BY <1>2, SettlesOnReference, CheckedLeads, BalancedSettles
     DEF wasi_fd_advise, ssp_fd_advise, wasi_fd_filestat_set_times, ssp_fd_filestat_set_times
<1>7. ASSUME NEW moves \in BOOLEAN PROVE Settles("fd_seek", wasi_fd_seek(moves))
  <2> DEFINE rights == IF moves THEN {"FD_SEEK", "FD_TELL"} ELSE {"FD_TELL"}
  <2>1. Balanced("fd_seek", OnReference(rights), Zero)
    BY <1>2, SettlesOnReference
  <2>2. Balanced("fd_seek", Address \o (Argument \o OnReference(rights)), Zero)
    BY <2>1, CheckedLeads
  <2> QED BY <2>2, BalancedSettles DEF wasi_fd_seek, ssp_fd_seek
<1> QED BY <1>3, <1>4, <1>5, <1>6, <1>7

(* Those that copy a vector of buffers.                                    *)
LEMMA VectorCalls ==
  /\ Settles("fd_read", wasi_fd_read) /\ Settles("fd_write", wasi_fd_write)
  /\ Settles("fd_pread", wasi_fd_pread) /\ Settles("fd_pwrite", wasi_fd_pwrite)
<1>1. /\ "fd_read" \notin Silent /\ RightsOf("fd_read") = {"FD_READ"}
      /\ "fd_write" \notin Silent /\ RightsOf("fd_write") = {"FD_WRITE"}
      /\ "fd_pread" \notin Silent /\ RightsOf("fd_pread") = {}
      /\ "fd_pwrite" \notin Silent /\ RightsOf("fd_pwrite") = {}
  BY DEF Silent, RightsOf, NamedRights, OtherRights
<1>2. Settles("fd_read", wasi_fd_read) /\ Settles("fd_write", wasi_fd_write)
  BY <1>1, SettlesOnReference, ZeroFacts, WithVectorLeads, BalancedSettles
     DEF wasi_fd_read, ssp_fd_read, wasi_fd_write, ssp_fd_write
<1>3. Settles("fd_pread", wasi_fd_pread) /\ Settles("fd_pwrite", wasi_fd_pwrite)
  BY <1>1, SettlesOnReference, CheckedLeads, ZeroFacts, WithVectorLeads, BalancedSettles
     DEF wasi_fd_pread, ssp_fd_pread, wasi_fd_pwrite, ssp_fd_pwrite
<1> QED BY <1>2, <1>3

(* Under the lock of the table.                                            *)
LEMMA LockedShapes ==
  ASSUME NEW name, NEW p, Balanced(name, p, Gained(Zero, "locks"))
  PROVE  /\ Balanced(name, Lock \o Within(Unlock, p) \o Unlock, Zero)
         /\ Balanced(name, Lock \o Unlock \o Argument \o Lock \o Within(Unlock, p) \o Unlock, Zero)
<1> DEFINE L == Gained(Zero, "locks")
           twice == Lock \o Unlock \o Argument
<1>1. Given(L, "locks") = Zero
  BY ZeroFacts, GainedGiven DEF Kinds
<1>2. Leads(name, Lock, {Calm(Zero)}, {Calm(L)}, {Zero})
  BY LockLeads, NeverFails DEF Calm
<1>3. Leads(name, Unlock, {Calm(L)}, {Calm(Zero)}, {Zero})
  BY <1>1, UnlockLeads, NeverFails DEF Calm
<1>4. Balanced(name, twice, Zero)
  <2> HIDE DEF L
  <2>1. Balanced(name, Lock \o Unlock, Zero)
    BY <1>2, <1>3, LeadsJoined DEF Balanced
  <2> QED BY <2>1, ChecksLead, BalancedJoined
<1> HIDE DEF twice
<1>5. Leads(name, twice \o Lock, {Calm(Zero)}, {Calm(L)}, {Zero})
  BY <1>4, TakesLead
<1>6. Balanced(name, Lock \o Within(Unlock, p) \o Unlock, Zero)
  BY <1>2, ZeroFacts, LockedLeads
<1>7. Balanced(name, (twice \o Lock) \o Within(Unlock, p) \o Unlock, Zero)
  BY <1>5, ZeroFacts, LockedLeads
<1> QED BY <1>6, <1>7 DEF twice

(* The calls on the tables of descriptors and of preopened directories.    *)
LEMMA TableCalls ==
  /\ Settles("fd_prestat_get", wasi_fd_prestat_get)
  /\ Settles("fd_prestat_dir_name", wasi_fd_prestat_dir_name)
  /\ Settles("fd_close", wasi_fd_close) /\ Settles("fd_renumber", wasi_fd_renumber)
  /\ Settles("fd_fdstat_get", wasi_fd_fdstat_get)
  /\ Settles("fd_fdstat_set_rights", wasi_fd_fdstat_set_rights)
<1>1. ASSUME NEW name
      PROVE  /\ Balanced(name, Argument, Gained(Zero, "locks"))
             /\ Balanced(name, Argument \o Argument, Gained(Zero, "locks"))
  BY ChecksLead, BalancedJoined
<1>2. /\ Settles("fd_prestat_get", wasi_fd_prestat_get)
      /\ Settles("fd_prestat_dir_name", wasi_fd_prestat_dir_name)
  BY <1>1, LockedShapes, CheckedLeads, BalancedSettles
     DEF wasi_fd_prestat_get, ssp_fd_prestat_get, wasi_fd_prestat_dir_name, ssp_fd_prestat_dir_name
<1>3. Settles("fd_close", wasi_fd_close) /\ Settles("fd_renumber", wasi_fd_renumber)
  BY <1>1, LockedShapes, BalancedSettles
     DEF wasi_fd_close, ssp_fd_close, wasi_fd_renumber, ssp_fd_renumber
<1>4. /\ Settles("fd_fdstat_get", wasi_fd_fdstat_get)
      /\ Settles("fd_fdstat_set_rights", wasi_fd_fdstat_set_rights)
  BY <1>1, LockedShapes, StatLeads, CheckedLeads, BalancedSettles
     DEF wasi_fd_fdstat_get, wasi_fd_fdstat_set_rights, ssp_fd_fdstat_set_rights
<1> QED BY <1>2, <1>3, <1>4

(* One system call on a path, from nothing.                                *)
LEMMA SettlesOnPath ==
  ASSUME NEW name, name \notin Silent, NEW rights, RightsOf(name) \subseteq rights,
         NEW follow, NEW needsFinal, follow \in BOOLEAN, needsFinal \in BOOLEAN
  PROVE  Balanced(name, OnPath(rights, follow, needsFinal), Zero)
BY ZeroFacts, OnPathLeads

(* The calls on paths.                                                     *)
LEMMA PathCalls ==
  /\ Settles("path_create_directory", wasi_path_create_directory)
  /\ Settles("path_readlink", wasi_path_readlink)
  /\ Settles("path_unlink_file", wasi_path_unlink_file)
  /\ Settles("path_remove_directory", wasi_path_remove_directory)
  /\ Settles("path_rename", wasi_path_rename)
  /\ Settles("path_symlink", wasi_path_symlink)
  /\ \A follow \in BOOLEAN : /\ Settles("path_filestat_get", wasi_path_filestat_get(follow))
                             /\ Settles("path_filestat_set_times", wasi_path_filestat_set_times(follow))
                             /\ Settles("path_link", wasi_path_link(follow))
  /\ \A flags : Settles("path_open", wasi_path_open(flags))
<1>1. /\ "path_create_directory" \notin Silent
      /\ RightsOf("path_create_directory") = {"PATH_CREATE_DIRECTORY"}
      /\ "path_readlink" \notin Silent /\ RightsOf("path_readlink") = {"PATH_READLINK"}
      /\ "path_unlink_file" \notin Silent /\ RightsOf("path_unlink_file") = {"PATH_UNLINK_FILE"}
      /\ "path_remove_directory" \notin Silent
      /\ RightsOf("path_remove_directory") = {"PATH_REMOVE_DIRECTORY"}
  BY DEF Silent, RightsOf, NamedRights
<1>2. /\ "path_rename" \notin Silent
      /\ RightsOf("path_rename") = {"PATH_RENAME_SOURCE", "PATH_RENAME_TARGET"}
      /\ "path_filestat_get" \notin Silent /\ RightsOf("path_filestat_get") = {"PATH_FILESTAT_GET"}
      /\ "path_filestat_set_times" \notin Silent
      /\ RightsOf("path_filestat_set_times") = {"PATH_FILESTAT_SET_TIMES"}
  BY DEF Silent, RightsOf, NamedRights
<1>3. /\ Settles("path_create_directory", wasi_path_create_directory)
      /\ Settles("path_unlink_file", wasi_path_unlink_file)
      /\ Settles("path_remove_directory", wasi_path_remove_directory)
  BY <1>1, SettlesOnPath, BalancedSettles
     DEF wasi_path_create_directory, ssp_path_create_directory, wasi_path_unlink_file,
         ssp_path_unlink_file, wasi_path_remove_directory, ssp_path_remove_directory
<1>4. Settles("path_readlink", wasi_path_readlink) /\ Settles("path_rename", wasi_path_rename)
  BY <1>1, <1>2, SettlesOnPath, CheckedLeads, RenameLeads, BalancedSettles
     DEF wasi_path_readlink, ssp_path_readlink, wasi_path_rename
<1>5. ASSUME NEW follow \in BOOLEAN
      PROVE  /\ Settles("path_filestat_get", wasi_path_filestat_get(follow))
             /\ Settles("path_filestat_set_times", wasi_path_filestat_set_times(follow))
             /\ Settles("path_link", wasi_path_link(follow))
  BY <1>2, SettlesOnPath, CheckedLeads, LinkLeads, BalancedSettles
     DEF wasi_path_filestat_get, ssp_path_filestat_get, wasi_path_filestat_set_times,
         ssp_path_filestat_set_times, wasi_path_link
<1>6. ASSUME NEW flags PROVE Settles("path_open", wasi_path_open(flags))
  BY OpenLeads, CheckedLeads, BalancedSettles DEF wasi_path_open
<1> QED BY <1>3, <1>4, <1>5, <1>6, SymlinkLeads DEF wasi_path_symlink

(* The calls that need no descriptor, and poll_oneoff and fd_readdir.      *)
LEMMA PlainCalls ==
  /\ Settles("args_get", wasi_args_get) /\ Settles("args_sizes_get", wasi_args_sizes_get)
  /\ Settles("environ_get", wasi_environ_get) /\ Settles("environ_sizes_get", wasi_environ_sizes_get)
  /\ Settles("clock_res_get", wasi_clock_res_get) /\ Settles("clock_time_get", wasi_clock_time_get)
  /\ Settles("proc_exit", wasi_proc_exit) /\ Settles("proc_raise", wasi_proc_raise)
  /\ Settles("random_get", wasi_random_get) /\ Settles("sched_yield", wasi_sched_yield)
  /\ Settles("sock_close", wasi_sock_close)
  /\ Settles("poll_oneoff", wasi_poll_oneoff) /\ Settles("fd_readdir", wasi_fd_readdir)
<1>1. ASSUME NEW name
      PROVE  /\ Balanced(name, Address \o Address \o <<>>, Zero)
             /\ Balanced(name, Address \o Address \o Allocate \o <<>> \o Free, Zero)
  <2> DEFINE G == Gained(Zero, "blocks")
  <2>1. Balanced(name, Address \o Address, Zero)
    BY ChecksLead, BalancedJoined
  <2>2. Leads(name, <<>>, {Calm(Zero)}, {Calm(Zero)}, {Zero}) /\ Leads(name, <<>>, {Calm(G)}, {Calm(G)}, {Zero})
    BY LeadsNowhere
  <2>3. Leads(name, Address \o Address \o Allocate, {Calm(Zero)}, {Calm(G)}, {Zero})
    BY <2>1, TakesLead
  <2>4. Given(G, "blocks") = Zero
    BY ZeroFacts, GainedGiven DEF Kinds
  <2>5. Leads(name, Free, {Calm(G)}, {Calm(Zero)}, {Zero})
    BY <2>4, FreeLeads, NeverFails DEF Calm
  <2> HIDE DEF G
  <2>6. Leads(name, Address \o Address \o Allocate \o <<>>, {Calm(Zero)}, {Calm(G)}, {Zero})
    BY <2>2, <2>3, LeadsJoined
  <2>7. Leads(name, Address \o Address \o Allocate \o <<>> \o Free, {Calm(Zero)}, {Calm(Zero)}, {Zero})
    BY <2>5, <2>6, LeadsJoined
  <2>8. Leads(name, Address \o Address \o <<>>, {Calm(Zero)}, {Calm(Zero)}, {Zero})
    BY <2>1, <2>2, LeadsJoined DEF Balanced
  <2> QED BY <2>7, <2>8 DEF Balanced
<1>2. /\ Settles("args_get", wasi_args_get) /\ Settles("args_sizes_get", wasi_args_sizes_get)
      /\ Settles("environ_get", wasi_environ_get) /\ Settles("environ_sizes_get", wasi_environ_sizes_get)
  BY <1>1, BalancedSettles
     DEF wasi_args_get, wasi_args_sizes_get, wasi_environ_get, wasi_environ_sizes_get, ssp_args_environ
<1>3. ASSUME NEW name \in {"clock_res_get", "clock_time_get", "sched_yield"}
      PROVE  Asked(name, Host, Zero)
  <2>1. name \notin Silent /\ RightsOf(name) = {} /\ name \in WithoutDescriptor
    BY DEF Silent, RightsOf, NamedRights, OtherRights, WithoutDescriptor
  <2> QED BY <2>1, HostAsked DEF Authorised
<1>4. /\ Settles("clock_res_get", wasi_clock_res_get)
      /\ Settles("clock_time_get", wasi_clock_time_get)
      /\ Settles("sched_yield", wasi_sched_yield)
  <2>1. ASSUME NEW name \in {"clock_res_get", "clock_time_get", "sched_yield"}
        PROVE  /\ Balanced(name, Address \o (Argument \o Host \o Report), Zero)
               /\ Balanced(name, Host \o Report, Zero)
    <3>1. Leads(name, Argument, {Calm(Zero)}, {Calm(Zero)}, {Zero})
      BY ChecksLead DEF Balanced
    <3>2. Leads(name, Host, {Calm(Zero)}, {Calm(Zero), Upset(Zero)}, {Zero})
      BY <1>3, NeverFails DEF Asked
    <3>3. Leads(name, Argument \o Host, {Calm(Zero)}, {Calm(Zero), Upset(Zero)}, {Zero})
      BY <3>1, <3>2, LeadsJoined
    <3>4. Balanced(name, Argument \o Host \o Report, Zero)
      BY <3>3, ReportLeads, LeadsJoined DEF Balanced
    <3>5. Balanced(name, Host \o Report, Zero)
      BY <1>3, AskedReported
    <3> QED BY <3>4, <3>5, CheckedLeads
  <2> QED BY <2>1, BalancedSettles
          DEF wasi_clock_res_get, ssp_clock_res_get, wasi_clock_time_get, ssp_clock_time_get,
              wasi_sched_yield, ssp_sched_yield
<1>5. Settles("proc_exit", wasi_proc_exit) /\ Settles("proc_raise", wasi_proc_raise)
  <2>1. ASSUME NEW name \in {"proc_exit", "proc_raise"}
        PROVE  Leads(name, Step("throw", {}), {Calm(Zero)}, {Calm(Zero)}, {Zero})
    BY LeadsStep DEF Allowed, After, Skipping, Failing, Effect, Calm, Stand
  <2> QED BY <2>1, BalancedSettles DEF wasi_proc_exit, wasi_proc_raise, Balanced
<1>6. Settles("random_get", wasi_random_get) /\ Settles("sock_close", wasi_sock_close)
  <2>1. Leads("random_get", Step("random", {}), {Calm(Zero)}, {Calm(Zero)}, {Zero})
    BY LeadsStep DEF Allowed, After, Skipping, Failing, Effect, Calm, Stand
  <2>2. Leads("sock_close", Step("refuse", {}), {Calm(Zero)}, {Calm(Zero)}, {Zero})
    BY LeadsStep DEF Allowed, After, Skipping, Failing, Effect, Calm, Stand
  <2> QED BY <2>1, <2>2, BalancedSettles DEF wasi_random_get, wasi_sock_close, Balanced
<1>7. Settles("poll_oneoff", wasi_poll_oneoff)
  BY PollLeads, BalancedSettles
<1> QED BY <1>2, <1>4, <1>5, <1>6, <1>7, ReaddirLeads

(* A call on a socket, the programs of the platform layer between the      *)
(* reference and its release.                                              *)
LEMMA SocketLeads ==
  ASSUME NEW name, name \notin Silent, NEW rights, RightsOf(name) \subseteq rights, NEW r, Base(r)
  PROVE  /\ Asked(name, Host, Referring(r, rights)) /\ Asked(name, Refused, Referring(r, rights))
         /\ \A p : Asked(name, p, Referring(r, rights)) =>
              /\ Balanced(name, WithReference(rights, p), r)
              /\ Asked(name, Then(Host, p), Referring(r, rights))
<1>1. Asked(name, Host, Referring(r, rights))
  BY ReferenceAuthorises, HostAsked
<1>2. Asked(name, Refused, Referring(r, rights))
  BY RefusedAsked
<1> QED BY <1>1, <1>2, ThenAsked, WithReferenceLeads

(* The calls on sockets.                                                   *)
LEMMA SocketCalls ==
  /\ Settles("sock_accept", wasi_sock_accept) /\ Settles("sock_open", wasi_sock_open)
  /\ Settles("sock_addr_local", wasi_sock_addr_local)
  /\ Settles("sock_addr_remote", wasi_sock_addr_remote)
  /\ Settles("sock_addr_resolve", wasi_sock_addr_resolve)
  /\ Settles("sock_bind", wasi_sock_bind) /\ Settles("sock_connect", wasi_sock_connect)
  /\ Settles("sock_listen", wasi_sock_listen) /\ Settles("sock_shutdown", wasi_sock_shutdown)
<1>1. /\ "sock_addr_local" \notin Silent /\ RightsOf("sock_addr_local") = {"SOCK_ADDR_LOCAL"}
      /\ "sock_addr_remote" \notin Silent /\ RightsOf("sock_addr_remote") = {"SOCK_ADDR_LOCAL"}
      /\ "sock_listen" \notin Silent /\ RightsOf("sock_listen") = {"SOCK_LISTEN"}
      /\ "sock_bind" \notin Silent /\ RightsOf("sock_bind") = {"SOCK_BIND"}
      /\ "sock_connect" \notin Silent /\ RightsOf("sock_connect") = {"SOCK_BIND"}
  BY DEF Silent, RightsOf, NamedRights, OtherRights
<1>2. Settles("sock_accept", wasi_sock_accept) /\ Settles("sock_open", wasi_sock_open)
  BY AcceptLeads, SocketOpenLeads, BalancedSettles DEF wasi_sock_accept, wasi_sock_open
<1>3. Settles("sock_addr_resolve", wasi_sock_addr_resolve)
  BY ResolveLeads, BalancedSettles DEF wasi_sock_addr_resolve
<1>4. Settles("sock_addr_local", wasi_sock_addr_local) /\ Settles("sock_addr_remote", wasi_sock_addr_remote)
  <2>1. /\ Balanced("sock_addr_local", WithReference({"SOCK_ADDR_LOCAL"}, Then(Host, Host)), Zero)
        /\ Balanced("sock_addr_remote", WithReference({"SOCK_ADDR_LOCAL"}, Then(Host, Host)), Zero)
    BY <1>1, ZeroFacts, SocketLeads
  <2> QED BY <2>1, CheckedLeads, BalancedSettles
          DEF wasi_sock_addr_local, ssp_sock_addr_local, os_socket_addr_local, sockaddr_to_bh_sockaddr,
              wasi_sock_addr_remote, ssp_sock_addr_remote, os_socket_addr_remote
<1>5. Settles("sock_listen", wasi_sock_listen)
  BY <1>1, ZeroFacts, SocketLeads, BalancedSettles DEF wasi_sock_listen, ssp_sock_listen, os_socket_listen
<1>6. ASSUME NEW name, NEW p, Balanced(name, p, Zero)
      PROVE  Balanced(name, Argument \o Argument \o p, Zero)
  <2>1. Balanced(name, Argument \o Argument, Zero)
    BY ChecksLead, BalancedJoined
  <2> QED BY <1>6, <2>1, BalancedJoined
<1>7. Settles("sock_bind", wasi_sock_bind)
  <2> DEFINE R == Referring(Zero, {"SOCK_BIND"})
             p1 == Then(Host, Host)
             p2 == Then(Host, p1)
             p3 == Then(Host, p2)
             p4 == Then(Host, p3)
  <2>1. Asked("sock_bind", p1, R)
    BY <1>1, ZeroFacts, SocketLeads
  <2> HIDE DEF p1
  <2>2. Asked("sock_bind", p2, R)
    BY <1>1, <2>1, ZeroFacts, SocketLeads
  <2> HIDE DEF p2
  <2>3. Asked("sock_bind", p3, R)
    BY <1>1, <2>2, ZeroFacts, SocketLeads
  <2> HIDE DEF p3
  <2>4. Asked("sock_bind", p4, R)
    BY <1>1, <2>3, ZeroFacts, SocketLeads
  <2> HIDE DEF p4
  <2>5. Balanced("sock_bind", WithReference({"SOCK_BIND"}, p4), Zero)
    BY <1>1, <2>4, ZeroFacts, SocketLeads
  <2>6. Balanced("sock_bind", Argument \o Argument \o WithReference({"SOCK_BIND"}, p4), Zero)
    BY <1>6, <2>5
  <2>7. p4 = os_socket_bind
    BY DEF p4, p3, p2, p1, os_socket_bind, textual_addr_to_sockaddr
  <2> QED BY <2>6, <2>7, BalancedSettles
          DEF wasi_sock_bind, ssp_sock_bind, wasi_addr_to_string, addr_pool_search
<1>8. Settles("sock_connect", wasi_sock_connect)
  <2> DEFINE p == Then(Host, Host)
  <2>1. Balanced("sock_connect", WithReference({"SOCK_BIND"}, p), Zero)
    BY <1>1, ZeroFacts, SocketLeads
  <2>2. Balanced("sock_connect", Argument \o Argument \o WithReference({"SOCK_BIND"}, p), Zero)
    BY <1>6, <2>1
  <2> QED BY <2>2, BalancedSettles
          DEF wasi_sock_connect, ssp_sock_connect, wasi_addr_to_string, addr_pool_search,
              os_socket_connect, textual_addr_to_sockaddr
<1> QED BY <1>2, <1>3, <1>4, <1>5, <1>7, <1>8, ShutdownLeads DEF wasi_sock_shutdown

(* What is received or sent is copied through a buffer.                    *)
LEMMA TransferCalls ==
  /\ Settles("sock_recv", wasi_sock_recv) /\ Settles("sock_recv_from", wasi_sock_recv_from)
  /\ Settles("sock_send", wasi_sock_send) /\ Settles("sock_send_to", wasi_sock_send_to)
<1> DEFINE G == Gained(Zero, "blocks")
<1>1. /\ "sock_recv" \notin Silent /\ RightsOf("sock_recv") = {"FD_READ"}
      /\ "sock_recv_from" \notin Silent /\ RightsOf("sock_recv_from") = {"FD_READ"}
      /\ "sock_send" \notin Silent /\ RightsOf("sock_send") = {"FD_WRITE"}
      /\ "sock_send_to" \notin Silent /\ RightsOf("sock_send_to") = {"FD_WRITE"}
  BY DEF Silent, RightsOf, NamedRights, OtherRights
<1>2. ASSUME NEW name
      PROVE  Leads(name, allocate_iovec_app_buffer, {Calm(Zero)}, {Calm(G)}, {Zero})
  <2>1. Balanced(name, Argument \o Address \o Argument, Zero)
    BY ChecksLead, BalancedJoined
  <2> QED BY <2>1, TakesLead DEF allocate_iovec_app_buffer
<1>3. ASSUME NEW name
      PROVE  Leads(name, Address, {Calm(Zero)}, {Calm(Zero)}, {Zero})
  BY ChecksLead DEF Balanced
<1>4. ASSUME NEW name \in {"sock_recv", "sock_recv_from"}
      PROVE  Balanced(name, wasi_sock_recv_from, Zero)
  <2> DEFINE p == ssp_sock_recv_from \o copy_buffer_to_iovec_app
             first == Address \o allocate_iovec_app_buffer
  <2>1. Balanced(name, ssp_sock_recv_from, G)
    <3>1. name \notin Silent /\ RightsOf(name) = {"FD_READ"}
      BY <1>1
    <3> QED BY <3>1, ZeroFacts, SocketLeads
            DEF ssp_sock_recv_from, os_socket_recv_from, sockaddr_to_bh_sockaddr
  <2>2. Balanced(name, copy_buffer_to_iovec_app, G)
    BY ChecksLead, BalancedJoined DEF copy_buffer_to_iovec_app
  <2>3. Balanced(name, p, G)
    BY <2>1, <2>2, BalancedJoined
  <2>4. Leads(name, first, {Calm(Zero)}, {Calm(G)}, {Zero})
    BY <1>2, <1>3, LeadsJoined
  <2> HIDE DEF p, first
  <2>5. Balanced(name, first \o Within(Free, p) \o Free, Zero)
    BY <2>3, <2>4, ZeroFacts, BufferedLeads
  <2> QED BY <2>5 DEF wasi_sock_recv_from, p, first
<1>5. Settles("sock_recv", wasi_sock_recv) /\ Settles("sock_recv_from", wasi_sock_recv_from)
  BY <1>4, CheckedLeads, BalancedSettles DEF wasi_sock_recv
<1>6. ASSUME NEW name, NEW p, Balanced(name, p, G)
      PROVE  Balanced(name, Address \o convert_iovec_app_to_buffer \o Within(Free, p) \o Free, Zero)
  <2> DEFINE first == Address \o convert_iovec_app_to_buffer
  <2>1. Leads(name, Within(Free, Address), {Calm(G)}, {Calm(G)}, {Zero})
    <3>1. Leads(name, Address, {Calm(G)}, {Calm(G)}, {G})
      BY ChecksLead DEF Balanced
    <3>2. \A s \in {G} : CleansUp(Free, s, {Zero})
      BY ZeroFacts, FreesBuffer
    <3>3. IsSteps(Free)
      BY StepIsProgram DEF Free
    <3> HIDE DEF G
    <3> QED BY <3>1, <3>2, <3>3, LeadsWithin
  <2>2. Leads(name, convert_iovec_app_to_buffer, {Calm(Zero)}, {Calm(G)}, {Zero})
    BY <1>2, <2>1, LeadsJoined DEF convert_iovec_app_to_buffer
  <2>3. Leads(name, first, {Calm(Zero)}, {Calm(G)}, {Zero})
    BY <1>3, <2>2, LeadsJoined
  <2> HIDE DEF first
  <2>4. Balanced(name, first \o Within(Free, p) \o Free, Zero)
    BY <1>6, <2>3, ZeroFacts, BufferedLeads
  <2> QED BY <2>4 DEF first
<1>7. Balanced("sock_send", ssp_sock_send, G)
  BY <1>1, ZeroFacts, SocketLeads DEF ssp_sock_send, os_socket_send
<1>8. Balanced("sock_send_to", ssp_sock_send_to, G)
  <2> DEFINE q == WithReference({"FD_WRITE"}, os_socket_send_to)
  <2>1. Balanced("sock_send_to", q, G)
    BY <1>1, ZeroFacts, SocketLeads DEF os_socket_send_to
  <2>2. Balanced("sock_send_to", Argument \o Argument, G)
    BY ChecksLead, BalancedJoined
  <2> HIDE DEF q, G
  <2>3. Balanced("sock_send_to", Argument \o Argument \o q, G)
    BY <2>1, <2>2, BalancedJoined
  <2> QED BY <2>3 DEF ssp_sock_send_to, wasi_addr_to_string, addr_pool_search, q
<1> QED BY <1>5, <1>6, <1>7, <1>8, BalancedSettles DEF wasi_sock_send, wasi_sock_send_to

(* A socket option: one host call, or none.                                *)
LEMMA OptionCalls ==
  ASSUME NEW name, name \notin Silent, RightsOf(name) = {}, NEW option, option \in {Host, Refused}
  PROVE  /\ Settles(name, ssp_sock_option(option))
         /\ Settles(name, Address \o ssp_sock_option(option))
         /\ Settles(name, Address \o Address \o ssp_sock_option(option))
<1> DEFINE p == WithReference({}, option)
<1>1. Balanced(name, p, Zero)
  BY ZeroFacts, SocketLeads
<1> HIDE DEF p
<1>2. Balanced(name, Address \o p, Zero) /\ Balanced(name, Address \o Address, Zero)
  BY <1>1, ChecksLead, BalancedJoined, CheckedLeads
<1>3. Balanced(name, Address \o Address \o p, Zero)
  BY <1>1, <1>2, BalancedJoined
<1> QED BY <1>1, <1>2, <1>3, BalancedSettles DEF ssp_sock_option, p

(* A call without flags has one program.                                   *)
LEMMA PlainProgram ==
  ASSUME NEW p, NEW flags, flags \in DOMAIN Plain(p)
  PROVE  Plain(p)[flags] = p
BY DEF Plain

(* The calls on options ask for no rights.                                 *)
LEMMA OptionNames ==
  ASSUME NEW name,
         name \in {"sock_get_flag", "sock_get_linger", "sock_get_socket_option", "sock_get_tcp_option",
                   "sock_get_ip_multicast_loop", "sock_get_ip_option", "sock_set_flag",
                   "sock_set_linger", "sock_set_socket_option", "sock_set_tcp_option",
                   "sock_set_ip_multicast_loop", "sock_set_ip_membership", "sock_set_ip_option"}
  PROVE  name \notin Silent /\ RightsOf(name) = {}
BY DEF Silent, RightsOf, NamedRights, OtherRights

(* The calls on options that name theirs.                                  *)
LEMMA PlainOptions ==
  /\ Settles("sock_get_flag", wasi_sock_get_flag) /\ Settles("sock_get_linger", wasi_sock_get_linger)
  /\ Settles("sock_get_ip_multicast_loop", wasi_sock_get_ip_multicast_loop)
  /\ Settles("sock_set_flag", wasi_sock_set_flag) /\ Settles("sock_set_linger", wasi_sock_set_linger)
  /\ Settles("sock_set_ip_multicast_loop", wasi_sock_set_ip_multicast_loop)
  /\ Settles("sock_set_ip_membership", wasi_sock_set_ip_membership)
<1>1. /\ Settles("sock_get_flag", wasi_sock_get_flag) /\ Settles("sock_set_flag", wasi_sock_set_flag)
  BY OptionNames, OptionCalls
     DEF wasi_sock_get_flag, wasi_sock_set_flag, os_socket_getbooloption, os_socket_setbooloption
<1>2. /\ Settles("sock_get_linger", wasi_sock_get_linger) /\ Settles("sock_set_linger", wasi_sock_set_linger)
  BY OptionNames, OptionCalls
     DEF wasi_sock_get_linger, wasi_sock_set_linger, ssp_sock_linger, ssp_sock_option, os_socket_linger
<1>3. /\ Settles("sock_get_ip_multicast_loop", wasi_sock_get_ip_multicast_loop)
      /\ Settles("sock_set_ip_multicast_loop", wasi_sock_set_ip_multicast_loop)
      /\ Settles("sock_set_ip_membership", wasi_sock_set_ip_membership)
  BY OptionNames, OptionCalls
     DEF wasi_sock_get_ip_multicast_loop, wasi_sock_set_ip_multicast_loop, ssp_sock_ip_multicast_loop,
         os_socket_ip_multicast_loop, wasi_sock_set_ip_membership, ssp_sock_set_ip_membership,
         os_socket_set_ip_membership, ssp_sock_option
<1> QED BY <1>1, <1>2, <1>3

(* The options of a kind, and how a call with flags chooses one.           *)
LEMMA ChosenOption ==
  ASSUME NEW options, NEW flags, flags \in {{o} : o \in DOMAIN options}
  PROVE  (CHOOSE o \in flags : TRUE) \in DOMAIN options
<1>1. PICK o \in DOMAIN options : flags = {o}
  OBVIOUS
<1>2. (CHOOSE x \in flags : TRUE) \in flags
  BY <1>1
<1> QED BY <1>1, <1>2

(* An option is given to the host or refused.                              *)
LEMMA KindsOfOptions ==
  /\ \A o \in DOMAIN SocketOptions : SocketOptions[o] \in {Host, Refused}
  /\ \A o \in DOMAIN TcpOptions : TcpOptions[o] \in {Host, Refused}
  /\ \A o \in DOMAIN IpOptions : IpOptions[o] \in {Host, Refused}
BY DEF SocketOptions, TcpOptions, IpOptions, os_socket_buf_size, os_socket_timeout,
       os_socket_getbooloption, os_socket_reuse_port, os_socket_tcp_keep, os_socket_ip_ttl

(* The calls that are given the option as an argument.                     *)
LEMMA ChosenOptions ==
  ASSUME NEW flags
  PROVE  /\ flags \in {{o} : o \in DOMAIN SocketOptions} =>
              LET o == CHOOSE o \in flags : TRUE
              IN  /\ Settles("sock_get_socket_option", wasi_sock_get_socket_option(o))
                  /\ Settles("sock_set_socket_option", wasi_sock_set_socket_option(o))
         /\ flags \in {{o} : o \in DOMAIN TcpOptions} =>
              LET o == CHOOSE o \in flags : TRUE
              IN  /\ Settles("sock_get_tcp_option", wasi_sock_get_tcp_option(o))
                  /\ Settles("sock_set_tcp_option", wasi_sock_set_tcp_option(o))
         /\ flags \in {{o} : o \in DOMAIN IpOptions} =>
              LET o == CHOOSE o \in flags : TRUE
              IN  /\ Settles("sock_get_ip_option", wasi_sock_get_ip_option(o))
                  /\ Settles("sock_set_ip_option", wasi_sock_set_ip_option(o))
<1> DEFINE o == CHOOSE o \in flags : TRUE
<1>1. ASSUME flags \in {{x} : x \in DOMAIN SocketOptions}
      PROVE  /\ Settles("sock_get_socket_option", wasi_sock_get_socket_option(o))
             /\ Settles("sock_set_socket_option", wasi_sock_set_socket_option(o))
  <2>1. SocketOptions[o] \in {Host, Refused}
    BY <1>1, ChosenOption, KindsOfOptions
  <2> HIDE DEF o
  <2> QED BY <2>1, OptionNames, OptionCalls DEF wasi_sock_get_socket_option, wasi_sock_set_socket_option
<1>2. ASSUME flags \in {{x} : x \in DOMAIN TcpOptions}
      PROVE  /\ Settles("sock_get_tcp_option", wasi_sock_get_tcp_option(o))
             /\ Settles("sock_set_tcp_option", wasi_sock_set_tcp_option(o))
  <2>1. TcpOptions[o] \in {Host, Refused}
    BY <1>2, ChosenOption, KindsOfOptions
  <2> HIDE DEF o
  <2> QED BY <2>1, OptionNames, OptionCalls DEF wasi_sock_get_tcp_option, wasi_sock_set_tcp_option
<1>3. ASSUME flags \in {{x} : x \in DOMAIN IpOptions}
      PROVE  /\ Settles("sock_get_ip_option", wasi_sock_get_ip_option(o))
             /\ Settles("sock_set_ip_option", wasi_sock_set_ip_option(o))
  <2>1. IpOptions[o] \in {Host, Refused}
    BY <1>3, ChosenOption, KindsOfOptions
  <2> HIDE DEF o
  <2> QED BY <2>1, OptionNames, OptionCalls DEF wasi_sock_get_ip_option, wasi_sock_set_ip_option
<1> QED BY <1>1, <1>2, <1>3

(* Every program of the table, whatever its flags.                         *)
LEMMA EveryCallSettles ==
  ASSUME NEW name, name \in Calls, NEW flags, flags \in DOMAIN native_symbols_libc_wasi[name]
  PROVE  Settles(name, native_symbols_libc_wasi[name][flags])
<1> DEFINE prog == native_symbols_libc_wasi[name][flags]
<1>1. CASE name \in {"fd_datasync", "fd_sync", "fd_fdstat_set_flags", "fd_allocate",
                     "fd_filestat_set_size", "fd_tell", "fd_filestat_get", "fd_advise",
                     "fd_filestat_set_times"}
  BY <1>1, ReferenceCalls, PlainProgram DEF native_symbols_libc_wasi
<1>2. CASE name = "fd_seek"
  <2>1. native_symbols_libc_wasi["fd_seek"] = Moving(wasi_fd_seek)
    BY DEF native_symbols_libc_wasi
  <2>2. flags \in SUBSET {"move"} /\ prog = wasi_fd_seek("move" \in flags)
    BY <1>2, <2>1 DEF Moving
  <2>3. ("move" \in flags) \in BOOLEAN
    OBVIOUS
  <2>4. Settles("fd_seek", wasi_fd_seek("move" \in flags))
    BY <2>3, ReferenceCalls
  <2> QED BY <1>2, <2>2, <2>4
<1>3. CASE name \in {"fd_read", "fd_write", "fd_pread", "fd_pwrite"}
  BY <1>3, VectorCalls, PlainProgram DEF native_symbols_libc_wasi
<1>4. CASE name \in {"fd_prestat_get", "fd_prestat_dir_name", "fd_close", "fd_renumber",
                     "fd_fdstat_get", "fd_fdstat_set_rights"}
  BY <1>4, TableCalls, PlainProgram DEF native_symbols_libc_wasi
<1>5. CASE name \in {"path_create_directory", "path_readlink", "path_unlink_file",
                     "path_remove_directory", "path_rename", "path_symlink"}
  BY <1>5, PathCalls, PlainProgram DEF native_symbols_libc_wasi
<1>6. CASE name \in {"path_filestat_get", "path_filestat_set_times", "path_link"}
  <2>1. /\ native_symbols_libc_wasi["path_filestat_get"] = Following(wasi_path_filestat_get)
        /\ native_symbols_libc_wasi["path_filestat_set_times"] = Following(wasi_path_filestat_set_times)
        /\ native_symbols_libc_wasi["path_link"] = Following(wasi_path_link)
    BY DEF native_symbols_libc_wasi
  <2>2. ("follow" \in flags) \in BOOLEAN
    OBVIOUS
  <2>3. /\ Settles("path_filestat_get", wasi_path_filestat_get("follow" \in flags))
        /\ Settles("path_filestat_set_times", wasi_path_filestat_set_times("follow" \in flags))
        /\ Settles("path_link", wasi_path_link("follow" \in flags))
    BY <2>2, PathCalls
  <2>4. CASE name = "path_filestat_get"
    <3>1. flags \in SUBSET {"follow"} /\ prog = wasi_path_filestat_get("follow" \in flags)
      BY <2>1, <2>4 DEF Following
    <3> QED BY <2>3, <2>4, <3>1
  <2>5. CASE name = "path_filestat_set_times"
    <3>1. flags \in SUBSET {"follow"} /\ prog = wasi_path_filestat_set_times("follow" \in flags)
      BY <2>1, <2>5 DEF Following
    <3> QED BY <2>3, <2>5, <3>1
  <2>6. CASE name = "path_link"
    <3>1. flags \in SUBSET {"follow"} /\ prog = wasi_path_link("follow" \in flags)
      BY <2>1, <2>6 DEF Following
    <3> QED BY <2>3, <2>6, <3>1
  <2> QED BY <1>6, <2>4, <2>5, <2>6
<1>7. CASE name = "path_open"
  BY <1>7, PathCalls DEF native_symbols_libc_wasi
<1>8. CASE name \in {"args_get", "args_sizes_get", "environ_get", "environ_sizes_get",
                     "clock_res_get", "clock_time_get", "proc_exit", "proc_raise",
                     "random_get", "sched_yield", "sock_close", "poll_oneoff", "fd_readdir"}
  BY <1>8, PlainCalls, PlainProgram DEF native_symbols_libc_wasi
<1>9. CASE name \in {"sock_accept", "sock_open", "sock_addr_local", "sock_addr_remote",
                     "sock_addr_resolve", "sock_bind", "sock_connect", "sock_listen", "sock_shutdown"}
  BY <1>9, SocketCalls, PlainProgram DEF native_symbols_libc_wasi
<1>10. CASE name \in {"sock_recv", "sock_recv_from", "sock_send", "sock_send_to"}
  BY <1>10, TransferCalls, PlainProgram DEF native_symbols_libc_wasi
<1>11. CASE name \in {"sock_get_flag", "sock_get_linger", "sock_get_ip_multicast_loop",
                      "sock_set_flag", "sock_set_linger", "sock_set_ip_multicast_loop",
                      "sock_set_ip_membership"}
  BY <1>11, PlainOptions, PlainProgram DEF native_symbols_libc_wasi
<1>12. CASE name \in {"sock_get_socket_option", "sock_set_socket_option"}
  <2> DEFINE o == CHOOSE o \in flags : TRUE
  <2>1. /\ native_symbols_libc_wasi["sock_get_socket_option"] = Option(wasi_sock_get_socket_option, SocketOptions)
        /\ native_symbols_libc_wasi["sock_set_socket_option"] = Option(wasi_sock_set_socket_option, SocketOptions)
    BY DEF native_symbols_libc_wasi
  <2>2. CASE name = "sock_get_socket_option"
    <3>1. flags \in {{x} : x \in DOMAIN SocketOptions} /\ prog = wasi_sock_get_socket_option(o)
      BY <2>1, <2>2 DEF Option
    <3> QED BY <2>2, <3>1, ChosenOptions
  <2>3. CASE name = "sock_set_socket_option"
    <3>1. flags \in {{x} : x \in DOMAIN SocketOptions} /\ prog = wasi_sock_set_socket_option(o)
      BY <2>1, <2>3 DEF Option
    <3> QED BY <2>3, <3>1, ChosenOptions
  <2> QED BY <1>12, <2>2, <2>3
<1>13. CASE name \in {"sock_get_tcp_option", "sock_set_tcp_option"}
  <2> DEFINE o == CHOOSE o \in flags : TRUE
  <2>1. /\ native_symbols_libc_wasi["sock_get_tcp_option"] = Option(wasi_sock_get_tcp_option, TcpOptions)
        /\ native_symbols_libc_wasi["sock_set_tcp_option"] = Option(wasi_sock_set_tcp_option, TcpOptions)
    BY DEF native_symbols_libc_wasi
  <2>2. CASE name = "sock_get_tcp_option"
    <3>1. flags \in {{x} : x \in DOMAIN TcpOptions} /\ prog = wasi_sock_get_tcp_option(o)
      BY <2>1, <2>2 DEF Option
    <3> QED BY <2>2, <3>1, ChosenOptions
  <2>3. CASE name = "sock_set_tcp_option"
    <3>1. flags \in {{x} : x \in DOMAIN TcpOptions} /\ prog = wasi_sock_set_tcp_option(o)
      BY <2>1, <2>3 DEF Option
    <3> QED BY <2>3, <3>1, ChosenOptions
  <2> QED BY <1>13, <2>2, <2>3
<1>14. CASE name \in {"sock_get_ip_option", "sock_set_ip_option"}
  <2> DEFINE o == CHOOSE o \in flags : TRUE
  <2>1. /\ native_symbols_libc_wasi["sock_get_ip_option"] = Option(wasi_sock_get_ip_option, IpOptions)
        /\ native_symbols_libc_wasi["sock_set_ip_option"] = Option(wasi_sock_set_ip_option, IpOptions)
    BY DEF native_symbols_libc_wasi
  <2>2. CASE name = "sock_get_ip_option"
    <3>1. flags \in {{x} : x \in DOMAIN IpOptions} /\ prog = wasi_sock_get_ip_option(o)
      BY <2>1, <2>2 DEF Option
    <3> QED BY <2>2, <3>1, ChosenOptions
  <2>3. CASE name = "sock_set_ip_option"
    <3>1. flags \in {{x} : x \in DOMAIN IpOptions} /\ prog = wasi_sock_set_ip_option(o)
      BY <2>1, <2>3 DEF Option
    <3> QED BY <2>3, <3>1, ChosenOptions
  <2> QED BY <1>14, <2>2, <2>3
<1>15. Calls =
   {"args_get", "args_sizes_get", "clock_res_get", "clock_time_get", "environ_get",
    "environ_sizes_get", "fd_prestat_get", "fd_prestat_dir_name", "fd_close",
    "fd_datasync", "fd_pread", "fd_pwrite", "fd_read", "fd_renumber", "fd_seek", "fd_tell",
    "fd_fdstat_get", "fd_fdstat_set_flags", "fd_fdstat_set_rights", "fd_sync", "fd_write",
    "fd_advise", "fd_allocate", "fd_readdir", "fd_filestat_get", "fd_filestat_set_times",
    "fd_filestat_set_size", "path_create_directory", "path_link", "path_open",
    "path_readlink", "path_rename", "path_filestat_get", "path_filestat_set_times",
    "path_symlink", "path_unlink_file", "path_remove_directory", "poll_oneoff",
    "proc_exit", "proc_raise", "random_get", "sock_accept", "sock_addr_local",
    "sock_addr_remote", "sock_addr_resolve", "sock_bind", "sock_close", "sock_connect",
    "sock_get_flag", "sock_get_linger", "sock_get_socket_option", "sock_get_tcp_option",
    "sock_get_ip_multicast_loop", "sock_get_ip_option", "sock_listen", "sock_open",
    "sock_recv", "sock_recv_from", "sock_send", "sock_send_to", "sock_set_flag",
    "sock_set_linger", "sock_set_socket_option", "sock_set_tcp_option",
    "sock_set_ip_multicast_loop", "sock_set_ip_membership", "sock_set_ip_option",
    "sock_shutdown", "sched_yield"}
  BY DEF Calls, native_symbols_libc_wasi
<1> QED BY <1>1, <1>2, <1>3, <1>4, <1>5, <1>6, <1>7, <1>8, <1>9, <1>10, <1>11, <1>12, <1>13, <1>14, <1>15
==============================================================================
