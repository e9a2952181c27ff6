--------------------------- MODULE ExecutionProofs ----------------------------
(***************************************************************************)
(* Proofs about Interpreter: a body that the validator accepted is         *)
(* executed on operands and locals of the types it derived.                *)
(*                                                                         *)
(* The invariant RunTyped describes the value stack: from its bottom up,   *)
(* the operand that a caller from elsewhere keeps, then the activation of  *)
(* each call that waits, its locals and the operands below the arguments,  *)
(* and on top the activation that runs.  Typing tells what each            *)
(* instruction expects, CursorInStep that the branch table is read at the  *)
(* right entry.                                                            *)
(***************************************************************************)
EXTENDS TypingProofs

(* From cell l on, v holds cells of the types; a zero is of any type.      *)
Fits(v, l, types) == \A i \in 1 .. CellNum(types) : v[l + i] \in {Cells(types)[i], Zero}

(* An activation of the function: its locals lie from cell l on, and above *)
(* them the operands s, which end at cell n.                               *)
Activation(v, l, n, s) ==
  /\ s \in Stacks /\ l \in Nat /\ n <= Len(v)
  /\ n = l + CellNum(Locals) + CellNum(s)
  /\ Fits(v, l, Locals) /\ Fits(v, l + CellNum(Locals), s)

(* The call in frame k waits for the results of the one above it.          *)
Waiting(k) ==
  /\ Live(frames[k].ip)
  /\ \A j \in 1 .. k - 1 : frames[j].sp <= frames[k].lp
  /\ \E s \in Stacks : /\ seen[frames[k].ip].stack = s \o FuncType.result
                       /\ Activation(vs, frames[k].lp, frames[k].sp, s)

(* The operand that a caller from elsewhere keeps.                         *)
CallerKept(n) == n \in {0, 1} /\ (n = 1 => vs[1] \in {Cell("I32", 0), Zero})

FramesTyped ==
  /\ CallerKept(frames[1].sp)
  /\ \A k \in 2 .. Len(frames) : Waiting(k)
  /\ \A k \in 1 .. Len(frames) : frames[k].sp <= lp

RunTyped ==
  Running({}) =>
    /\ lapses = {} /\ vs \in Seq(CellSet)
    /\ Live(ip) /\ Activation(vs, lp, Len(vs), seen[ip].stack)
    /\ FramesTyped

-----------------------------------------------------------------------------
(* Values fit one behind the other.                                        *)
LEMMA FitsConcat ==
  ASSUME NEW v, NEW l \in Int, NEW s \in Stacks, NEW t \in Stacks
  PROVE  Fits(v, l, s \o t) <=> Fits(v, l, s) /\ Fits(v, l + CellNum(s), t)
<1> DEFINE m == CellNum(s)
           n == CellNum(t)
           c == Cells(s)
           d == Cells(t)
<1>1. /\ m \in Nat /\ n \in Nat /\ CellNum(s \o t) = m + n
      /\ c \in Seq(CellSet) /\ Len(c) = m /\ d \in Seq(CellSet) /\ Len(d) = n
      /\ Cells(s \o t) = c \o d
  BY CellNumLen, CellNumConcat, CellsType, CellsConcat DEF Stacks
<1> HIDE DEF m, n, c, d
<1>2. /\ \A i \in 1 .. m : i \in 1 .. m + n /\ (c \o d)[i] = c[i]
      /\ \A i \in 1 .. n : m + i \in 1 .. m + n /\ (c \o d)[m + i] = d[i]
      /\ \A i \in 1 .. m + n : i \in 1 .. m \/ (i - m \in 1 .. n /\ i = m + (i - m))
  BY <1>1
<1>3. /\ \A i \in 1 .. n : l + (m + i) = (l + m) + i
  BY <1>1
<1> DEFINE Ok(i) == v[l + i] \in {(c \o d)[i], Zero}
<1>4. Fits(v, l, s \o t) <=> \A i \in 1 .. m + n : Ok(i)
  BY <1>1 DEF Fits
<1>5. Fits(v, l, s) <=> \A i \in 1 .. m : Ok(i)
  BY <1>1, <1>2 DEF Fits, m, c
<1>6. Fits(v, l + m, t) <=> \A i \in 1 .. n : Ok(m + i)
  BY <1>1, <1>2, <1>3 DEF Fits, n, d
<1> HIDE DEF Ok
<1>7. (\A i \in 1 .. m + n : Ok(i)) <=> (\A i \in 1 .. m : Ok(i)) /\ (\A i \in 1 .. n : Ok(m + i))
  <2>1. ASSUME \A i \in 1 .. m : Ok(i), \A i \in 1 .. n : Ok(m + i), NEW i \in 1 .. m + n
        PROVE  Ok(i)
    <3>1. CASE i \in 1 .. m
      BY <2>1, <3>1
    <3>2. CASE i - m \in 1 .. n /\ i = m + (i - m)
      <4>1. PICK j \in 1 .. n : i = m + j
        BY <3>2
      <4> QED BY <2>1, <4>1
    <3> QED BY <1>2, <3>1, <3>2
  <2> QED BY <1>2, <2>1
<1> QED BY <1>4, <1>5, <1>6, <1>7 DEF m

(* Cells fit the values they are laid out for.                             *)
LEMMA FitsCells ==
  ASSUME NEW s \in Stacks
  PROVE  Fits(Cells(s), 0, s)
<1>1. \A i \in 1 .. CellNum(s) : 0 + i = i
  OBVIOUS
<1> QED BY <1>1 DEF Fits

(* No values fit anywhere.                                                 *)
LEMMA FitsNone ==
  ASSUME NEW v, NEW l
  PROVE  Fits(v, l, <<>>)
BY NoCells DEF Fits

(* Two sequences, one behind the other.                                    *)
LEMMA Joined ==
  ASSUME NEW S, NEW s \in Seq(S), NEW t \in Seq(S)
  PROVE  /\ s \o t \in Seq(S) /\ Len(s \o t) = Len(s) + Len(t)
         /\ Len(s) \in Nat /\ Len(t) \in Nat
         /\ \A i \in 1 .. Len(s) : (s \o t)[i] = s[i]
         /\ \A i \in 1 .. Len(t) : (s \o t)[Len(s) + i] = t[i]
OBVIOUS

LEMMA JoinedAt ==
  ASSUME NEW S, NEW s \in Seq(S), NEW t \in Seq(S), NEW m, NEW d, Len(s) = m, Len(t) = d
  PROVE  /\ s \o t \in Seq(S) /\ Len(s \o t) = m + d
         /\ \A i \in 1 .. m : (s \o t)[i] = s[i]
         /\ \A i \in 1 .. d : (s \o t)[m + i] = t[i]
<1>1. s \o t \in Seq(S) /\ Len(s \o t) = m + d
  OBVIOUS
<1>2. \A i \in 1 .. m : (s \o t)[i] = s[i]
  OBVIOUS
<1>3. \A i \in 1 .. d : (s \o t)[m + i] = t[i]
  OBVIOUS
<1> QED BY <1>1, <1>2, <1>3

(* What lies below a cell is as it was.                                    *)
Agree(v, w, n) == n <= Len(w) /\ \A i \in 1 .. n : w[i] = v[i]

(* w has an activation like one of v, on what lies below it there.         *)
Lands(v, w, l, s) == w \in Seq(CellSet) /\ Activation(w, l, Len(w), s) /\ Agree(v, w, l)

(* Operands replaced on top of an activation.                              *)
LEMMA Replaced ==
  ASSUME NEW v \in Seq(CellSet), NEW l, NEW r \in Stacks, NEW pop \in Stacks, NEW push \in Stacks,
         NEW n \in 0 .. Len(v), Activation(v, l, n, r \o pop),
         NEW new \in Seq(CellSet), Len(new) = CellNum(push), Fits(new, 0, push),
         NEW w, w = SubSeq(v, 1, n - CellNum(pop)) \o new
  PROVE  Lands(v, w, l, r \o push)
<1> DEFINE c == CellNum(Locals)
           a == CellNum(r)
           b == CellNum(pop)
           d == CellNum(push)
           m == n - b
<1>1. Locals \in Stacks
  BY ValidatorAssumption DEF Stacks
<1>2. /\ a \in Nat /\ b \in Nat /\ c \in Nat /\ d \in Nat
      /\ CellNum(r \o pop) = a + b /\ CellNum(r \o push) = a + d /\ r \o push \in Stacks
  BY <1>1, CellNumLen, CellNumConcat DEF Stacks
<1>3. /\ l \in Nat /\ n = l + c + (a + b)
      /\ Fits(v, l, Locals) /\ Fits(v, l + c, r \o pop)
  BY <1>2 DEF Activation
<1>4. Fits(v, l + c, r)
  BY <1>2, <1>3, FitsConcat
<1> HIDE DEF a, b, c, d
<1>5. m = l + c + a /\ m \in 0 .. Len(v)
  BY <1>2, <1>3
<1> HIDE DEF m
<1>6. SubSeq(v, 1, m) \in Seq(CellSet) /\ Len(SubSeq(v, 1, m)) = m
      /\ \A i \in 1 .. m : SubSeq(v, 1, m)[i] = v[i]
  BY <1>5, PrefixType, PrefixOf
<1>7. w = SubSeq(v, 1, m) \o new
  BY DEF m, b
<1>8. /\ w \in Seq(CellSet) /\ Len(w) = m + d
      /\ \A i \in 1 .. m : w[i] = v[i]
      /\ \A i \in 1 .. d : w[m + i] = new[i]
  <2> DEFINE u == SubSeq(v, 1, m)
  <2>1. Len(new) = d /\ u \in Seq(CellSet) /\ Len(u) = m
    BY <1>6 DEF d
  <2>2. \A i \in 1 .. m : u[i] = v[i]
    BY <1>6
  <2> HIDE DEF u
  <2>3. /\ u \o new \in Seq(CellSet) /\ Len(u \o new) = m + d
        /\ \A i \in 1 .. m : (u \o new)[i] = u[i]
        /\ \A i \in 1 .. d : (u \o new)[m + i] = new[i]
    <3>1. new \in Seq(CellSet)
      OBVIOUS
    <3> QED BY <2>1, <3>1, JoinedAt, SMTT(40)
  <2> QED BY <1>7, <2>2, <2>3 DEF u
<1>9. Fits(w, l, Locals)
  <2>1. \A i \in 1 .. c : l + i \in 1 .. m
    BY <1>2, <1>3, <1>5
  <2>2. \A i \in 1 .. c : w[l + i] = v[l + i]
    BY <1>8, <2>1
  <2> QED BY <1>3, <2>2 DEF Fits, c
<1>10. Fits(w, l + c, r)
  <2>1. \A i \in 1 .. a : (l + c) + i \in 1 .. m
    BY <1>2, <1>3, <1>5
  <2>2. \A i \in 1 .. a : w[(l + c) + i] = v[(l + c) + i]
    BY <1>8, <2>1
  <2> QED BY <1>4, <2>2 DEF Fits, a
<1>11. Fits(w, (l + c) + a, push)
  <2>1. \A i \in 1 .. d : ((l + c) + a) + i = m + i /\ 0 + i = i
    BY <1>2, <1>3, <1>5
  <2>2. \A i \in 1 .. d : w[((l + c) + a) + i] = new[0 + i]
    BY <1>8, <2>1
  <2>3. Fits(new, 0, push)
    OBVIOUS
  <2> QED BY <2>2, <2>3 DEF Fits, d
<1>12. Fits(w, l + c, r \o push)
  <2>1. l + c \in Int
    BY <1>2, <1>3
  <2> QED BY <1>10, <1>11, <2>1, FitsConcat DEF a
<1>13. Len(w) = l + c + CellNum(r \o push) /\ Len(w) <= Len(w)
  BY <1>2, <1>3, <1>5, <1>8
<1>14. l <= Len(w) /\ \A i \in 1 .. l : i \in 1 .. m
  BY <1>2, <1>3, <1>5, <1>8
<1>15. Agree(v, w, l)
  BY <1>8, <1>14 DEF Agree
<1> QED BY <1>2, <1>3, <1>8, <1>9, <1>12, <1>13, <1>15 DEF Activation, Lands, c

(* An activation remains while the cells up to its end do.                 *)
LEMMA ActivationKept ==
  ASSUME NEW v \in Seq(CellSet), NEW w, NEW m, Agree(v, w, m), Len(w) \in Nat,
         NEW l, NEW n, NEW s, Activation(v, l, n, s), n <= m, m \in Nat
  PROVE  Activation(w, l, n, s)
<1> DEFINE c == CellNum(Locals)
           a == CellNum(s)
<1>1. /\ s \in Stacks /\ l \in Nat /\ n = l + c + a /\ Fits(v, l, Locals) /\ Fits(v, l + c, s)
      /\ c \in Nat /\ a \in Nat
  BY CellNumLen, ValidatorAssumption DEF Activation, Stacks
<1> HIDE DEF a, c
<1>2. /\ \A i \in 1 .. c : l + i \in 1 .. m
      /\ \A i \in 1 .. a : (l + c) + i \in 1 .. m
  BY <1>1
<1>3. Fits(w, l, Locals)
  <2>1. \A i \in 1 .. c : w[l + i] = v[l + i]
    BY <1>2 DEF Agree
  <2> QED BY <1>1, <2>1 DEF Fits, c
<1>4. Fits(w, l + c, s)
  <2>1. \A i \in 1 .. a : w[(l + c) + i] = v[(l + c) + i]
    BY <1>2 DEF Agree
  <2> QED BY <1>1, <2>1 DEF Fits, a
<1>5. n <= Len(w)
  BY <1>1 DEF Agree
<1> QED BY <1>1, <1>3, <1>4, <1>5 DEF Activation, a, c

-----------------------------------------------------------------------------
Engine == CursorInv /\ TypingInv /\ RunTyped

(* What is known when an instruction is executed.                          *)
LEMMA Executes ==
  ASSUME Engine, NEW op, Exec(op)
  PROVE  /\ TypeOK /\ Sound /\ CountInv /\ verdict = "accepted" /\ labels = <<>> /\ lapses = {}
         /\ UNCHANGED <<code, seen, table, lapses, verdict>>
         /\ status = "running" /\ defect = {}
         /\ code[ip].op = op /\ ip \in 1 .. Len(code) /\ Len(code) \in Nat
         /\ Live(ip) /\ cur = seen[ip].emitted /\ cur \in Nat
         /\ seen[ip].stack \in Stacks
         /\ vs \in Seq(CellSet) /\ Activation(vs, lp, Len(vs), seen[ip].stack)
         /\ lp \in Nat /\ lp <= Len(vs) /\ Len(vs) \in Nat
         /\ FramesTyped /\ frames # <<>> /\ Len(frames) \in Nat \ {0}
         /\ code[Len(code)].op = "end"
<1>1. /\ verdict = "accepted" /\ code[ip].op = op /\ OnCourse(ip, cur) /\ FramesSequence
      /\ status = "running" /\ defect = {} /\ UNCHANGED vars
  BY Executing DEF Engine, Exec
<1>2. /\ TypeOK /\ CountInv /\ labels = <<>> /\ code[Len(code)].op = "end"
      /\ DOMAIN code = 1 .. Len(code) /\ Len(code) \in Nat
  BY <1>1, Domains DEF Engine, CursorInv, IInv, TypeInv, CountInv, EndsInEnd
<1>3. ip \in 1 .. Len(code) /\ cur = seen[ip].emitted /\ cur \in Nat
  BY <1>1, <1>2, SeenType DEF OnCourse
<1>4. /\ lapses = {} /\ vs \in Seq(CellSet) /\ Live(ip)
      /\ Activation(vs, lp, Len(vs), seen[ip].stack) /\ FramesTyped
  BY <1>1 DEF Engine, RunTyped, Running
<1>5. Sound
  BY <1>4 DEF Engine, TypingInv
<1>6. lp \in Nat /\ seen[ip].stack \in Stacks /\ Len(vs) = lp + CellNum(Locals) + CellNum(seen[ip].stack)
  BY <1>4 DEF Activation
<1>7. CellNum(Locals) \in Nat /\ CellNum(seen[ip].stack) \in Nat
  BY <1>6, CellNumLen, ValidatorAssumption DEF Stacks
<1>8. lp <= Len(vs) /\ Len(vs) \in Nat
  BY <1>6, <1>7
<1>9. frames # <<>> /\ Len(frames) \in Nat \ {0}
  <2>1. PICK S : frames \in Seq(S)
    BY <1>1 DEF FramesSequence
  <2> QED BY <1>1, <2>1 DEF FramesSequence
<1>10. UNCHANGED <<code, seen, table, lapses, verdict>>
  BY <1>1 DEF vars
<1> QED BY <1>1, <1>2, <1>3, <1>4, <1>5, <1>6, <1>8, <1>9, <1>10

(* The pointers that the frames have saved are ordered.                    *)
LEMMA FramePointers ==
  ASSUME FramesTyped, Len(frames) \in Nat
  PROVE  /\ \A k \in 1 .. Len(frames) : frames[k].sp \in Nat
         /\ \A k \in 2 .. Len(frames) : frames[k].lp \in Nat /\ frames[k].lp <= frames[k].sp
<1>1. ASSUME NEW k \in 2 .. Len(frames)
      PROVE  frames[k].sp \in Nat /\ frames[k].lp \in Nat /\ frames[k].lp <= frames[k].sp
  <2>1. PICK s \in Stacks : Activation(vs, frames[k].lp, frames[k].sp, s)
    BY DEF FramesTyped, Waiting
  <2>2. CellNum(Locals) \in Nat /\ CellNum(s) \in Nat
    BY CellNumLen, ValidatorAssumption DEF Stacks
  <2>3. frames[k].lp \in Nat /\ frames[k].sp = frames[k].lp + CellNum(Locals) + CellNum(s)
    BY <2>1 DEF Activation
  <2> QED BY <2>2, <2>3
<1>2. frames[1].sp \in Nat
  BY DEF FramesTyped, CallerKept
<1>3. \A k \in 1 .. Len(frames) : k = 1 \/ k \in 2 .. Len(frames)
  OBVIOUS
<1> QED BY <1>1, <1>2, <1>3

(* The stack holds cells still, and what the caller keeps is as it was.    *)
Kept ==
  /\ vs' \in Seq(CellSet)
  /\ frames # <<>> => \A k \in 1 .. frames[Len(frames)].sp : k \in DOMAIN vs' /\ vs'[k] = vs[k]

(* Where the cells below the frame remain, so does what its caller keeps.  *)
LEMMA KeepsBelow ==
  ASSUME Engine, NEW op, Exec(op), vs' \in Seq(CellSet), Agree(vs, vs', lp)
  PROVE  Kept
<1> DEFINE n == Len(frames)
<1>1. n \in 1 .. n /\ n \in Nat /\ FramesTyped /\ lp \in Nat
  BY Executes
<1>2. frames[n].sp <= lp /\ frames[n].sp \in Nat
  BY <1>1, FramePointers DEF FramesTyped
<1>3. lp <= Len(vs') /\ DOMAIN vs' = 1 .. Len(vs') /\ Len(vs') \in Nat
  BY DEF Agree
<1>4. ASSUME NEW k \in 1 .. frames[n].sp PROVE k \in DOMAIN vs' /\ vs'[k] = vs[k]
  <2>1. k \in 1 .. lp /\ k \in 1 .. Len(vs')
    BY <1>1, <1>2, <1>3
  <2> QED BY <1>3, <2>1 DEF Agree
<1> QED BY <1>4 DEF Kept

(* A step within the same call.                                            *)
LEMMA StepTyped ==
  ASSUME Engine, NEW op, Exec(op), UNCHANGED <<frames, lp>>,
         vs' \in Seq(CellSet), Agree(vs, vs', lp),
         defect' = {} => /\ Live(ip)' /\ Activation(vs', lp, Len(vs'), seen[ip'].stack)
  PROVE  RunTyped' /\ Kept
<1>1. Kept
  BY KeepsBelow
<1>2. /\ FramesTyped /\ lp \in Nat /\ vs \in Seq(CellSet) /\ lapses' = {} /\ seen' = seen /\ code' = code
      /\ Len(frames) \in Nat \ {0} /\ frames' = frames /\ lp' = lp /\ Len(vs') \in Nat
  BY Executes
<1>3. CallerKept(frames[1].sp)'
  <2>1. CallerKept(frames[1].sp) /\ frames[1].sp <= lp
    BY <1>2 DEF FramesTyped
  <2>2. frames[1].sp = 1 => vs'[1] = vs[1]
    BY <1>2, <2>1 DEF Agree
  <2> QED BY <1>2, <2>1, <2>2 DEF CallerKept
<1>4. ASSUME NEW k \in 2 .. Len(frames) PROVE Waiting(k)'
  <2>1. Waiting(k) /\ frames[k].sp <= lp
    BY <1>2 DEF FramesTyped
  <2>2. PICK s \in Stacks : /\ seen[frames[k].ip].stack = s \o FuncType.result
                            /\ Activation(vs, frames[k].lp, frames[k].sp, s)
    BY <2>1 DEF Waiting
  <2>3. Activation(vs', frames[k].lp, frames[k].sp, s)
    BY <1>2, <2>1, <2>2, ActivationKept
  <2> QED BY <1>2, <2>1, <2>2, <2>3 DEF Waiting, Live
<1>5. FramesTyped'
  BY <1>2, <1>3, <1>4 DEF FramesTyped
<1>6. RunTyped'
  BY <1>2, <1>5 DEF RunTyped, Running
<1> QED BY <1>1, <1>6

(* A trap leaves the stack as it is.                                       *)
LEMMA TrapTyped ==
  ASSUME Engine, NEW op, Exec(op), Trap
  PROVE  RunTyped' /\ Kept
<1>1. vs' = vs /\ status' = "trapped" /\ vs \in Seq(CellSet) /\ lp \in Nat /\ lp <= Len(vs)
  BY Executes DEF Trap
<1>2. Agree(vs, vs', lp)
  BY <1>1 DEF Agree
<1>3. Kept
  BY <1>1, <1>2, KeepsBelow
<1> QED BY <1>1, <1>3 DEF RunTyped, Running

(* Where an instruction goes on, its effect on the operands is the one the *)
(* validator has found.                                                    *)
LEMMA GoesOn ==
  ASSUME Engine, NEW op, Exec(op), op \notin FlowEnders, op # "end" \/ ip # Len(code)
  PROVE  Live(ip + 1) /\ Effect(code[ip], seen[ip].stack, seen[ip + 1].stack)
<1>1. /\ Live(ip) /\ ip \in 1 .. Len(code) /\ code[ip].op = op /\ code[Len(code)].op = "end" /\ Sound
  BY Executes
<1>2. ip # Len(code)
  BY <1>1
<1> QED BY <1>1, <1>2 DEF Sound, FlowTyped

(* The cells of some operands are replaced on the way to an instruction    *)
(* that finds others.                                                      *)
LEMMA ReplaceTyped ==
  ASSUME Engine, NEW op, Exec(op),
         NEW r \in Stacks, NEW pop \in Stacks, NEW push \in Stacks,
         NEW n \in 0 .. Len(vs), Activation(vs, lp, n, r \o pop),
         NEW new \in Seq(CellSet), Len(new) = CellNum(push), Fits(new, 0, push),
         NEW w, w = SubSeq(vs, 1, n - CellNum(pop)) \o new,
         NEW i, NEW c, Goto(w, i, c), defect' = {} => Live(i) /\ seen[i].stack = r \o push
  PROVE  RunTyped' /\ Kept
<1>1. vs \in Seq(CellSet) /\ seen' = seen /\ code' = code /\ lp \in Nat
  BY Executes
<1>2. w \in Seq(CellSet) /\ Activation(w, lp, Len(w), r \o push) /\ Agree(vs, w, lp)
  <2>1. Lands(vs, w, lp, r \o push)
    BY <1>1, Replaced, Zenon
  <2> QED BY <2>1 DEF Lands
<1>3. vs' = w /\ ip' = i /\ UNCHANGED <<frames, lp>>
  BY DEF Goto
<1>4. defect' = {} => /\ Live(ip)' /\ Activation(vs', lp, Len(vs'), seen[ip'].stack)
  BY <1>1, <1>2, <1>3 DEF Live
<1> QED BY <1>2, <1>3, <1>4, StepTyped

(* Operands are popped and others pushed on the way to the next            *)
(* instruction.                                                            *)
LEMMA ProceedTyped ==
  ASSUME Engine, NEW op, Exec(op),
         NEW r \in Stacks, NEW pop \in Stacks, NEW push \in Stacks,
         seen[ip].stack = r \o pop, Live(ip + 1), seen[ip + 1].stack = r \o push,
         NEW new \in Seq(CellSet), Len(new) = CellNum(push), Fits(new, 0, push),
         NEW c, Goto(Without(CellNum(pop)) \o new, ip + 1, c)
  PROVE  RunTyped' /\ Kept
<1>1. Activation(vs, lp, Len(vs), r \o pop) /\ Len(vs) \in 0 .. Len(vs)
  BY Executes
<1>2. Goto(SubSeq(vs, 1, Len(vs) - CellNum(pop)) \o new, ip + 1, c)
  BY DEF Without
<1> QED BY <1>1, <1>2, ReplaceTyped

(* The cells of operands on top of the stack.                              *)
LEMMA PopRange ==
  ASSUME Engine, NEW op, Exec(op), NEW r \in Stacks, NEW pop \in Stacks, seen[ip].stack = r \o pop
  PROVE  /\ CellNum(pop) \in Nat /\ CellNum(Locals) \in Nat /\ CellNum(r) \in Nat
         /\ Len(vs) = lp + CellNum(Locals) + CellNum(r) + CellNum(pop)
         /\ Len(vs) - CellNum(pop) \in 0 .. Len(vs)
         /\ Without(CellNum(pop)) \in Seq(CellSet) /\ Len(Without(CellNum(pop))) = Len(vs) - CellNum(pop)
         /\ \A i \in 1 .. Len(vs) - CellNum(pop) : Without(CellNum(pop))[i] = vs[i]
         /\ Fits(vs, lp, Locals) /\ Fits(vs, lp + CellNum(Locals), r)
         /\ Fits(vs, Len(vs) - CellNum(pop), pop)
<1>1. Activation(vs, lp, Len(vs), r \o pop) /\ vs \in Seq(CellSet) /\ lp \in Nat /\ Len(vs) \in Nat
  BY Executes
<1>2. /\ CellNum(pop) \in Nat /\ CellNum(Locals) \in Nat /\ CellNum(r) \in Nat
      /\ CellNum(r \o pop) = CellNum(r) + CellNum(pop)
  BY CellNumLen, CellNumConcat, ValidatorAssumption DEF Stacks
<1>3. Len(vs) = lp + CellNum(Locals) + CellNum(r) + CellNum(pop)
  BY <1>1, <1>2 DEF Activation
<1>4. Len(vs) - CellNum(pop) \in 0 .. Len(vs)
  BY <1>1, <1>2, <1>3
<1>5. /\ Without(CellNum(pop)) \in Seq(CellSet) /\ Len(Without(CellNum(pop))) = Len(vs) - CellNum(pop)
      /\ \A i \in 1 .. Len(vs) - CellNum(pop) : Without(CellNum(pop))[i] = vs[i]
  BY <1>1, <1>4, PrefixType, PrefixOf DEF Without
<1>6. Fits(vs, lp, Locals) /\ Fits(vs, lp + CellNum(Locals), r \o pop) /\ lp + CellNum(Locals) \in Int
  BY <1>1, <1>2 DEF Activation
<1>7. Fits(vs, lp + CellNum(Locals), r) /\ Fits(vs, (lp + CellNum(Locals)) + CellNum(r), pop)
  BY <1>6, FitsConcat
<1>8. (lp + CellNum(Locals)) + CellNum(r) = Len(vs) - CellNum(pop)
  BY <1>1, <1>2, <1>3
<1> QED BY <1>2, <1>3, <1>4, <1>5, <1>6, <1>7, <1>8

(* No cells for no operands.                                               *)
LEMMA NoneFits == <<>> \in Seq(CellSet) /\ <<>> \in Stacks /\ Len(<<>>) = CellNum(<<>>) /\ Fits(<<>>, 0, <<>>)
<1>1. <<>> \in Seq(CellSet) /\ Len(<<>>) = 0 /\ <<>> \in Stacks
  BY DEF Stacks
<1> QED BY <1>1, NoCells, FitsNone

(* Operands are only popped.                                               *)
LEMMA PopTyped ==
  ASSUME Engine, NEW op, Exec(op), NEW r \in Stacks, NEW pop \in Stacks,
         seen[ip].stack = r \o pop, Live(ip + 1), seen[ip + 1].stack = r,
         NEW c, Goto(Without(CellNum(pop)), ip + 1, c)
  PROVE  RunTyped' /\ Kept
<1>1. Without(CellNum(pop)) \in Seq(CellSet) /\ r \in Seq(ValueType)
  BY PopRange DEF Stacks
<1>2. Without(CellNum(pop)) \o <<>> = Without(CellNum(pop)) /\ r \o <<>> = r
  BY <1>1, ConcatEmptySeq
<1> QED BY <1>2, NoneFits, ProceedTyped, Zenon

-----------------------------------------------------------------------------
(* UNREACHABLE traps.                                                      *)
LEMMA UnreachableRuns == Engine /\ HandleUnreachable => RunTyped' /\ Kept
BY TrapTyped DEF HandleUnreachable

(* Instructions without an effect on the operands.                         *)
LEMMA NoEffect ==
  ASSUME Engine, NEW op \in {"nop", "block", "loop", "end"}, Exec(op), op # "end" \/ ip # Len(code), Proceed(vs)
  PROVE  RunTyped' /\ Kept
<1>1. code[ip].op = op /\ vs \in Seq(CellSet) /\ Live(ip + 1) /\ Effect(code[ip], seen[ip].stack, seen[ip + 1].stack)
      /\ Len(vs) \in Nat
  BY Executes, GoesOn DEF FlowEnders
<1>2. PICK r \in Stacks, pop \in Stacks, push \in Stacks :
        Moves(code[ip], pop, push) /\ seen[ip].stack = r \o pop /\ seen[ip + 1].stack = r \o push
  BY <1>1 DEF Effect
<1>3. pop = <<>> /\ push = <<>>
  BY <1>1, <1>2 DEF Moves
<1>4. r \o <<>> = r
  BY ConcatEmptySeq DEF Stacks
<1>5. Without(CellNum(pop)) = vs
  <2>1. Len(vs) - 0 = Len(vs)
    BY <1>1
  <2> QED BY <1>1, <1>3, <2>1, NoCells, SubSeqFull DEF Without
<1>6. Goto(Without(CellNum(pop)), ip + 1, cur)
  BY <1>5, Zenon DEF Proceed
<1>7. seen[ip + 1].stack = r
  BY <1>2, <1>3, <1>4, Zenon
<1> QED BY <1>1, <1>2, <1>6, <1>7, PopTyped

(* NOP, BLOCK and LOOP.                                                    *)
LEMMA NopRuns == Engine /\ HandleNop => RunTyped' /\ Kept
BY NoEffect DEF HandleNop

(* A plain instruction.                                                    *)
LEMMA PlainRuns == Engine /\ HandlePlain => RunTyped' /\ Kept
<1> SUFFICES ASSUME Engine, HandlePlain PROVE RunTyped' /\ Kept
  OBVIOUS
<1>1. Exec("plain") /\ code[ip].op = "plain" /\ Live(ip + 1) /\ Effect(code[ip], seen[ip].stack, seen[ip + 1].stack)
  BY Executes, GoesOn DEF FlowEnders, HandlePlain
<1>2. PICK r \in Stacks, pop \in Stacks, push \in Stacks :
        Moves(code[ip], pop, push) /\ seen[ip].stack = r \o pop /\ seen[ip + 1].stack = r \o push
  BY <1>1 DEF Effect
<1>3. pop = code[ip].sig.pop /\ push = code[ip].sig.push
  BY <1>1, <1>2 DEF Moves
<1>4. CASE Trap
  BY <1>1, <1>4, TrapTyped
<1>5. CASE Proceed(Without(CellNum(pop)) \o Cells(push))
  <2>1. Cells(push) \in Seq(CellSet) /\ Len(Cells(push)) = CellNum(push) /\ Fits(Cells(push), 0, push)
    BY CellsType, FitsCells
  <2>2. Goto(Without(CellNum(pop)) \o Cells(push), ip + 1, cur)
    BY <1>5 DEF Proceed
  <2> QED BY <1>1, <1>2, <2>1, <2>2, ProceedTyped
<1> QED BY <1>3, <1>4, <1>5 DEF HandlePlain

(* A value on its own.                                                     *)
LEMMA OneValue ==
  ASSUME NEW t \in ValueType
  PROVE  /\ <<t>> \in Stacks /\ CellNum(<<t>>) = Size(t) /\ Cells(<<t>>) = CellsOf(t)
         /\ Size(t) = (IF t \in Wide THEN 2 ELSE 1)
<1>1. <<>> \in Stacks /\ Append(<<>>, t) = <<t>> /\ <<t>> \in Stacks
  BY DEF Stacks
<1>2. CellNum(Append(<<>>, t)) = CellNum(<<>>) + Size(t)
  BY <1>1, CellNumAppend DEF Stacks
<1>3. Cells(Append(<<>>, t)) = <<>> \o CellsOf(t)
  BY <1>1, CellsAppend, CellsNone
<1>4. <<>> \o CellsOf(t) = CellsOf(t)
  BY CellsOfType, ConcatEmptySeq
<1>5. Size(t) = (IF t \in Wide THEN 2 ELSE 1)
  BY DEF Size
<1>6. CellNum(<<>>) + Size(t) = Size(t)
  BY <1>5, NoCells
<1> QED BY <1>1, <1>2, <1>3, <1>4, <1>5, <1>6

(* Cells that are read from the stack in use.                              *)
LEMMA CellsAtType ==
  ASSUME vs \in Seq(CellSet), NEW k, NEW n \in Nat
  PROVE  CellsAt(k, n) \in Seq(CellSet) /\ Len(CellsAt(k, n)) = n /\ DOMAIN CellsAt(k, n) = 1 .. n
<1>1. Junk \in CellSet
  BY DEF Junk, Cell, CellSet
<1>2. \A j : At(j) \in CellSet
  BY <1>1 DEF At
<1> QED BY <1>2 DEF CellsAt

(* Cells read where values fit are cells of these values.                  *)
LEMMA CellsAtFit ==
  ASSUME vs \in Seq(CellSet), NEW k \in Nat, NEW s \in Stacks, k + CellNum(s) <= Len(vs), Fits(vs, k, s)
  PROVE  /\ CellsAt(k, CellNum(s)) \in Seq(CellSet) /\ Len(CellsAt(k, CellNum(s))) = CellNum(s)
         /\ Fits(CellsAt(k, CellNum(s)), 0, s)
<1> DEFINE n == CellNum(s)
           c == CellsAt(k, n)
<1>1. n \in Nat /\ Len(vs) \in Nat /\ DOMAIN vs = 1 .. Len(vs) /\ k + n <= Len(vs)
  BY CellNumLen
<1> HIDE DEF n
<1>2. \A i \in 1 .. n : k + i \in DOMAIN vs /\ 0 + i = i
  BY <1>1
<1>3. \A i \in 1 .. n : c[i] = At(k + i)
  BY DEF CellsAt
<1> HIDE DEF c
<1>4. \A i \in 1 .. n : c[0 + i] = vs[k + i]
  BY <1>2, <1>3 DEF At
<1>5. Fits(c, 0, s)
  BY <1>4 DEF Fits, n
<1>6. c \in Seq(CellSet) /\ Len(c) = n
  BY <1>1, CellsAtType DEF c
<1> QED BY <1>5, <1>6 DEF c, n

-----------------------------------------------------------------------------
(* DROP takes as many cells as its operand has.                            *)
LEMMA DropRuns == Engine /\ HandleDrop => RunTyped' /\ Kept
<1> SUFFICES ASSUME Engine, HandleDrop PROVE RunTyped' /\ Kept
  OBVIOUS
<1>1. Exec("drop") /\ code[ip].op = "drop" /\ Live(ip + 1) /\ Effect(code[ip], seen[ip].stack, seen[ip + 1].stack)
  BY Executes, GoesOn DEF FlowEnders, HandleDrop
<1>2. PICK r \in Stacks, pop \in Stacks, push \in Stacks :
        Moves(code[ip], pop, push) /\ seen[ip].stack = r \o pop /\ seen[ip + 1].stack = r \o push
  BY <1>1 DEF Effect
<1>3. push = <<>> /\ \E t \in ValueType : pop = <<t>> /\ code[ip].wide = (t \in Wide)
  BY <1>1, <1>2 DEF Moves
<1>4. PICK t \in ValueType : pop = <<t>> /\ code[ip].wide = (t \in Wide)
  BY <1>3
<1>5. CellNum(pop) = Width(code[ip])
  <2>1. CellNum(<<t>>) = IF t \in Wide THEN 2 ELSE 1
    BY OneValue
  <2> QED BY <1>4, <2>1 DEF Width
<1>6. r \o <<>> = r
  BY ConcatEmptySeq DEF Stacks
<1>7. Goto(Without(CellNum(pop)), ip + 1, cur)
  BY <1>5 DEF HandleDrop, Proceed
<1>8. seen[ip + 1].stack = r
  BY <1>2, <1>3, <1>6, Zenon
<1> QED BY <1>1, <1>2, <1>7, <1>8, PopTyped

(* The instructions of a global.                                           *)
LEMMA GlobalRuns == Engine /\ (HandleGetGlobal \/ HandleSetGlobal) => RunTyped' /\ Kept
<1> SUFFICES ASSUME Engine, HandleGetGlobal \/ HandleSetGlobal PROVE RunTyped' /\ Kept
  OBVIOUS
<1>1. PICK op \in {"get_global", "set_global"} :
        Exec(op) /\ ((op = "get_global" /\ HandleGetGlobal) \/ (op = "set_global" /\ HandleSetGlobal))
  <2>1. (HandleGetGlobal => Exec("get_global")) /\ (HandleSetGlobal => Exec("set_global"))
    BY DEF HandleGetGlobal, HandleSetGlobal
  <2> DEFINE op == IF HandleGetGlobal THEN "get_global" ELSE "set_global"
  <2>2. op \in {"get_global", "set_global"} /\ Exec(op)
    BY <2>1
  <2>3. (op = "get_global" /\ HandleGetGlobal) \/ (op = "set_global" /\ HandleSetGlobal)
    BY <2>1
  <2> QED BY <2>2, <2>3
<1>2. code[ip].op = op /\ Live(ip + 1) /\ Effect(code[ip], seen[ip].stack, seen[ip + 1].stack)
      /\ vs \in Seq(CellSet) /\ Len(vs) \in Nat
  BY <1>1, Executes, GoesOn DEF FlowEnders
<1>3. PICK r \in Stacks, pop \in Stacks, push \in Stacks :
        Moves(code[ip], pop, push) /\ seen[ip].stack = r \o pop /\ seen[ip + 1].stack = r \o push
  BY <1>2 DEF Effect
<1> DEFINE t == code[ip].value
<1>4. IF op = "get_global" THEN pop = <<>> /\ push = <<t>> ELSE pop = <<t>> /\ push = <<>>
  BY <1>1, <1>2, <1>3 DEF Moves
<1> HIDE DEF t
<1>5. t \in ValueType
  <2>1. <<t>> \in Stacks
    BY <1>4
  <2> QED BY <2>1 DEF Stacks
<1>6. /\ CellsOf(t) \in Seq(CellSet) /\ Len(CellsOf(t)) = CellNum(<<t>>) /\ Fits(CellsOf(t), 0, <<t>>)
      /\ <<t>> \in Stacks
  BY <1>5, OneValue, CellsOfType, FitsCells
<1>7. CASE op = "get_global"
  <2>1. Without(CellNum(pop)) = vs
    <3>1. Len(vs) - 0 = Len(vs)
      BY <1>2
    <3> QED BY <1>2, <1>4, <1>7, <3>1, NoCells, SubSeqFull DEF Without
  <2>2. Goto(vs \o CellsOf(t), ip + 1, cur)
    BY <1>1, <1>7 DEF HandleGetGlobal, Proceed, t
  <2>3. Goto(Without(CellNum(pop)) \o CellsOf(t), ip + 1, cur)
    BY <2>1, <2>2, Zenon
  <2> QED BY <1>1, <1>2, <1>3, <1>4, <1>6, <1>7, <2>3, ProceedTyped
<1>8. CASE op = "set_global"
  <2>1. r \o <<>> = r
    BY ConcatEmptySeq DEF Stacks
  <2>2. Goto(Without(Len(CellsOf(t))), ip + 1, cur)
    BY <1>1, <1>8 DEF HandleSetGlobal, Proceed, t
  <2>3. Goto(Without(CellNum(pop)), ip + 1, cur)
    BY <1>4, <1>6, <1>8, <2>2
  <2>4. seen[ip + 1].stack = r
    BY <1>3, <1>4, <1>8, <2>1
  <2> QED BY <1>1, <1>2, <1>3, <2>3, <2>4, PopTyped
<1> QED BY <1>1, <1>7, <1>8

(* SELECT leaves one of its operands: the lower one is already in place.   *)
LEMMA SelectRuns == Engine /\ HandleSelect => RunTyped' /\ Kept
<1> SUFFICES ASSUME Engine, HandleSelect PROVE RunTyped' /\ Kept
  OBVIOUS
<1>1. Exec("select") /\ code[ip].op = "select" /\ Live(ip + 1) /\ Effect(code[ip], seen[ip].stack, seen[ip + 1].stack)
      /\ vs \in Seq(CellSet) /\ Len(vs) \in Nat
  BY Executes, GoesOn DEF FlowEnders, HandleSelect
<1>2. PICK r \in Stacks, pop \in Stacks, push \in Stacks :
        Moves(code[ip], pop, push) /\ seen[ip].stack = r \o pop /\ seen[ip + 1].stack = r \o push
  BY <1>1 DEF Effect
<1>3. \E t \in ValueType : pop = <<t, t, "I32">> /\ push = <<t>> /\ code[ip].wide = (t \in Wide)
  BY <1>1, <1>2 DEF Moves
<1>4. PICK t \in ValueType : pop = <<t, t, "I32">> /\ push = <<t>> /\ code[ip].wide = (t \in Wide)
  BY <1>3
<1> DEFINE w    == Width(code[ip])
           one  == <<t>>
           cond == <<"I32">>
           rest == SubSeq(vs, 1, Len(vs) - 1 - w)
           m    == Len(vs) - CellNum(pop)
<1>5. /\ one \in Stacks /\ CellNum(one) = w /\ w \in {1, 2}
      /\ cond \in Stacks /\ CellNum(cond) = 1
  <2>1. "I32" \in ValueType /\ "I32" \notin Wide
    BY DEF ValueType, Wide
  <2>2. one \in Stacks /\ CellNum(one) = (IF t \in Wide THEN 2 ELSE 1)
    BY OneValue
  <2>3. cond \in Stacks /\ CellNum(cond) = 1
    BY <2>1, OneValue
  <2> QED BY <1>4, <2>2, <2>3 DEF Width
<1>6. pop = one \o (one \o cond) /\ one \o cond \in Stacks /\ pop \in Stacks
  BY <1>4, <1>5 DEF Stacks
<1>7. /\ CellNum(one \o cond) = w + 1 /\ CellNum(pop) = w + (w + 1)
  BY <1>5, <1>6, CellNumConcat DEF Stacks
<1>8. /\ m \in Nat /\ Len(vs) = m + w + w + 1 /\ Fits(vs, m, pop)
      /\ Without(CellNum(pop)) \in Seq(CellSet) /\ Len(Without(CellNum(pop))) = m
      /\ \A i \in 1 .. m : Without(CellNum(pop))[i] = vs[i]
  <2>1. /\ CellNum(pop) \in Nat /\ Len(vs) - CellNum(pop) \in 0 .. Len(vs)
        /\ Without(CellNum(pop)) \in Seq(CellSet)
        /\ Len(Without(CellNum(pop))) = Len(vs) - CellNum(pop)
        /\ \A i \in 1 .. Len(vs) - CellNum(pop) : Without(CellNum(pop))[i] = vs[i]
        /\ Fits(vs, Len(vs) - CellNum(pop), pop)
    BY <1>1, <1>2, PopRange
  <2>2. m \in Nat /\ Len(vs) = m + w + w + 1
    BY <1>1, <1>5, <1>7, <2>1
  <2> QED BY <2>1, <2>2
<1>9. /\ Fits(vs, m + w, one \o cond) /\ Fits(vs, m + w, one) /\ m + w \in Nat /\ m + w + CellNum(one) <= Len(vs)
  <2>1. m \in Int /\ m + w \in Int /\ m + w \in Nat /\ m + w + CellNum(one) <= Len(vs)
    BY <1>5, <1>8
  <2>2. Fits(vs, m, one \o (one \o cond))
    BY <1>6, <1>8, Zenon
  <2>3. Fits(vs, m + CellNum(one), one \o cond)
    BY <1>5, <1>6, <2>1, <2>2, FitsConcat
  <2>4. Fits(vs, m + w, one \o cond)
    BY <1>5, <2>3
  <2> QED BY <1>5, <2>1, <2>4, FitsConcat
<1>10. Len(vs) - 1 - w = m + w /\ rest \in Seq(CellSet) /\ Len(rest) = m + w
       /\ \A i \in 1 .. m + w : rest[i] = vs[i]
  <2>1. Len(vs) - 1 - w = m + w /\ m + w \in 0 .. Len(vs)
    BY <1>1, <1>5, <1>8
  <2> QED BY <1>1, <2>1, PrefixType, PrefixOf
<1>11. CASE Proceed(rest)
  <2>1. r \o one \in Stacks /\ seen[ip].stack = (r \o one) \o (one \o cond) /\ seen[ip + 1].stack = r \o one
    BY <1>2, <1>4, <1>5, <1>6 DEF Stacks
  <2>2. rest = Without(CellNum(one \o cond))
    <3>1. Len(vs) - 1 - w = Len(vs) - CellNum(one \o cond)
      BY <1>1, <1>5, <1>7
    <3> QED BY <3>1 DEF Without
  <2>3. Goto(Without(CellNum(one \o cond)), ip + 1, cur)
    BY <1>11, <2>2, Zenon DEF Proceed
  <2> QED BY <1>1, <1>6, <2>1, <2>3, PopTyped
<1>12. CASE Proceed(Store(rest, Len(rest) - w, CellsAt(Len(rest), w)))
  <2> DEFINE c == CellsAt(m + w, w)
             below == Without(CellNum(pop))
             st == Store(rest, m, c)
  <2>1. c \in Seq(CellSet) /\ Len(c) = w /\ DOMAIN c = 1 .. w /\ Fits(c, 0, one)
    <3>1. c = CellsAt(m + w, CellNum(one))
      BY <1>5
    <3> QED BY <1>1, <1>5, <1>9, <3>1, CellsAtFit, CellsAtType
  <2>2. Len(rest) - w = m /\ Store(rest, Len(rest) - w, CellsAt(Len(rest), w)) = st
    <3>1. Len(rest) - w = m
      BY <1>5, <1>8, <1>10
    <3> QED BY <1>10, <3>1
  <2> HIDE DEF c, below, rest, m, w, one, cond
  <2>3. DOMAIN rest = 1 .. m + w /\ m + w \in Nat /\ m \in Nat /\ w \in Nat
    BY <1>5, <1>8, <1>10
  <2>4. st \in Seq(CellSet) /\ Len(st) = m + w
        /\ \A i \in 1 .. m + w : st[i] = IF i - m \in 1 .. w THEN c[i - m] ELSE rest[i]
    <3>1. st = [k \in 1 .. m + w |-> IF k - m \in 1 .. w THEN c[k - m] ELSE rest[k]]
      BY <2>1, <2>3 DEF Store
    <3>2. \A k \in 1 .. m + w : (IF k - m \in 1 .. w THEN c[k - m] ELSE rest[k]) \in CellSet
      BY <1>10, <2>1, <2>3
    <3> QED BY <2>3, <3>1, <3>2
  <2>5. below \in Seq(CellSet) /\ Len(below) = m /\ \A i \in 1 .. m : below[i] = vs[i]
    BY <1>8 DEF below
  <2>6. /\ below \o c \in Seq(CellSet) /\ Len(below \o c) = m + w
        /\ \A i \in 1 .. m : (below \o c)[i] = below[i]
        /\ \A i \in 1 .. w : (below \o c)[m + i] = c[i]
    <3>1. below \in Seq(CellSet) /\ Len(below) = m /\ c \in Seq(CellSet) /\ Len(c) = w
      BY <2>1, <2>5
    <3>2. /\ below \o c \in Seq(CellSet) /\ Len(below \o c) = m + w
      BY <3>1, Joined
    <3>3. \A i \in 1 .. m : (below \o c)[i] = below[i]
      BY <3>1, Joined
    <3>4. \A i \in 1 .. w : (below \o c)[m + i] = c[i]
      BY <3>1, Joined
    <3> QED BY <3>2, <3>3, <3>4
  <2>7. \A i \in 1 .. m + w : st[i] = (below \o c)[i]
    <3> SUFFICES ASSUME NEW i \in 1 .. m + w PROVE st[i] = (below \o c)[i]
      OBVIOUS
    <3>1. CASE i \in 1 .. m
      <4>1. i - m \notin 1 .. w
        BY <2>3, <3>1
      <4> QED BY <1>10, <2>4, <2>5, <2>6, <3>1, <4>1
    <3>2. CASE i \notin 1 .. m
      <4>1. i - m \in 1 .. w /\ i = m + (i - m)
        BY <2>3, <3>2
      <4>2. PICK j \in 1 .. w : j = i - m /\ i = m + j
        BY <4>1
      <4> QED BY <2>4, <2>6, <4>2
    <3> QED BY <3>1, <3>2
  <2> HIDE DEF st
  <2>8. st = below \o c
    BY <2>3, <2>4, <2>6, <2>7, SeqEqual
  <2>9. Goto(Without(CellNum(pop)) \o c, ip + 1, cur)
    BY <1>12, <2>2, <2>8 DEF Proceed, below
  <2>10. Len(c) = CellNum(push) /\ Fits(c, 0, push)
    BY <1>4, <1>5, <2>1 DEF one
  <2> QED BY <1>1, <1>2, <2>1, <2>9, <2>10, ProceedTyped
<1> QED BY <1>11, <1>12 DEF HandleSelect

(* A local lies between those before it and those behind it.               *)
LEMMA LocalSplit ==
  ASSUME NEW l \in 0 .. Len(Locals) - 1
  PROVE  /\ Locals[l + 1] \in ValueType
         /\ \E a \in Stacks, b \in Stacks : /\ Locals = a \o (<<Locals[l + 1]>> \o b)
                                            /\ CellNum(a) = LocalOffset(l)
<1> DEFINE a == SubSeq(Locals, 1, l)
           t == <<Locals[l + 1]>>
<1>1. Locals \in Seq(ValueType) /\ Len(Locals) \in Nat /\ l \in 0 .. Len(Locals) /\ l \in Nat
  BY ValidatorAssumption
<1>2. Locals[l + 1] \in ValueType
  BY <1>1
<1>3. a \in Seq(ValueType) /\ Len(a) = l
  BY <1>1, PrefixType
<1>4. PICK c \in Seq(ValueType) : Locals = a \o c /\ Len(c) = Len(Locals) - l
  BY <1>1, Splits
<1>5. c[1] = Locals[l + 1] /\ 1 \in 0 .. Len(c) /\ 1 \in 1 .. Len(c)
  <2>1. 1 \in 1 .. Len(c) /\ 1 \in 0 .. Len(c)
    BY <1>1, <1>4
  <2> HIDE DEF a
  <2>2. (a \o c)[Len(a) + 1] = c[1]
    BY <1>3, <2>1, Joined
  <2> QED BY <1>3, <1>4, <2>1, <2>2
<1>6. PICK b \in Seq(ValueType) : c = SubSeq(c, 1, 1) \o b /\ Len(b) = Len(c) - 1
  BY <1>5, Splits, Zenon
<1>7. SubSeq(c, 1, 1) = t
  <2> DEFINE u == SubSeq(c, 1, 1)
  <2>1. u \in Seq(ValueType) /\ Len(u) = 1 /\ u[1] = c[1]
    BY <1>5, PrefixType, PrefixOf
  <2> HIDE DEF u
  <2>2. u = <<u[1]>>
    BY <2>1
  <2> QED BY <1>5, <2>1, <2>2 DEF u
<1>8. Locals = a \o (t \o b)
  BY <1>4, <1>6, <1>7, Zenon
<1>9. CellNum(a) = LocalOffset(l)
  BY DEF LocalOffset
<1> QED BY <1>2, <1>3, <1>8, <1>9 DEF Stacks

(* The cells of a local, and of those before and behind it.                *)
LEMMA LocalCellsOf ==
  ASSUME NEW k \in 0 .. Len(Locals) - 1, NEW v, NEW l \in Nat
  PROVE  /\ LocalOffset(k) \in Nat /\ LocalOffset(k) + CellNum(<<Locals[k + 1]>>) <= CellNum(Locals)
         /\ CellNum(Locals) \in Nat /\ <<Locals[k + 1]>> \in Stacks
         /\ \E a \in Stacks, b \in Stacks :
              /\ CellNum(a) = LocalOffset(k)
              /\ CellNum(b) = CellNum(Locals) - LocalOffset(k) - CellNum(<<Locals[k + 1]>>)
              /\ \A w : Fits(w, l, Locals) <=>
                   /\ Fits(w, l, a) /\ Fits(w, l + LocalOffset(k), <<Locals[k + 1]>>)
                   /\ Fits(w, l + LocalOffset(k) + CellNum(<<Locals[k + 1]>>), b)
<1> DEFINE t == <<Locals[k + 1]>>
           o == LocalOffset(k)
<1>1. PICK a \in Stacks, b \in Stacks : Locals = a \o (t \o b) /\ CellNum(a) = o
  BY LocalSplit
<1>2. t \in Stacks
  BY LocalSplit, OneValue
<1> HIDE DEF t, o
<1>3. t \o b \in Stacks /\ CellNum(t \o b) = CellNum(t) + CellNum(b)
      /\ CellNum(a) \in Nat /\ CellNum(t) \in Nat /\ CellNum(b) \in Nat
  BY <1>2, CellNumLen, CellNumConcat DEF Stacks
<1>4. CellNum(Locals) = o + (CellNum(t) + CellNum(b))
  <2>1. CellNum(a \o (t \o b)) = CellNum(a) + CellNum(t \o b)
    BY <1>3, CellNumConcat DEF Stacks
  <2> QED BY <1>1, <1>3, <2>1
<1>5. ASSUME NEW w
      PROVE  Fits(w, l, Locals) <=> Fits(w, l, a) /\ Fits(w, l + o, t) /\ Fits(w, l + o + CellNum(t), b)
  <2>1. Fits(w, l, a \o (t \o b)) <=> Fits(w, l, a) /\ Fits(w, l + CellNum(a), t \o b)
    BY <1>3, FitsConcat
  <2>2. l + o \in Int
    BY <1>1, <1>3
  <2>3. Fits(w, l + o, t \o b) <=> Fits(w, l + o, t) /\ Fits(w, l + o + CellNum(t), b)
    BY <1>2, <2>2, FitsConcat
  <2> QED BY <1>1, <2>1, <2>3
<1>6. o \in Nat /\ o + CellNum(t) <= CellNum(Locals) /\ CellNum(Locals) \in Nat
      /\ CellNum(b) = CellNum(Locals) - o - CellNum(t)
  BY <1>1, <1>3, <1>4
<1> QED BY <1>1, <1>2, <1>5, <1>6 DEF t, o

(* A value of its type is stored into a local.                             *)
LEMMA StoreLocal ==
  ASSUME NEW v \in Seq(CellSet), NEW l, NEW s, Activation(v, l, Len(v), s),
         NEW k \in 0 .. Len(Locals) - 1,
         NEW c \in Seq(CellSet), Len(c) = CellNum(<<Locals[k + 1]>>), Fits(c, 0, <<Locals[k + 1]>>)
  PROVE  Lands(v, Store(v, l + LocalOffset(k), c), l, s)
<1> DEFINE t == <<Locals[k + 1]>>
           o == LocalOffset(k)
           w == Store(v, l + o, c)
           n == CellNum(t)
           m == CellNum(Locals)
           x == CellNum(s)
<1>1. /\ s \in Stacks /\ l \in Nat /\ Len(v) = l + m + x
      /\ Fits(v, l, Locals) /\ Fits(v, l + m, s) /\ x \in Nat
  BY CellNumLen DEF Activation, Stacks
<1>2. /\ o \in Nat /\ o + n <= m /\ m \in Nat /\ n \in Nat /\ t \in Stacks
  BY LocalCellsOf, CellNumLen
<1>3. PICK a \in Stacks, b \in Stacks :
        /\ CellNum(a) = o /\ CellNum(b) = m - o - n
        /\ \A z : Fits(z, l, Locals) <=> Fits(z, l, a) /\ Fits(z, l + o, t) /\ Fits(z, l + o + n, b)
  BY <1>1, LocalCellsOf
<1>4. Fits(v, l, a) /\ Fits(v, l + o + n, b)
  BY <1>1, <1>3
<1>5. Len(c) = n /\ DOMAIN c = 1 .. n /\ DOMAIN v = 1 .. Len(v) /\ Fits(c, 0, t)
  OBVIOUS
<1> HIDE DEF t, o, n, m, x
<1>6. w \in Seq(CellSet) /\ Len(w) = Len(v)
      /\ \A i \in 1 .. Len(v) : w[i] = IF i - (l + o) \in 1 .. n THEN c[i - (l + o)] ELSE v[i]
  <2>1. w = [i \in 1 .. Len(v) |-> IF i - (l + o) \in 1 .. n THEN c[i - (l + o)] ELSE v[i]]
    BY <1>5 DEF Store
  <2>2. \A i \in 1 .. Len(v) : (IF i - (l + o) \in 1 .. n THEN c[i - (l + o)] ELSE v[i]) \in CellSet
    BY <1>5
  <2>3. Len(v) \in Nat
    OBVIOUS
  <2> DEFINE e(i) == IF i - (l + o) \in 1 .. n THEN c[i - (l + o)] ELSE v[i]
             h == Len(v)
  <2> HIDE DEF w, e, h
  <2>4. w = [i \in 1 .. h |-> e(i)] /\ h \in Nat /\ \A i \in 1 .. h : e(i) \in CellSet
    BY <2>1, <2>2, <2>3 DEF e, h
  <2>5. w \in Seq(CellSet) /\ Len(w) = h /\ \A i \in 1 .. h : w[i] = e(i)
    BY <2>4
  <2> QED BY <2>5 DEF e, h
<1> HIDE DEF w
<1>7. ASSUME NEW i \in 1 .. l PROVE w[i] = v[i]
  <2>1. i \in 1 .. Len(v) /\ i - (l + o) \notin 1 .. n
    BY <1>1, <1>2
  <2> QED BY <1>6, <2>1
<1>8. ASSUME NEW i \in 1 .. o PROVE w[l + i] = v[l + i]
  <2>1. l + i \in 1 .. Len(v) /\ (l + i) - (l + o) \notin 1 .. n
    BY <1>1, <1>2
  <2> QED BY <1>6, <2>1
<1>9. ASSUME NEW i \in 1 .. n PROVE w[(l + o) + i] = c[0 + i]
  <2>1. (l + o) + i \in 1 .. Len(v) /\ ((l + o) + i) - (l + o) = i /\ 0 + i = i
    BY <1>1, <1>2
  <2> QED BY <1>6, <2>1
<1>10. ASSUME NEW i \in 1 .. m - o - n PROVE w[(l + o + n) + i] = v[(l + o + n) + i]
  <2>1. (l + o + n) + i \in 1 .. Len(v) /\ ((l + o + n) + i) - (l + o) \notin 1 .. n
    BY <1>1, <1>2
  <2> QED BY <1>6, <2>1
<1>11. ASSUME NEW i \in 1 .. x PROVE w[(l + m) + i] = v[(l + m) + i]
  <2>1. (l + m) + i \in 1 .. Len(v) /\ ((l + m) + i) - (l + o) \notin 1 .. n
    BY <1>1, <1>2
  <2> QED BY <1>6, <2>1
<1>12. Fits(w, l, a)
  BY <1>3, <1>4, <1>8 DEF Fits
<1>13. Fits(w, l + o, t)
  BY <1>5, <1>9 DEF Fits, n
<1>14. Fits(w, l + o + n, b)
  BY <1>3, <1>4, <1>10 DEF Fits
<1>15. Fits(w, l + m, s)
  BY <1>1, <1>11 DEF Fits, x
<1>16. Fits(w, l, Locals)
  BY <1>3, <1>12, <1>13, <1>14
<1>17. Agree(v, w, l)
  <2>1. l <= Len(w)
    BY <1>1, <1>2, <1>6
  <2> QED BY <1>7, <2>1 DEF Agree
<1>18. Len(w) = l + m + x /\ Len(w) <= Len(w)
  BY <1>1, <1>2, <1>6
<1>19. Activation(w, l, Len(w), s)
  BY <1>1, <1>15, <1>16, <1>18 DEF Activation, m, x
<1> QED BY <1>6, <1>17, <1>19 DEF Lands, w, o

(* A step within a call to an activation that fits the next instruction.   *)
LEMMA LandsTyped ==
  ASSUME Engine, NEW op, Exec(op), NEW w, NEW s, Lands(vs, w, lp, s),
         NEW i, NEW c, Goto(w, i, c), defect' = {} => Live(i) /\ seen[i].stack = s
  PROVE  RunTyped' /\ Kept
<1>1. seen' = seen /\ code' = code /\ lp \in Nat
  BY Executes
<1>2. vs' = w /\ ip' = i /\ UNCHANGED <<frames, lp>>
  BY DEF Goto
<1>3. w \in Seq(CellSet) /\ Activation(w, lp, Len(w), s) /\ Agree(vs, w, lp)
  BY DEF Lands
<1>4. defect' = {} => /\ Live(ip)' /\ Activation(vs', lp, Len(vs'), seen[ip'].stack)
  BY <1>1, <1>2, <1>3 DEF Live
<1> QED BY <1>2, <1>3, <1>4, StepTyped

(* What is left of the stack once operands are popped.                     *)
LEMMA PopLands ==
  ASSUME Engine, NEW op, Exec(op), NEW r \in Stacks, NEW pop \in Stacks, seen[ip].stack = r \o pop
  PROVE  Lands(vs, Without(CellNum(pop)), lp, r)
<1>1. /\ vs \in Seq(CellSet) /\ Activation(vs, lp, Len(vs), r \o pop) /\ Len(vs) \in 0 .. Len(vs)
  BY Executes
<1>2. Without(CellNum(pop)) \in Seq(CellSet) /\ r \in Seq(ValueType)
  BY PopRange DEF Stacks
<1>3. Without(CellNum(pop)) \o <<>> = Without(CellNum(pop)) /\ r \o <<>> = r
  BY <1>2, ConcatEmptySeq
<1>4. Without(CellNum(pop)) = SubSeq(vs, 1, Len(vs) - CellNum(pop)) \o <<>>
  BY <1>3 DEF Without
<1>5. Lands(vs, Without(CellNum(pop)), lp, r \o <<>>)
  BY <1>1, <1>4, NoneFits, Replaced
<1> QED BY <1>3, <1>5

(* Two changes above the frame one after the other.                        *)
LEMMA LandsAgain ==
  ASSUME NEW u, NEW v, NEW w, NEW l, NEW r, NEW s, Lands(u, v, l, r), Lands(v, w, l, s), l \in Nat
  PROVE  Lands(u, w, l, s)
BY DEF Lands, Agree

(* What the instructions of the local l do to operands r \o pop.           *)
LocalMoves(op, r, l, pop, push) ==
  /\ seen[ip].stack = r \o pop /\ seen[ip + 1].stack = r \o push
  /\ pop  = IF op = "get_local" THEN <<>> ELSE <<Locals[l + 1]>>
  /\ push = IF op = "set_local" THEN <<>> ELSE <<Locals[l + 1]>>
  /\ code[ip].offset = LocalOffset(l) /\ Width(code[ip]) = CellNum(<<Locals[l + 1]>>)

(* The instructions of a local.                                            *)
LEMMA LocalRuns == Engine /\ (HandleGetLocal \/ HandleSetLocal \/ HandleTeeLocal) => RunTyped' /\ Kept
<1> SUFFICES ASSUME Engine, HandleGetLocal \/ HandleSetLocal \/ HandleTeeLocal PROVE RunTyped' /\ Kept
  OBVIOUS
<1> DEFINE Ops == {"get_local", "set_local", "tee_local"}
<1>1. ASSUME NEW op \in Ops, Exec(op)
      PROVE  /\ vs \in Seq(CellSet) /\ Len(vs) \in Nat /\ lp \in Nat /\ Live(ip + 1)
             /\ \E r \in Stacks, l \in 0 .. Len(Locals) - 1, pop \in Stacks, push \in Stacks :
                  LocalMoves(op, r, l, pop, push)
  <2>1. /\ vs \in Seq(CellSet) /\ Len(vs) \in Nat /\ lp \in Nat /\ code[ip].op = op
        /\ Live(ip + 1) /\ Effect(code[ip], seen[ip].stack, seen[ip + 1].stack)
    BY <1>1, Executes, GoesOn DEF FlowEnders
  <2>2. PICK r \in Stacks, pop \in Stacks, push \in Stacks :
          Moves(code[ip], pop, push) /\ seen[ip].stack = r \o pop /\ seen[ip + 1].stack = r \o push
    BY <2>1 DEF Effect
  <2>3. \E l \in 0 .. Len(Locals) - 1 :
          /\ code[ip] = LocalInstr(op, l)
          /\ pop  = IF op = "get_local" THEN <<>> ELSE <<Locals[l + 1]>>
          /\ push = IF op = "set_local" THEN <<>> ELSE <<Locals[l + 1]>>
    BY <2>1, <2>2 DEF Moves
  <2>4. PICK l \in 0 .. Len(Locals) - 1 :
          /\ code[ip] = LocalInstr(op, l)
          /\ pop  = IF op = "get_local" THEN <<>> ELSE <<Locals[l + 1]>>
          /\ push = IF op = "set_local" THEN <<>> ELSE <<Locals[l + 1]>>
    BY <2>3
  <2>5. Locals[l + 1] \in ValueType
    BY LocalSplit
  <2>6. /\ <<Locals[l + 1]>> \in Stacks
        /\ CellNum(<<Locals[l + 1]>>) = IF Locals[l + 1] \in Wide THEN 2 ELSE 1
    BY <2>5, OneValue
  <2>7. code[ip].offset = LocalOffset(l) /\ Width(code[ip]) = CellNum(<<Locals[l + 1]>>)
    <3>1. code[ip] = LocalInstr(op, l)
      BY <2>4
    <3>2. code[ip].offset = LocalOffset(l) /\ code[ip].wide = (Locals[l + 1] \in Wide)
      BY <3>1 DEF LocalInstr
    <3> QED BY <2>6, <3>2 DEF Width
  <2>8. LocalMoves(op, r, l, pop, push)
    BY <2>2, <2>4, <2>7 DEF LocalMoves
  <2> QED BY <2>1, <2>8
<1>2. CASE HandleGetLocal
  <2>1. Exec("get_local") /\ "get_local" \in Ops
    BY <1>2 DEF HandleGetLocal
  <2>2. vs \in Seq(CellSet) /\ Len(vs) \in Nat /\ lp \in Nat /\ Live(ip + 1)
    BY <1>1, <2>1
  <2>0. PICK r \in Stacks, l \in 0 .. Len(Locals) - 1, pop \in Stacks, push \in Stacks :
          LocalMoves("get_local", r, l, pop, push)
    BY <1>1, <2>1
  <2>3. /\ seen[ip].stack = r \o pop /\ seen[ip + 1].stack = r \o push
        /\ pop = <<>> /\ push = <<Locals[l + 1]>>
        /\ code[ip].offset = LocalOffset(l) /\ Width(code[ip]) = CellNum(<<Locals[l + 1]>>)
    BY <2>0 DEF LocalMoves
  <2> DEFINE t == <<Locals[l + 1]>>
             o == LocalOffset(l)
             c == CellsAt(lp + o, CellNum(t))
  <2>4. Without(CellNum(pop)) = vs
    <3>1. Len(vs) - 0 = Len(vs)
      BY <2>2
    <3> QED BY <2>2, <2>3, <3>1, NoCells, SubSeqFull DEF Without
  <2>5. Goto(Without(CellNum(pop)) \o c, ip + 1, cur)
    <3>1. Goto(vs \o c, ip + 1, cur)
      BY <1>2, <2>3 DEF HandleGetLocal, Proceed
    <3> HIDE DEF c
    <3> QED BY <2>4, <3>1, Zenon
  <2>6. c \in Seq(CellSet) /\ Len(c) = CellNum(t) /\ Fits(c, 0, t)
    <3>1. /\ o \in Nat /\ o + CellNum(t) <= CellNum(Locals) /\ CellNum(Locals) \in Nat /\ t \in Stacks
          /\ CellNum(t) \in Nat
      BY LocalCellsOf, CellNumLen
    <3>2. /\ Fits(vs, lp, Locals) /\ CellNum(r) \in Nat /\ CellNum(pop) \in Nat
          /\ Len(vs) = lp + CellNum(Locals) + CellNum(r) + CellNum(pop)
      BY <2>1, <2>3, PopRange
    <3>3. Fits(vs, lp + o, t)
      BY <2>2, <3>2, LocalCellsOf
    <3> HIDE DEF o, t
    <3>4. lp + o \in Nat /\ lp + o + CellNum(t) <= Len(vs)
      BY <2>2, <3>1, <3>2
    <3> QED BY <2>2, <3>1, <3>3, <3>4, CellsAtFit DEF c
  <2> HIDE DEF c
  <2> QED BY <2>1, <2>2, <2>3, <2>5, <2>6, ProceedTyped
<1>3. CASE HandleSetLocal
  <2>1. Exec("set_local") /\ "set_local" \in Ops
    BY <1>3 DEF HandleSetLocal
  <2>2. vs \in Seq(CellSet) /\ Len(vs) \in Nat /\ lp \in Nat /\ Live(ip + 1)
    BY <1>1, <2>1
  <2>0. PICK r \in Stacks, l \in 0 .. Len(Locals) - 1, pop \in Stacks, push \in Stacks :
          LocalMoves("set_local", r, l, pop, push)
    BY <1>1, <2>1
  <2>3. /\ seen[ip].stack = r \o pop /\ seen[ip + 1].stack = r \o push
        /\ push = <<>> /\ pop = <<Locals[l + 1]>>
        /\ code[ip].offset = LocalOffset(l) /\ Width(code[ip]) = CellNum(<<Locals[l + 1]>>)
    BY <2>0 DEF LocalMoves
  <2> DEFINE t == <<Locals[l + 1]>>
             o == LocalOffset(l)
             n == CellNum(t)
             c == CellsAt(Len(vs) - n, n)
             v == Without(n)
             w == Store(v, lp + o, c)
  <2>4. c \in Seq(CellSet) /\ Len(c) = n /\ Fits(c, 0, t)
    <3>1. /\ n \in Nat /\ Len(vs) - n \in 0 .. Len(vs) /\ Fits(vs, Len(vs) - n, t) /\ t \in Stacks
      BY <2>1, <2>3, PopRange
    <3>2. Len(vs) - n \in Nat /\ Len(vs) - n + n <= Len(vs)
      BY <2>2, <3>1
    <3> QED BY <2>2, <3>1, <3>2, CellsAtFit
  <2>5. Goto(w, ip + 1, cur)
    BY <1>3, <2>3 DEF HandleSetLocal, Proceed, Topmost
  <2>6. Lands(vs, v, lp, r)
    BY <2>1, <2>3, PopLands
  <2>7. v \in Seq(CellSet) /\ Activation(v, lp, Len(v), r)
    BY <2>6 DEF Lands
  <2> HIDE DEF c, v, w
  <2>8. Lands(v, w, lp, r)
    BY <2>4, <2>7, StoreLocal DEF w
  <2>9. Lands(vs, w, lp, r)
    BY <2>2, <2>6, <2>8, LandsAgain
  <2>10. seen[ip + 1].stack = r
    BY <2>3, ConcatEmptySeq DEF Stacks
  <2> QED BY <2>1, <2>2, <2>5, <2>9, <2>10, LandsTyped
<1>4. CASE HandleTeeLocal
  <2>1. Exec("tee_local") /\ "tee_local" \in Ops
    BY <1>4 DEF HandleTeeLocal
  <2>2. vs \in Seq(CellSet) /\ Len(vs) \in Nat /\ lp \in Nat /\ Live(ip + 1)
    BY <1>1, <2>1
  <2>0. PICK r \in Stacks, l \in 0 .. Len(Locals) - 1, pop \in Stacks, push \in Stacks :
          LocalMoves("tee_local", r, l, pop, push)
    BY <1>1, <2>1
  <2>3. /\ seen[ip].stack = r \o pop /\ seen[ip + 1].stack = r \o push
        /\ pop = <<Locals[l + 1]>> /\ push = <<Locals[l + 1]>>
        /\ code[ip].offset = LocalOffset(l) /\ Width(code[ip]) = CellNum(<<Locals[l + 1]>>)
    BY <2>0 DEF LocalMoves
  <2> DEFINE t == <<Locals[l + 1]>>
             o == LocalOffset(l)
             n == CellNum(t)
             c == CellsAt(Len(vs) - n, n)
             w == Store(vs, lp + o, c)
  <2>4. c \in Seq(CellSet) /\ Len(c) = n /\ Fits(c, 0, t)
    <3>1. /\ n \in Nat /\ Len(vs) - n \in 0 .. Len(vs) /\ Fits(vs, Len(vs) - n, t) /\ t \in Stacks
      BY <2>1, <2>3, PopRange
    <3>2. Len(vs) - n \in Nat /\ Len(vs) - n + n <= Len(vs)
      BY <2>2, <3>1
    <3> QED BY <2>2, <3>1, <3>2, CellsAtFit
  <2>5. Goto(w, ip + 1, cur)
    BY <1>4, <2>3 DEF HandleTeeLocal, Proceed, Topmost
  <2>6. Activation(vs, lp, Len(vs), seen[ip].stack)
    BY <2>1, Executes
  <2> HIDE DEF c, w
  <2>7. Lands(vs, w, lp, seen[ip].stack)
    BY <2>2, <2>4, <2>6, StoreLocal DEF w
  <2> QED BY <2>1, <2>2, <2>3, <2>5, <2>7, LandsTyped
<1> QED BY <1>2, <1>3, <1>4

(* Each entry of the instruction leads where its operands are expected.    *)
LEMMA EntryFits ==
  ASSUME Engine, NEW op, Exec(op), NEW k \in 1 .. Entries(code[ip])
  PROVE  /\ table[cur + k] \in EntrySet /\ table[cur + k].op = op
         /\ IntoElse(table[cur + k]) \/ Landed(ip, table[cur + k])
<1> DEFINE j == cur + k
<1>1. /\ code[ip].op = op /\ OnCourse(ip, cur) /\ verdict = "accepted" /\ IInv /\ CountInv
      /\ TypeOK /\ Sound /\ ip \in 1 .. Len(code) /\ cur = seen[ip].emitted /\ cur \in Nat
      /\ Live(ip)
  BY Executing, Executes DEF Engine, CursorInv
<1>2. j \in DOMAIN table /\ j <= EntriesBy(ip) /\ table[j].op = op /\ table[j].resolved
  BY <1>1, EntryLands
<1>3. table[j] \in EntrySet
  <2>1. table \in Seq(EntrySet)
    BY <1>1 DEF TypeOK
  <2> QED BY <1>2, <2>1
<1>4. seen[ip].emitted < j
  BY <1>1
<1> HIDE DEF j
<1>5. EntryOf(j, ip)
  BY <1>1, <1>2, <1>4, Domains DEF EntryOf
<1>6. ElseTarget(table[j]) \/ Landed(ip, table[j])
  BY <1>1, <1>2, <1>5 DEF Sound, ResolvedTyped
<1> QED BY <1>2, <1>3, <1>6 DEF ElseTarget, AfterElse, IntoElse, j

(* The operands below a condition end one cell lower.                      *)
LEMMA BelowCondition ==
  ASSUME NEW v, NEW l, NEW n \in Int, NEW s \in Stacks, Activation(v, l, n, Append(s, "I32"))
  PROVE  Activation(v, l, n - 1, s) /\ Append(s, "I32") = s \o <<"I32">> /\ CellNum(<<"I32">>) = 1
<1>1. "I32" \in ValueType /\ "I32" \notin Wide
  BY DEF ValueType, Wide
<1>2. <<"I32">> \in Stacks /\ CellNum(<<"I32">>) = 1
  BY <1>1, OneValue
<1>3. Append(s, "I32") = s \o <<"I32">>
  BY <1>1 DEF Stacks
<1>4. CellNum(s \o <<"I32">>) = CellNum(s) + 1 /\ CellNum(s) \in Nat /\ CellNum(Locals) \in Nat
  BY <1>2, CellNumConcat, CellNumLen, ValidatorAssumption DEF Stacks
<1>5. /\ l \in Nat /\ n = l + CellNum(Locals) + (CellNum(s) + 1) /\ n <= Len(v)
      /\ Fits(v, l, Locals) /\ Fits(v, l + CellNum(Locals), s \o <<"I32">>)
  BY <1>3, <1>4 DEF Activation
<1>6. l + CellNum(Locals) \in Int
  BY <1>4, <1>5
<1>7. Fits(v, l + CellNum(Locals), s)
  BY <1>2, <1>5, <1>6, FitsConcat
<1>8. n - 1 = l + CellNum(Locals) + CellNum(s)
  BY <1>4, <1>5
<1>9. n - 1 <= Len(v)
  <2> SUFFICES n <= Len(v) => n - 1 <= Len(v)
    BY <1>5
  <2> QED BY <1>5 DEF Activation
<1> QED BY <1>2, <1>3, <1>5, <1>7, <1>8, <1>9 DEF Activation

(* A branch leaves the cells below its target alone.                       *)
LEMMA MovedStays ==
  ASSUME vs \in Seq(CellSet), NEW e \in EntrySet, NEW sp, NEW m \in 0 .. Len(vs), sp - e.pop = m,
         NEW l \in 0 .. m
  PROVE  Moved(e, sp) \in Seq(CellSet) /\ Agree(vs, Moved(e, sp), l)
<1> DEFINE up == e.push - e.pop
           c == [i \in 1 .. e.push |->
                   IF up > 0 THEN At(sp - e.push + 1 + ((i - 1) % up)) ELSE At(sp - e.push + i)]
           u == SubSeq(vs, 1, m)
<1>1. Junk \in CellSet
  BY DEF Junk, Cell, CellSet
<1>2. \A j : At(j) \in CellSet
  BY <1>1 DEF At
<1>3. e.push \in Nat
  BY DEF EntrySet
<1>4. c \in Seq(CellSet)
  BY <1>2, <1>3
<1>5. u \in Seq(CellSet) /\ Len(u) = m /\ \A j \in 1 .. m : u[j] = vs[j]
  BY PrefixType, PrefixOf
<1>6. Moved(e, sp) = u \o c
  BY DEF Moved
<1> HIDE DEF u, c
<1>7. /\ u \o c \in Seq(CellSet) /\ Len(u \o c) = Len(u) + Len(c) /\ Len(c) \in Nat
      /\ \A j \in 1 .. Len(u) : (u \o c)[j] = u[j]
  BY <1>4, <1>5, Joined
<1>8. m \in Nat /\ l <= Len(u \o c) /\ \A j \in 1 .. l : j \in 1 .. m
  BY <1>5, <1>7
<1>9. Agree(vs, u \o c, l)
  BY <1>5, <1>7, <1>8 DEF Agree
<1> QED BY <1>6, <1>7, <1>9

(* A branch to entry e, from sp cells that hold the operands s.            *)
LEMMA TransferTyped ==
  ASSUME Engine, NEW op \in {"br", "br_if", "br_table"}, Exec(op), NEW k \in 1 .. Entries(code[ip]), NEW sp,
         Transfer(table[cur + k], sp),
         sp = IF op = "br" THEN Len(vs) ELSE Len(vs) - 1
  PROVE  RunTyped' /\ Kept
<1> DEFINE e == table[cur + k]
           found == seen[ip].stack
<1>1. /\ e \in EntrySet /\ e.op = op /\ Landed(ip, e)
  BY EntryFits DEF IntoElse
<1>2. /\ code[ip].op = op /\ vs \in Seq(CellSet) /\ Len(vs) \in Nat /\ lp \in Nat
      /\ found \in Stacks /\ Activation(vs, lp, Len(vs), found)
      /\ code' = code /\ seen' = seen
  BY Executes
<1> DEFINE looping == e.ip > 1 /\ LoopResults(e)
           arrival == seen[e.ip].stack
<1>3. Goto(Moved(e, sp), e.ip, e.idx) /\ (defect' = {} => ~looping)
  BY DEF Transfer
<1>4. Live(e.ip) /\ Fitting(code[ip], found, e, arrival, looping)
  BY <1>1 DEF Landed
<1> HIDE DEF e, found, looping, arrival
<1>5. PICK s \in Stacks, p \in Stacks, q \in Stacks, w \in Stacks :
        /\ AtBranch(code[ip], found, s)
        /\ s = (p \o q) \o w /\ arrival = p \o w
        /\ e.pop = CellNum(q \o w)
        /\ e.push = CellNum(w) \/ looping
  BY <1>1, <1>4 DEF Fitting
<1>6. Activation(vs, lp, sp, s)
  <2>1. CASE op = "br"
    BY <1>2, <1>5, <2>1 DEF AtBranch
  <2>2. CASE op # "br"
    <3>1. found = Append(s, "I32") /\ sp = Len(vs) - 1
      BY <1>2, <1>5, <2>2 DEF AtBranch
    <3> QED BY <1>2, <3>1, BelowCondition
  <2> QED BY <2>1, <2>2
<1>7. q \o w \in Stacks /\ s = p \o (q \o w)
      /\ CellNum(q \o w) = CellNum(q) + CellNum(w) /\ CellNum(s) = CellNum(p) + CellNum(q \o w)
      /\ CellNum(p) \in Nat /\ CellNum(q) \in Nat /\ CellNum(w) \in Nat /\ CellNum(Locals) \in Nat
  <2>1. q \o w \in Stacks /\ (p \o q) \o w = p \o (q \o w)
    <3>1. p \in Seq(ValueType) /\ q \in Seq(ValueType) /\ w \in Seq(ValueType)
      BY DEF Stacks
    <3>2. q \o w \in Seq(ValueType)
      BY <3>1
    <3>3. (p \o q) \o w = p \o (q \o w)
      BY <3>1, SMTT(40)
    <3> QED BY <3>2, <3>3 DEF Stacks
  <2>2. s = p \o (q \o w)
    BY <1>5, <2>1
  <2> QED BY <2>1, <2>2, CellNumConcat, CellNumLen, ValidatorAssumption DEF Stacks
<1>8. /\ sp = lp + CellNum(Locals) + CellNum(s) /\ sp <= Len(vs)
      /\ Fits(vs, lp + CellNum(Locals), s)
  BY <1>6 DEF Activation
<1> DEFINE m == sp - e.pop
<1>9. m = lp + CellNum(Locals) + CellNum(p) /\ m \in 0 .. Len(vs) /\ lp \in 0 .. m /\ sp \in 0 .. Len(vs)
      /\ sp - CellNum(w) = m + CellNum(q) /\ sp - CellNum(w) \in Nat
      /\ sp - CellNum(w) + CellNum(w) <= Len(vs)
  <2> DEFINE a == CellNum(p)
             b == CellNum(q)
             d == CellNum(w)
             f == CellNum(Locals)
             h == Len(vs)
  <2>1. /\ a \in Nat /\ b \in Nat /\ d \in Nat /\ f \in Nat /\ h \in Nat /\ lp \in Nat
        /\ sp = lp + f + (a + (b + d)) /\ sp <= h /\ e.pop = b + d
    BY <1>2, <1>5, <1>7, <1>8
  <2> HIDE DEF a, b, d, f, h
  <2>2. m = lp + f + a /\ m \in 0 .. h /\ lp \in 0 .. m /\ sp \in 0 .. h /\ sp - d = m + b /\ sp - d \in Nat
        /\ sp - d + d <= h
    BY <2>1
  <2> QED BY <2>2 DEF a, b, d, f, h
<1>10. CASE looping
  <2>1. Moved(e, sp) \in Seq(CellSet) /\ Agree(vs, Moved(e, sp), lp)
    BY <1>1, <1>2, <1>9, MovedStays
  <2> QED BY <1>3, <1>10, <2>1, StepTyped DEF Goto
<1>11. CASE ~looping
  <2>1. e.push = CellNum(w)
    BY <1>5, <1>11
  <2> DEFINE c == CellsAt(sp - CellNum(w), CellNum(w))
  <2>2. Moved(e, sp) = SubSeq(vs, 1, sp - CellNum(q \o w)) \o c
    <3>1. ~(CellNum(w) - CellNum(q \o w) > 0)
      BY <1>7
    <3> HIDE DEF m
    <3>2. [i \in 1 .. CellNum(w) |->
             IF CellNum(w) - CellNum(q \o w) > 0
             THEN At(sp - CellNum(w) + 1 + ((i - 1) % (CellNum(w) - CellNum(q \o w))))
             ELSE At(sp - CellNum(w) + i)] = c
      BY <3>1 DEF CellsAt
    <3> HIDE DEF c
    <3> QED BY <1>5, <2>1, <3>2, Zenon DEF Moved
  <2>3. Fits(vs, sp - CellNum(w), w)
    <3>1. lp + CellNum(Locals) \in Int /\ (lp + CellNum(Locals)) + CellNum(p) = m /\ m \in Int
      BY <1>2, <1>7, <1>9
    <3>2. Fits(vs, (lp + CellNum(Locals)) + CellNum(p), q \o w)
      BY <1>7, <1>8, <3>1, FitsConcat
    <3>3. Fits(vs, m, q \o w)
      BY <3>1, <3>2
    <3> HIDE DEF m
    <3>4. Fits(vs, m + CellNum(q), w)
      BY <3>1, <3>3, FitsConcat
    <3> QED BY <1>9, <3>4
  <2>4. c \in Seq(CellSet) /\ Len(c) = CellNum(w) /\ Fits(c, 0, w)
    <3> HIDE DEF m
    <3> QED BY <1>2, <1>9, <2>3, CellsAtFit
  <2>5. Activation(vs, lp, sp, p \o (q \o w))
    BY <1>6, <1>7
  <2> HIDE DEF c
  <2>6. Live(e.ip) /\ seen[e.ip].stack = p \o w
    BY <1>4, <1>5 DEF arrival
  <2>7. Goto(SubSeq(vs, 1, sp - CellNum(q \o w)) \o c, e.ip, e.idx)
    BY <1>3, <2>2, Zenon
  <2> QED BY <1>7, <1>9, <2>4, <2>5, <2>6, <2>7, ReplaceTyped
<1> QED BY <1>10, <1>11

(* These instructions have one entry.                                      *)
LEMMA OneEntry ==
  ASSUME Engine, NEW op \in {"if", "else", "br", "br_if"}, Exec(op)
  PROVE  Entries(code[ip]) = 1 /\ 1 \in 1 .. Entries(code[ip])
<1>1. Entries(code[ip]) = 1
  BY Executes DEF Entries
<1> QED BY <1>1

(* A condition is popped on the way to the next instruction.               *)
LEMMA PassTyped ==
  ASSUME Engine, NEW op \in {"if", "br_if"}, Exec(op), NEW c, Goto(Without(1), ip + 1, c)
  PROVE  RunTyped' /\ Kept
<1>1. code[ip].op = op /\ Live(ip + 1) /\ Effect(code[ip], seen[ip].stack, seen[ip + 1].stack)
  BY Executes, GoesOn DEF FlowEnders
<1>2. PICK r \in Stacks, pop \in Stacks, push \in Stacks :
        Moves(code[ip], pop, push) /\ seen[ip].stack = r \o pop /\ seen[ip + 1].stack = r \o push
  BY <1>1 DEF Effect
<1>3. pop = <<"I32">> /\ push = <<>>
  BY <1>1, <1>2 DEF Moves
<1>4. CellNum(pop) = 1
  <2>1. "I32" \in ValueType /\ "I32" \notin Wide
    BY DEF ValueType, Wide
  <2> QED BY <1>3, <2>1, OneValue
<1>5. seen[ip + 1].stack = r
  BY <1>2, <1>3, ConcatEmptySeq DEF Stacks
<1>6. Goto(Without(CellNum(pop)), ip + 1, c)
  BY <1>4
<1> QED BY <1>1, <1>2, <1>5, <1>6, PopTyped

(* IF goes on with the next instruction or through its entry.              *)
LEMMA IfRuns == Engine /\ HandleIf => RunTyped' /\ Kept
<1> SUFFICES ASSUME Engine, HandleIf PROVE RunTyped' /\ Kept
  OBVIOUS
<1> DEFINE e == table[cur + 1]
           found == seen[ip].stack
<1>1. Exec("if") /\ (Pass(Without(1), 1) \/ (/\ Goto(Without(1), e.ip, e.idx)
                                             /\ defect' = IF IntoElse(e) THEN {"else_cursor"} ELSE {}))
  BY DEF HandleIf
<1>2. CASE Pass(Without(1), 1)
  BY <1>1, <1>2, PassTyped DEF Pass
<1>3. CASE /\ Goto(Without(1), e.ip, e.idx)
           /\ defect' = IF IntoElse(e) THEN {"else_cursor"} ELSE {}
  <2>1. e.op = "if" /\ (IntoElse(e) \/ Landed(ip, e))
    BY <1>1, OneEntry, EntryFits
  <2>2. code[ip].op = "if" /\ found \in Stacks
    BY <1>1, Executes
  <2>3. PICK s \in Stacks : found = Append(s, "I32")
    <3>1. Effect(code[ip], found, seen[ip + 1].stack)
      BY <1>1, GoesOn DEF FlowEnders
    <3>2. PICK r \in Stacks, pop \in Stacks, push \in Stacks :
            Moves(code[ip], pop, push) /\ found = r \o pop
      BY <3>1 DEF Effect
    <3>3. pop = <<"I32">>
      BY <2>2, <3>2 DEF Moves
    <3>4. r \o <<"I32">> = Append(r, "I32")
      <4>1. r \in Seq(ValueType) /\ "I32" \in ValueType
        BY DEF Stacks, ValueType
      <4> QED BY <4>1
    <3> QED BY <3>2, <3>3, <3>4
  <2>4. Append(s, "I32") = s \o <<"I32">> /\ CellNum(<<"I32">>) = 1 /\ <<"I32">> \in Stacks
    <3>1. "I32" \in ValueType /\ "I32" \notin Wide
      BY DEF ValueType, Wide
    <3> QED BY <3>1, OneValue DEF Stacks
  <2>5. Lands(vs, Without(1), lp, s)
    <3>1. Lands(vs, Without(CellNum(<<"I32">>)), lp, s)
      BY <1>1, <2>3, <2>4, PopLands
    <3> QED BY <2>4, <3>1
  <2>6. ASSUME defect' = {} PROVE Live(e.ip) /\ seen[e.ip].stack = s
    <3>1. Landed(ip, e)
      BY <1>3, <2>1, <2>6
    <3>2. Live(e.ip) /\ Fitting(code[ip], found, e, seen[e.ip].stack, e.ip > 1 /\ LoopResults(e))
      BY <3>1 DEF Landed
    <3>3. PICK u \in Stacks : AtBranch(code[ip], found, u) /\ seen[e.ip].stack = u
      BY <2>1, <3>2 DEF Fitting
    <3>4. Append(s, "I32") = Append(u, "I32")
      BY <2>2, <2>3, <3>3 DEF AtBranch
    <3>5. s = u
      <4>1. s \in Seq(ValueType) /\ u \in Seq(ValueType) /\ "I32" \in ValueType
        BY DEF Stacks, ValueType
      <4> QED BY <3>4, <4>1, AppendInjective
    <3> QED BY <3>2, <3>3, <3>5
  <2> QED BY <1>1, <1>3, <2>5, <2>6, LandsTyped
<1> QED BY <1>1, <1>2, <1>3

(* ELSE goes on through its entry.                                         *)
LEMMA ElseRuns == Engine /\ HandleElse => RunTyped' /\ Kept
<1> SUFFICES ASSUME Engine, HandleElse PROVE RunTyped' /\ Kept
  OBVIOUS
<1> DEFINE e == table[cur + 1]
           found == seen[ip].stack
<1>1. Exec("else") /\ Goto(vs, e.ip, e.idx)
  BY DEF HandleElse
<1>2. e.op = "else" /\ Landed(ip, e)
  BY <1>1, OneEntry, EntryFits DEF IntoElse
<1>3. /\ code[ip].op = "else" /\ vs \in Seq(CellSet) /\ Activation(vs, lp, Len(vs), found)
      /\ lp \in Nat /\ lp <= Len(vs)
  BY <1>1, Executes
<1>4. Live(e.ip) /\ Fitting(code[ip], found, e, seen[e.ip].stack, e.ip > 1 /\ LoopResults(e))
  BY <1>2 DEF Landed
<1>5. seen[e.ip].stack = found
  BY <1>2, <1>3, <1>4 DEF Fitting, AtBranch
<1>6. Lands(vs, vs, lp, found)
  BY <1>3 DEF Lands, Agree
<1> QED BY <1>1, <1>4, <1>5, <1>6, LandsTyped

(* BR, BR_IF and BR_TABLE.                                                 *)
LEMMA BranchesRun == Engine /\ (HandleBr \/ HandleBrIf \/ HandleBrTable) => RunTyped' /\ Kept
<1> SUFFICES ASSUME Engine, HandleBr \/ HandleBrIf \/ HandleBrTable PROVE RunTyped' /\ Kept
  OBVIOUS
<1>1. CASE HandleBr
  <2>1. Exec("br") /\ Transfer(table[cur + 1], Len(vs))
    BY <1>1 DEF HandleBr
  <2> QED BY <2>1, OneEntry, TransferTyped
<1>2. CASE HandleBrIf
  <2>1. Exec("br_if") /\ (Transfer(table[cur + 1], Len(vs) - 1) \/ Pass(Without(1), 1))
    BY <1>2 DEF HandleBrIf
  <2>2. CASE Transfer(table[cur + 1], Len(vs) - 1)
    BY <2>1, <2>2, OneEntry, TransferTyped
  <2>3. CASE Pass(Without(1), 1)
    BY <2>1, <2>3, PassTyped DEF Pass
  <2> QED BY <2>1, <2>2, <2>3
<1>3. CASE HandleBrTable
  <2>1. /\ Exec("br_table") /\ code[ip].op = "br_table" /\ ip \in 1 .. Len(code) /\ cur \in Nat /\ TypeOK
        /\ Entries(code[ip]) = code[ip].count + 1
    BY <1>3, Executes DEF HandleBrTable, Entries
  <2>2. code[ip] \in InstrSet
    BY <2>1 DEF TypeOK
  <2>3. code[ip].count \in Nat
    BY <2>1, <2>2 DEF InstrSet
  <2>4. PICK lidx \in 0 .. code[ip].count : Transfer(table[cur + lidx + 1], Len(vs) - 1)
    BY <1>3 DEF HandleBrTable
  <2>5. lidx + 1 \in 1 .. Entries(code[ip]) /\ cur + lidx + 1 = cur + (lidx + 1)
    BY <2>1, <2>3
  <2> QED BY <2>1, <2>4, <2>5, TransferTyped
<1> QED BY <1>1, <1>2, <1>3

(* The call in the last frame, if one waits for results.                   *)
LEMMA LastWaiting ==
  ASSUME Engine, NEW op, Exec(op), Len(frames) # 1
  PROVE  Len(frames) - 1 \in Nat \ {0} /\ Len(frames) \in 2 .. Len(frames) /\ Waiting(Len(frames))
<1>1. Len(frames) \in Nat \ {0} /\ FramesTyped
  BY Executes
<1>2. Len(frames) - 1 \in Nat \ {0} /\ Len(frames) \in 2 .. Len(frames)
  <2>1. \A n \in Nat \ {0} : n # 1 => n - 1 \in Nat \ {0} /\ n \in 2 .. n
    OBVIOUS
  <2> QED BY <1>1, <2>1
<1> QED BY <1>1, <1>2 DEF FramesTyped

(* The operands end in the results where the function returns.             *)
LEMMA ReturnFinds ==
  ASSUME Engine, NEW op \in {"return", "end"}, Exec(op), op = "return" \/ ip = Len(code)
  PROVE  \E r \in Stacks : seen[ip].stack = r \o FuncType.result
<1>1. code[ip].op = op /\ Live(ip) /\ ip \in 1 .. Len(code) /\ verdict = "accepted" /\ Sound
  BY Executes
<1>2. CASE op = "return"
  BY <1>1, <1>2 DEF Sound, ReturnTyped
<1>3. CASE ip = Len(code)
  <2>1. seen[ip].stack = FuncType.result
    BY <1>1, <1>3 DEF Sound, ReturnTyped
  <2>2. FuncType.result \in Stacks /\ <<>> \in Stacks
    BY ValidatorAssumption DEF FuncTypeSet, Stacks
  <2> QED BY <2>1, <2>2, ConcatEmptySeq DEF Stacks
<1> QED BY <1>2, <1>3

(* What RETURN leaves on the stack.                                        *)
LEMMA ReturnLeaves ==
  ASSUME Engine, NEW op \in {"return", "end"}, Exec(op), op = "return" \/ ip = Len(code), ReturnFunc
  PROVE  /\ frames[Len(frames)].sp \in 0 .. Len(vs)
         /\ FuncType.result \in Stacks /\ RetCells \in Nat
         /\ \E c \in Seq(CellSet) : /\ Len(c) = RetCells /\ Fits(c, 0, FuncType.result)
                                    /\ vs' = SubSeq(vs, 1, frames[Len(frames)].sp) \o c
<1> DEFINE n == Len(frames)
           t == FuncType.result
<1>1. /\ n \in Nat \ {0} /\ n \in 1 .. n /\ FramesTyped /\ lp \in Nat /\ lp <= Len(vs) /\ vs \in Seq(CellSet) /\ Len(vs) \in Nat
  BY Executes
<1>2. frames[n].sp \in Nat /\ frames[n].sp <= lp
  BY <1>1, FramePointers DEF FramesTyped
<1>3. frames[n].sp \in 0 .. Len(vs)
  BY <1>1, <1>2
<1>4. t \in Stacks
  BY ValidatorAssumption DEF FuncTypeSet, Stacks
<1>5. PICK r \in Stacks : seen[ip].stack = r \o t
  BY ReturnFinds
<1>6. CellNum(t) \in Nat /\ Len(vs) - CellNum(t) \in 0 .. Len(vs) /\ Fits(vs, Len(vs) - CellNum(t), t)
  BY <1>4, <1>5, PopRange
<1> DEFINE c == Topmost(RetCells)
<1>7. c \in Seq(CellSet) /\ Len(c) = RetCells /\ Fits(c, 0, t)
  <2>1. Len(vs) - CellNum(t) \in Nat /\ Len(vs) - CellNum(t) + CellNum(t) <= Len(vs)
    BY <1>1, <1>6
  <2> QED BY <1>1, <1>4, <1>6, <2>1, CellsAtFit DEF Topmost, RetCells
<1>8. [i \in 1 .. frames[n].sp |-> At(i)] = SubSeq(vs, 1, frames[n].sp)
  <2> DEFINE m == frames[n].sp
             f == [i \in 1 .. m |-> At(i)]
             g == SubSeq(vs, 1, m)
  <2>1. m \in 0 .. Len(vs) /\ m \in Nat /\ DOMAIN vs = 1 .. Len(vs)
    BY <1>1, <1>2, <1>3
  <2> HIDE DEF m
  <2>2. \A i \in 1 .. m : i \in DOMAIN vs
    BY <1>1, <2>1
  <2>3. f = [i \in 1 .. m |-> vs[i]]
    BY <2>2 DEF At
  <2>4. g = [i \in 1 .. m |-> vs[i]]
    <3>1. g \in Seq(CellSet) /\ Len(g) = m /\ \A i \in 1 .. m : g[i] = vs[i]
      BY <1>1, <2>1, PrefixType, PrefixOf
    <3> HIDE DEF g
    <3> QED BY <3>1
  <2> QED BY <2>3, <2>4 DEF m
<1>9. vs' = SubSeq(vs, 1, frames[n].sp) \o c
  BY <1>8 DEF ReturnFunc
<1> HIDE DEF c
<1> QED BY <1>3, <1>4, <1>6, <1>7, <1>9 DEF RetCells

(* A return leaves the operands of the caller.                             *)
LEMMA ReturnKeeps ==
  ASSUME Engine, NEW op \in {"return", "end"}, Exec(op), op = "return" \/ ip = Len(code), ReturnFunc
  PROVE  Kept
<1> DEFINE m == frames[Len(frames)].sp
           u == SubSeq(vs, 1, m)
<1>1. m \in 0 .. Len(vs) /\ vs \in Seq(CellSet) /\ Len(vs) \in Nat
  BY ReturnLeaves, Executes
<1>2. PICK c \in Seq(CellSet) : vs' = u \o c
  BY ReturnLeaves
<1>3. u \in Seq(CellSet) /\ Len(u) = m /\ \A i \in 1 .. m : u[i] = vs[i]
  BY <1>1, PrefixType, PrefixOf
<1> HIDE DEF u
<1>4. /\ u \o c \in Seq(CellSet) /\ Len(u \o c) = Len(u) + Len(c) /\ Len(c) \in Nat
      /\ \A i \in 1 .. Len(u) : (u \o c)[i] = u[i]
  BY <1>3, Joined
<1>5. DOMAIN (u \o c) = 1 .. Len(u) + Len(c)
  BY <1>4
<1> HIDE DEF m
<1>6. ASSUME NEW k \in 1 .. m PROVE k \in DOMAIN vs' /\ vs'[k] = vs[k]
  <2>1. k \in 1 .. Len(u) + Len(c) /\ k \in 1 .. Len(u)
    BY <1>1, <1>3, <1>4
  <2> QED BY <1>2, <1>3, <1>4, <1>5, <2>1
<1>7. vs' \in Seq(CellSet)
  BY <1>2, <1>4
<1> QED BY <1>6, <1>7 DEF Kept, m

(* The caller goes on with the results where it expects them.              *)
LEMMA ReturnTypedRun ==
  ASSUME Engine, NEW op \in {"return", "end"}, Exec(op), op = "return" \/ ip = Len(code), ReturnFunc
  PROVE  RunTyped'
<1> DEFINE f == Len(frames)
           prev == frames[f]
           t == FuncType.result
<1>1. CASE f = 1
  BY <1>1 DEF ReturnFunc, RunTyped, Running
<1>2. CASE f # 1
  <2>1. /\ f \in Nat \ {0} /\ FramesTyped /\ vs \in Seq(CellSet) /\ lapses' = {} /\ seen' = seen /\ code' = code
    BY Executes
  <2>2. f - 1 \in Nat \ {0} /\ f \in 2 .. f /\ Waiting(f)
    BY <1>2, LastWaiting
  <2>3. PICK s \in Stacks : seen[prev.ip].stack = s \o t /\ Activation(vs, prev.lp, prev.sp, s)
    BY <2>2 DEF Waiting
  <2>4. Live(prev.ip) /\ \A j \in 1 .. f - 1 : frames[j].sp <= prev.lp
    BY <2>2 DEF Waiting
  <2>5. ip' = prev.ip /\ lp' = prev.lp /\ frames' = SubSeq(frames, 1, f - 1)
    BY <1>2 DEF ReturnFunc
  <2>6. prev.sp \in 0 .. Len(vs) /\ t \in Stacks
    BY ReturnLeaves
  <2>7. PICK c \in Seq(CellSet) : /\ Len(c) = CellNum(t) /\ Fits(c, 0, t)
                                  /\ vs' = SubSeq(vs, 1, prev.sp) \o c
    BY ReturnLeaves DEF RetCells
  <2>8. PICK w : w = vs'
    OBVIOUS
  <2>9. Lands(vs, w, prev.lp, s \o t)
    <3>1. s \o <<>> = s /\ <<>> \in Stacks
      BY ConcatEmptySeq DEF Stacks
    <3>2. Activation(vs, prev.lp, prev.sp, s \o <<>>)
      BY <2>3, <3>1
    <3>3. prev.sp - CellNum(<<>>) = prev.sp
      BY <2>6, NoCells
    <3>4. w = SubSeq(vs, 1, prev.sp - CellNum(<<>>)) \o c
      BY <2>7, <2>8, <3>3
    <3> HIDE DEF prev, t
    <3> QED BY <2>1, <2>6, <2>7, <3>1, <3>2, <3>4, Replaced
  <2>10. /\ w \in Seq(CellSet) /\ Activation(w, prev.lp, Len(w), s \o t) /\ Agree(vs, w, prev.lp)
         /\ prev.lp \in Nat
    BY <2>9 DEF Lands, Activation
  <2>11. Len(frames') = f - 1 /\ \A k \in 1 .. f - 1 : frames'[k] = frames[k]
    <3>1. \E S : frames \in Seq(S)
      BY Executing DEF Engine, FramesSequence
    <3>2. PICK S : frames \in Seq(S)
      BY <3>1
    <3>3. f - 1 \in 0 .. f
      BY <2>1, <2>2
    <3> QED BY <2>5, <3>2, <3>3, PrefixType, PrefixOf
  <2> HIDE DEF f, prev
  <2>12. 1 \in 1 .. f - 1 /\ \A k \in 2 .. f - 1 : k \in 1 .. f - 1 /\ k \in 2 .. f
    BY <2>1, <2>2
  <2>13. CallerKept(frames[1].sp)'
    <3>1. CallerKept(frames[1].sp) /\ frames[1].sp <= prev.lp
      BY <2>1, <2>4, <2>12 DEF FramesTyped
    <3>2. frames[1].sp = 1 => vs'[1] = vs[1]
      BY <2>8, <2>10, <3>1 DEF Agree
    <3> QED BY <2>11, <2>12, <3>1, <3>2 DEF CallerKept
  <2>14. ASSUME NEW k \in 2 .. f - 1 PROVE Waiting(k)'
    <3>1. Waiting(k) /\ frames[k].sp <= prev.lp /\ frames'[k] = frames[k]
      BY <2>1, <2>4, <2>11, <2>12 DEF FramesTyped, f
    <3>2. PICK q \in Stacks : /\ seen[frames[k].ip].stack = q \o FuncType.result
                              /\ Activation(vs, frames[k].lp, frames[k].sp, q)
      BY <3>1 DEF Waiting
    <3>3. Activation(vs', frames[k].lp, frames[k].sp, q)
      <4>1. Len(w) \in Nat
        BY <2>10
      <4> QED BY <2>1, <2>8, <2>10, <3>1, <3>2, <4>1, ActivationKept
    <3>4. \A j \in 1 .. k - 1 : j \in 1 .. f - 1
      BY <2>1, <2>2
    <3>5. \A j \in 1 .. k - 1 : frames'[j].sp <= frames'[k].lp
      BY <2>11, <3>1, <3>4 DEF Waiting
    <3> QED BY <2>1, <3>1, <3>2, <3>3, <3>5 DEF Waiting, Live
  <2>15. FramesTyped'
    <3>1. \A k \in 1 .. f - 1 : frames'[k].sp <= lp'
      BY <2>4, <2>5, <2>11
    <3> QED BY <2>11, <2>13, <2>14, <3>1 DEF FramesTyped
  <2> QED BY <2>1, <2>3, <2>4, <2>5, <2>8, <2>10, <2>15 DEF RunTyped, Live
<1> QED BY <1>1, <1>2

(* The parameters are the first locals.                                    *)
LEMMA LocalsBegin ==
  \E q \in Stacks : /\ FuncType.param \in Stacks /\ Locals = FuncType.param \o q
                    /\ LocalCells = CellNum(q) /\ ParamCells \in Nat /\ LocalCells \in Nat
                    /\ CellNum(Locals) = ParamCells + LocalCells
<1> DEFINE p == FuncType.param
           n == Len(p)
<1>1. p \in Seq(ValueType) /\ Locals \in Seq(ValueType) /\ FuncType.result \in Seq(ValueType)
  BY ValidatorAssumption DEF FuncTypeSet
<1>2. n \in 0 .. Len(Locals) /\ p = SubSeq(Locals, 1, n)
  BY <1>1, InterpreterAssumption, SubSeqFull DEF IsPrefix
<1>3. PICK q \in Seq(ValueType) : Locals = p \o q
  <2>1. PICK q \in Seq(ValueType) : Locals = SubSeq(Locals, 1, n) \o q /\ Len(q) = Len(Locals) - n
    BY <1>1, <1>2, Splits, Zenon
  <2> HIDE DEF p, n
  <2> QED BY <1>2, <2>1, Zenon
<1>4. CellNum(Locals) = CellNum(p) + CellNum(q) /\ CellNum(p) \in Nat /\ CellNum(q) \in Nat
  BY <1>1, <1>3, CellNumConcat, CellNumNat
<1>5. LocalCells = CellNum(q) /\ ParamCells = CellNum(p)
  BY <1>4 DEF LocalCells, ParamCells
<1> QED BY <1>1, <1>3, <1>4, <1>5 DEF Stacks

(* Zeros are values of any type.                                           *)
LEMMA ZerosFit ==
  ASSUME NEW s \in Stacks
  PROVE  /\ Zeros(CellNum(s)) \in Seq(CellSet) /\ Len(Zeros(CellNum(s))) = CellNum(s)
         /\ Fits(Zeros(CellNum(s)), 0, s)
<1>1. Zero \in CellSet
  BY DEF Zero, Cell, CellSet
<1>2. CellNum(s) \in Nat
  BY CellNumLen
<1>3. \A i \in 1 .. CellNum(s) : 0 + i = i
  OBVIOUS
<1> QED BY <1>1, <1>2, <1>3 DEF Zeros, Fits

(* A function that is entered has its parameters, zeros for its locals and *)
(* no operands.                                                            *)
LEMMA Entered ==
  ASSUME NEW v \in Seq(CellSet), NEW n \in 0 .. Len(v), n - ParamCells \in Nat,
         Fits(v, n - ParamCells, FuncType.param),
         NEW w, w = SubSeq(v, 1, n) \o Zeros(LocalCells)
  PROVE  w \in Seq(CellSet) /\ Activation(w, n - ParamCells, Len(w), <<>>) /\ Agree(v, w, n)
<1> DEFINE u == SubSeq(v, 1, n)
           z == Zeros(LocalCells)
           l == n - ParamCells
           p == FuncType.param
<1>1. PICK q \in Stacks : /\ p \in Stacks /\ Locals = p \o q
                          /\ LocalCells = CellNum(q) /\ ParamCells \in Nat /\ LocalCells \in Nat
                          /\ CellNum(Locals) = ParamCells + LocalCells
  BY LocalsBegin
<1>2. u \in Seq(CellSet) /\ Len(u) = n /\ \A i \in 1 .. n : u[i] = v[i]
  BY PrefixType, PrefixOf
<1>3. z \in Seq(CellSet) /\ Len(z) = LocalCells /\ Fits(z, 0, q)
  BY <1>1, ZerosFit
<1> HIDE DEF u, z, p
<1>4. w \in Seq(CellSet) /\ Len(w) = n + LocalCells
  <2>1. u \o z \in Seq(CellSet) /\ Len(u \o z) = Len(u) + Len(z)
    BY <1>2, <1>3, Joined
  <2> QED BY <1>2, <1>3, <2>1 DEF u, z
<1>5. \A i \in 1 .. n : w[i] = v[i]
  <2>1. \A i \in 1 .. Len(u) : (u \o z)[i] = u[i]
    BY <1>2, <1>3, Joined
  <2> QED BY <1>2, <2>1 DEF u, z
<1>6. \A i \in 1 .. LocalCells : w[n + i] = z[i]
  <2>1. \A i \in 1 .. Len(z) : (u \o z)[Len(u) + i] = z[i]
    BY <1>2, <1>3, Joined
  <2> QED BY <1>2, <1>3, <2>1 DEF u, z
<1>7. l \in Nat /\ l + ParamCells = n /\ n \in Nat /\ \A i \in 1 .. ParamCells : l + i \in 1 .. n
  BY <1>1
<1>8. Fits(w, l, p)
  <2>1. Fits(v, l, p) /\ CellNum(p) = ParamCells
    BY DEF p, ParamCells
  <2>2. \A i \in 1 .. ParamCells : w[l + i] = v[l + i]
    BY <1>5, <1>7
  <2> QED BY <2>1, <2>2 DEF Fits
<1>9. Fits(w, n, q)
  <2>1. \A i \in 1 .. LocalCells : 0 + i = i
    BY <1>1
  <2>2. \A i \in 1 .. LocalCells : w[n + i] = z[0 + i]
    BY <1>6, <2>1
  <2> QED BY <1>1, <1>3, <2>2 DEF Fits
<1>10. Fits(w, l, Locals)
  <2>1. CellNum(p) = ParamCells
    BY DEF p, ParamCells
  <2>2. Fits(w, l + CellNum(p), q)
    BY <1>7, <1>9, <2>1
  <2> HIDE DEF l
  <2>3. Fits(w, l, p \o q)
    BY <1>1, <1>7, <1>8, <2>2, FitsConcat
  <2> QED BY <1>1, <2>3
<1>11. Len(w) = l + CellNum(Locals) + CellNum(<<>>) /\ Len(w) <= Len(w)
  BY <1>1, <1>4, <1>7, NoCells
<1>12. n <= Len(w)
  BY <1>1, <1>4, <1>7
<1>13. <<>> \in Stacks
  BY DEF Stacks
<1> QED BY <1>4, <1>5, <1>7, <1>10, <1>11, <1>12, <1>13, FitsNone DEF Activation, Agree

(* An import replaces its arguments by its results, or traps.              *)
LEMMA NativeTyped ==
  ASSUME Engine, NEW op, Exec(op), NEW type \in FuncTypeSet, Len(type.result) <= 1,
         NEW sp \in 0 .. Len(vs), NEW r \in Stacks, Activation(vs, lp, sp, r \o type.param),
         Live(ip + 1), seen[ip + 1].stack = r \o type.result, CallNative(type, sp)
  PROVE  RunTyped' /\ Kept
<1> DEFINE result == Cells(type.result)
           new == IF Len(result) \in {1, 2} THEN result ELSE <<>>
<1>1. type.result \in Stacks /\ type.param \in Stacks
  BY DEF FuncTypeSet, Stacks
<1>2. result \in Seq(CellSet) /\ Len(result) = CellNum(type.result) /\ Fits(result, 0, type.result)
  BY <1>1, CellsType, FitsCells
<1>3. new = result
  <2>1. CASE type.result = <<>>
    BY <2>1, CellsNone
  <2>2. CASE type.result # <<>>
    <3>1. type.result = <<type.result[1]>> /\ type.result[1] \in ValueType
      BY <1>1, <2>2 DEF Stacks
    <3>2. CellNum(type.result) \in {1, 2}
      BY <3>1, OneValue
    <3> QED BY <1>2, <3>2
  <2> QED BY <2>1, <2>2
<1>4. CASE Trap
  BY <1>4, TrapTyped
<1>5. CASE Proceed(SubSeq(vs, 1, sp - CellNum(type.param)) \o new)
  <2>1. Goto(SubSeq(vs, 1, sp - CellNum(type.param)) \o result, ip + 1, cur)
    BY <1>3, <1>5 DEF Proceed
  <2> HIDE DEF result
  <2> QED BY <1>1, <1>2, <2>1, ReplaceTyped
<1> QED BY <1>4, <1>5 DEF CallNative

(* The function called is an import or the function itself.                *)
LEMMA FuncsOf ==
  ASSUME NEW f \in 0 .. Self
  PROVE  /\ f < Self => Funcs[f + 1] = Imports[f + 1] /\ Len(Imports[f + 1].result) <= 1
         /\ ~(f < Self) => Funcs[f + 1] = FuncType
         /\ Funcs[f + 1] \in FuncTypeSet
<1>1. /\ Imports \in Seq(FuncTypeSet) /\ FuncType \in FuncTypeSet /\ Len(Imports) \in Nat
      /\ DOMAIN Imports = 1 .. Len(Imports)
  BY ValidatorAssumption
<1>2. /\ \A i \in 1 .. Len(Imports) : Funcs[i] = Imports[i]
      /\ Funcs[Len(Imports) + 1] = FuncType
  BY <1>1 DEF Funcs
<1>3. CASE f < Self
  <2>1. f + 1 \in 1 .. Len(Imports)
    BY <1>1, <1>3 DEF Self
  <2> QED BY <1>1, <1>2, <1>3, <2>1, InterpreterAssumption
<1>4. CASE ~(f < Self)
  <2>1. f + 1 = Len(Imports) + 1
    BY <1>1, <1>4 DEF Self
  <2> QED BY <1>1, <1>2, <1>4, <2>1
<1> QED BY <1>3, <1>4

(* The function calls itself: its frame waits behind the one that begins.  *)
LEMMA BytecodeTyped ==
  ASSUME Engine, NEW op, Exec(op), NEW sp \in 0 .. Len(vs), NEW r \in Stacks,
         Activation(vs, lp, sp, r \o FuncType.param),
         Live(ip + 1), seen[ip + 1].stack = r \o FuncType.result, CallBytecode(sp)
  PROVE  RunTyped' /\ Kept
<1> DEFINE f == Len(frames)
           saved == [ip |-> ip + 1, sp |-> sp - ParamCells, lp |-> lp, cur |-> cur]
           p == FuncType.param
<1>1. /\ f \in Nat \ {0} /\ FramesTyped /\ vs \in Seq(CellSet) /\ lapses' = {} /\ seen' = seen /\ code' = code
      /\ lp \in Nat /\ Sound /\ code # <<>> /\ Len(vs) \in Nat
  <2>1. code # <<>>
    BY Executing DEF Engine, CursorInv, CountInv, EndsInEnd
  <2> QED BY <2>1, Executes
<1>2. /\ frames' = Append(frames, saved) /\ ip' = 1 /\ lp' = sp - ParamCells
      /\ vs' = SubSeq(vs, 1, sp) \o Zeros(LocalCells)
  BY DEF CallBytecode
<1>3. /\ p \in Stacks /\ ParamCells \in Nat /\ CellNum(Locals) \in Nat /\ CellNum(r) \in Nat
      /\ CellNum(r \o p) = CellNum(r) + ParamCells
  <2>1. p \in Stacks
    BY ValidatorAssumption DEF FuncTypeSet, Stacks
  <2> QED BY <2>1, CellNumLen, CellNumConcat, ValidatorAssumption DEF ParamCells, Stacks
<1>4. /\ sp = lp + CellNum(Locals) + (CellNum(r) + ParamCells)
      /\ Fits(vs, lp, Locals) /\ Fits(vs, lp + CellNum(Locals), r \o p)
  BY <1>3 DEF Activation
<1> DEFINE l == sp - ParamCells
<1>5. l \in Nat /\ l = (lp + CellNum(Locals)) + CellNum(r) /\ lp <= l /\ l <= Len(vs) /\ lp + CellNum(Locals) \in Int
      /\ l <= sp /\ sp \in Nat /\ lp <= sp
  BY <1>1, <1>3, <1>4
<1>6. Fits(vs, lp + CellNum(Locals), r) /\ Fits(vs, l, p)
  BY <1>3, <1>4, <1>5, FitsConcat
<1> HIDE DEF l
<1>7. Activation(vs, lp, l, r)
  BY <1>1, <1>4, <1>5, <1>6 DEF Activation
<1>8. PICK w : w = vs'
  OBVIOUS
<1>9. w \in Seq(CellSet) /\ Activation(w, l, Len(w), <<>>) /\ Agree(vs, w, sp)
  BY <1>1, <1>2, <1>5, <1>6, <1>8, Entered DEF l
<1>10. Live(1) /\ seen[1].stack = <<>>
  BY <1>1 DEF Sound, FirstLive
<1>11. Kept
  <2>1. Agree(vs, w, lp)
    <3>1. lp <= Len(w) /\ \A i \in 1 .. lp : i \in 1 .. sp
      <4>1. sp <= Len(w) /\ Len(w) \in Nat
        BY <1>9 DEF Agree
      <4> QED BY <1>1, <1>5, <4>1
    <3> QED BY <1>9, <3>1 DEF Agree
  <2> QED BY <1>8, <1>9, <2>1, KeepsBelow
<1>12. Len(frames') = f + 1 /\ frames'[f + 1] = saved /\ \A k \in 1 .. f : frames'[k] = frames[k]
  <2>1. \E S : frames \in Seq(S)
    BY Executing DEF Engine, FramesSequence
  <2>2. PICK S : frames \in Seq(S)
    BY <2>1
  <2> HIDE DEF saved
  <2> QED BY <1>2, <2>2
<1>13. /\ saved.ip = ip + 1 /\ saved.sp = l /\ saved.lp = lp
  BY DEF l
<1> HIDE DEF f, saved
<1>14. \A k \in 1 .. f : frames[k].sp <= lp /\ frames[k].sp \in Nat
  <2>1. f \in Nat
    BY <1>1
  <2> QED BY <1>1, <2>1, FramePointers DEF FramesTyped, f
<1>15. 1 \in 1 .. f /\ \A k \in 2 .. f + 1 : k = f + 1 \/ (k \in 2 .. f /\ k \in 1 .. f)
  BY <1>1
<1>16. CallerKept(frames[1].sp)'
  <2>1. CallerKept(frames[1].sp) /\ (frames[1].sp = 1 => 1 \in 1 .. sp)
    BY <1>1, <1>5, <1>14, <1>15 DEF FramesTyped
  <2>2. frames[1].sp = 1 => vs'[1] = vs[1]
    BY <1>8, <1>9, <2>1 DEF Agree
  <2> QED BY <1>12, <1>15, <2>1, <2>2 DEF CallerKept
<1>17. ASSUME NEW k \in 2 .. f + 1 PROVE Waiting(k)'
  <2>1. CASE k = f + 1
    <3>1. Activation(vs', lp, l, r)
      <4>1. Len(w) \in Nat
        BY <1>9
      <4> QED BY <1>1, <1>5, <1>7, <1>8, <1>9, <4>1, ActivationKept
    <3>2. \A j \in 1 .. k - 1 : j \in 1 .. f
      BY <1>1, <2>1
    <3>3. \A j \in 1 .. k - 1 : frames'[j].sp <= lp
      BY <1>12, <1>14, <3>2
    <3> QED BY <1>1, <1>12, <1>13, <2>1, <3>1, <3>3 DEF Waiting, Live
  <2>2. CASE k \in 2 .. f /\ k \in 1 .. f
    <3>1. Waiting(k) /\ frames[k].sp <= sp /\ frames'[k] = frames[k]
      BY <1>1, <1>5, <1>12, <1>14, <2>2 DEF FramesTyped, f
    <3>2. PICK q \in Stacks : /\ seen[frames[k].ip].stack = q \o FuncType.result
                              /\ Activation(vs, frames[k].lp, frames[k].sp, q)
      BY <3>1 DEF Waiting
    <3>3. Activation(vs', frames[k].lp, frames[k].sp, q)
      <4>1. Len(w) \in Nat
        BY <1>9
      <4> QED BY <1>1, <1>5, <1>8, <1>9, <3>1, <3>2, <4>1, ActivationKept
    <3>4. \A j \in 1 .. k - 1 : j \in 1 .. f
      BY <1>1, <2>2
    <3>5. \A j \in 1 .. k - 1 : frames'[j].sp <= frames'[k].lp
      BY <1>12, <3>1, <3>4 DEF Waiting
    <3> QED BY <1>1, <3>1, <3>2, <3>3, <3>5 DEF Waiting, Live
  <2> QED BY <1>15, <2>1, <2>2
<1>18. FramesTyped'
  <2>1. ASSUME NEW k \in 1 .. f + 1 PROVE frames'[k].sp <= lp'
    <3>1. k = f + 1 \/ k \in 1 .. f
      BY <1>1
    <3>2. lp' = l
      BY <1>2 DEF l
    <3>3. CASE k = f + 1
      <4>1. frames'[k].sp = l
        BY <1>12, <1>13, <3>3
      <4> QED BY <1>5, <3>2, <4>1
    <3>4. CASE k \in 1 .. f
      <4>1. frames'[k] = frames[k]
        BY <1>12, <3>4
      <4>2. frames[k].sp <= lp /\ frames[k].sp \in Nat
        BY <1>14, <3>4
      <4> DEFINE x == frames[k].sp
      <4>3. x <= l
        <5>1. x <= lp /\ x \in Nat
          BY <4>2
        <5> HIDE DEF x
        <5> QED BY <1>1, <1>5, <5>1
      <4> QED BY <3>2, <4>1, <4>3
    <3> QED BY <3>1, <3>3, <3>4
  <2> QED BY <1>12, <1>16, <1>17, <2>1 DEF FramesTyped
<1> QED BY <1>1, <1>2, <1>8, <1>9, <1>10, <1>11, <1>18 DEF RunTyped, Live, l

(* A call of either.                                                       *)
LEMMA CallFunctionTyped ==
  ASSUME Engine, NEW op, Exec(op), NEW f \in 0 .. Self, NEW sp \in 0 .. Len(vs), NEW r \in Stacks,
         Activation(vs, lp, sp, r \o Funcs[f + 1].param),
         Live(ip + 1), seen[ip + 1].stack = r \o Funcs[f + 1].result, CallFunction(f, sp)
  PROVE  RunTyped' /\ Kept
<1>1. CASE f < Self
  <2>1. CallNative(Funcs[f + 1], sp) /\ Funcs[f + 1] \in FuncTypeSet /\ Len(Funcs[f + 1].result) <= 1
    BY <1>1, FuncsOf DEF CallFunction
  <2> QED BY <2>1, NativeTyped
<1>2. CASE ~(f < Self)
  <2>1. Funcs[f + 1] = FuncType /\ CallBytecode(sp)
    BY <1>2, FuncsOf DEF CallFunction
  <2> QED BY <2>1, BytecodeTyped
<1> QED BY <1>1, <1>2

(* The function follows its imports.                                       *)
LEMMA SelfFunc == Self \in Nat /\ Self = Len(Imports)
BY ValidatorAssumption DEF Self

(* CALL.                                                                   *)
LEMMA CallRuns == Engine /\ HandleCall => RunTyped' /\ Kept
<1> SUFFICES ASSUME Engine, HandleCall PROVE RunTyped' /\ Kept
  OBVIOUS
<1>1. Exec("call") /\ CallFunction(code[ip].func, Len(vs))
  BY DEF HandleCall
<1>2. /\ code[ip].op = "call" /\ Live(ip + 1) /\ Effect(code[ip], seen[ip].stack, seen[ip + 1].stack)
      /\ Activation(vs, lp, Len(vs), seen[ip].stack) /\ Len(vs) \in 0 .. Len(vs)
  BY <1>1, Executes, GoesOn DEF FlowEnders
<1>3. PICK r \in Stacks, pop \in Stacks, push \in Stacks :
        Moves(code[ip], pop, push) /\ seen[ip].stack = r \o pop /\ seen[ip + 1].stack = r \o push
  BY <1>2 DEF Effect
<1>4. PICK f \in 0 .. Self : /\ f = code[ip].func
                             /\ pop = Funcs[f + 1].param /\ push = Funcs[f + 1].result
  BY <1>2, <1>3, SelfFunc DEF Moves
<1> QED BY <1>1, <1>2, <1>3, <1>4, CallFunctionTyped

(* CALL_INDIRECT calls a function of the expected type below the index.    *)
LEMMA CallIndirectRuns == Engine /\ HandleCallIndirect => RunTyped' /\ Kept
<1> SUFFICES ASSUME Engine, HandleCallIndirect PROVE RunTyped' /\ Kept
  OBVIOUS
<1>1. Exec("call_indirect")
  BY DEF HandleCallIndirect
<1>2. /\ code[ip].op = "call_indirect" /\ Live(ip + 1) /\ Effect(code[ip], seen[ip].stack, seen[ip + 1].stack)
      /\ Activation(vs, lp, Len(vs), seen[ip].stack) /\ Len(vs) \in Nat
  BY <1>1, Executes, GoesOn DEF FlowEnders
<1>3. PICK r \in Stacks, pop \in Stacks, push \in Stacks :
        Moves(code[ip], pop, push) /\ seen[ip].stack = r \o pop /\ seen[ip + 1].stack = r \o push
  BY <1>2 DEF Effect
<1>4. pop = Append(code[ip].type.param, "I32") /\ push = code[ip].type.result
  BY <1>2, <1>3 DEF Moves
<1>5. CASE Trap
  BY <1>1, <1>5, TrapTyped
<1>6. CASE \E f \in 0 .. Self : Funcs[f + 1] = code[ip].type /\ CallFunction(f, Len(vs) - 1)
  <2>1. PICK f \in 0 .. Self : Funcs[f + 1] = code[ip].type /\ CallFunction(f, Len(vs) - 1)
    BY <1>6
  <2> DEFINE p == Funcs[f + 1].param
  <2>2. p \in Stacks /\ r \o p \in Stacks
    BY FuncsOf DEF FuncTypeSet, Stacks
  <2>3. seen[ip].stack = Append(r \o p, "I32")
    <3>1. seen[ip].stack = r \o Append(p, "I32")
      BY <1>3, <1>4, <2>1
    <3>2. "I32" \in ValueType
      BY DEF ValueType
    <3> HIDE DEF p
    <3>3. r \o Append(p, "I32") = Append(r \o p, "I32")
      BY <2>2, <3>2 DEF Stacks
    <3> QED BY <3>1, <3>3
  <2>4. Activation(vs, lp, Len(vs) - 1, r \o p)
    <3>1. Activation(vs, lp, Len(vs), Append(r \o p, "I32")) /\ Len(vs) \in Int
      BY <1>2, <2>3
    <3> QED BY <2>2, <3>1, BelowCondition
  <2>5. Len(vs) - 1 \in 0 .. Len(vs)
    <3>1. /\ CellNum(Locals) \in Nat /\ CellNum(r \o p) \in Nat /\ lp \in Nat
          /\ Len(vs) - 1 = lp + CellNum(Locals) + CellNum(r \o p)
      BY <2>2, <2>4, CellNumLen, ValidatorAssumption DEF Activation, Stacks
    <3> QED BY <1>2, <3>1
  <2>6. seen[ip + 1].stack = r \o Funcs[f + 1].result
    BY <1>3, <1>4, <2>1
  <2> QED BY <1>1, <1>2, <2>1, <2>4, <2>5, <2>6, CallFunctionTyped
<1> QED BY <1>5, <1>6 DEF HandleCallIndirect

(* END and RETURN.                                                         *)
LEMMA EndRuns == Engine /\ (HandleEnd \/ HandleReturn) => RunTyped' /\ Kept
<1> SUFFICES ASSUME Engine, HandleEnd \/ HandleReturn PROVE RunTyped' /\ Kept
  OBVIOUS
<1>1. CASE HandleReturn
  BY <1>1, ReturnKeeps, ReturnTypedRun DEF HandleReturn
<1>2. CASE HandleEnd /\ ip = Len(code)
  BY <1>2, ReturnKeeps, ReturnTypedRun DEF HandleEnd
<1>3. CASE HandleEnd /\ ip # Len(code)
  BY <1>3, NoEffect DEF HandleEnd
<1> QED BY <1>1, <1>2, <1>3

(* Every instruction.                                                      *)
LEMMA HandleTyped == Engine /\ Handle => RunTyped' /\ Kept
BY UnreachableRuns, NopRuns, PlainRuns, IfRuns, ElseRuns, EndRuns, BranchesRun, CallRuns,
   CallIndirectRuns, DropRuns, SelectRuns, LocalRuns, GlobalRuns DEF Handle

(* An execution that starts at a cell below which the caller keeps at most *)
(* one operand.                                                            *)
LEMMA BeginsTyped ==
  ASSUME CursorInv, TypingInv, verdict = "accepted", UNCHANGED vars,
         NEW b \in {0, 1}, lp' = b, ip' = 1, NEW c, NEW d,
         frames' = <<[ip |-> 0, sp |-> b, lp |-> c, cur |-> d]>>,
         NEW v \in Seq(CellSet), NEW n \in 0 .. Len(v), n - ParamCells = b,
         Fits(v, b, FuncType.param), vs' = SubSeq(v, 1, n) \o Zeros(LocalCells),
         b = 1 => v[1] = Cell("I32", 0),
         defect' = {} => lapses = {}
  PROVE  RunTyped'
<1> SUFFICES ASSUME defect' = {} PROVE /\ lapses' = {} /\ vs' \in Seq(CellSet)
                                       /\ Live(ip)' /\ Activation(vs, lp, Len(vs), seen[ip].stack)'
                                       /\ FramesTyped'
  BY DEF RunTyped, Running
<1>1. /\ lapses' = {} /\ seen' = seen /\ code' = code /\ Sound /\ code # <<>>
  BY DEF vars, TypingInv, CursorInv, CountInv, EndsInEnd
<1>2. Live(1) /\ seen[1].stack = <<>>
  BY <1>1 DEF Sound, FirstLive
<1>3. PICK w : w = vs'
  OBVIOUS
<1>4. w \in Seq(CellSet) /\ Activation(w, b, Len(w), <<>>) /\ Agree(v, w, n)
  <2>1. Fits(v, n - ParamCells, FuncType.param) /\ n - ParamCells \in Nat
    OBVIOUS
  <2>2. w \in Seq(CellSet) /\ Activation(w, n - ParamCells, Len(w), <<>>) /\ Agree(v, w, n)
    BY <1>3, <2>1, Entered
  <2> QED BY <2>2
<1>5. CallerKept(b)'
  <2>1. ASSUME b = 1 PROVE vs'[1] = Cell("I32", 0)
    <3>1. ParamCells \in Nat
      BY LocalsBegin
    <3>2. 1 \in 1 .. n
      BY <2>1, <3>1
    <3> QED BY <1>3, <1>4, <2>1, <3>2 DEF Agree
  <2> QED BY <2>1 DEF CallerKept
<1>6. FramesTyped'
  <2> DEFINE first == [ip |-> 0, sp |-> b, lp |-> c, cur |-> d]
  <2>1. first.sp = b
    OBVIOUS
  <2> HIDE DEF first
  <2>2. frames' = <<first>>
    BY DEF first
  <2>3. Len(frames') = 1 /\ frames'[1] = first
    BY <2>2
  <2>4. (\A k \in 2 .. 1 : FALSE) /\ \A k \in 1 .. 1 : k = 1
    OBVIOUS
  <2>5. b <= lp'
    OBVIOUS
  <2>6. CallerKept(frames[1].sp)'
    BY <1>5, <2>1, <2>3
  <2>7. \A k \in 1 .. Len(frames') : frames'[k].sp <= lp'
    BY <2>1, <2>3, <2>4, <2>5
  <2>8. \A k \in 2 .. Len(frames') : Waiting(k)'
    BY <2>3, <2>4
  <2> QED BY <2>6, <2>7, <2>8 DEF FramesTyped
<1> QED BY <1>1, <1>2, <1>3, <1>4, <1>6 DEF Live

(* The function runs as the first one.                                     *)
LEMMA MainTyped == CursorInv /\ TypingInv /\ StartMain => RunTyped'
<1> SUFFICES ASSUME CursorInv, TypingInv, StartMain PROVE RunTyped'
  OBVIOUS
<1> DEFINE argsOrZero(i) == IF i <= ParamCells THEN Cells(FuncType.param)[i] ELSE Zero
           st == [i \in 1 .. LocalCells |-> argsOrZero(i)]
<1>1. /\ Begin(<<>>, <<>>, st, 0 - ParamCells)
      /\ defect' = lapses \cup (IF ParamCells > 0 THEN {"main_arguments"} ELSE {})
  BY DEF StartMain
<1>2. ParamCells \in Nat /\ LocalCells \in Nat
  BY LocalsBegin
<1>3. CASE ParamCells > 0
  <2>1. defect' # {}
    BY <1>1, <1>3
  <2> QED BY <2>1 DEF RunTyped, Running
<1>4. CASE ParamCells = 0
  <2>1. st = Zeros(LocalCells)
    BY <1>4 DEF Zeros
  <2>2. Zeros(LocalCells) \in Seq(CellSet)
    BY <1>2 DEF Zeros, Zero, Cell, CellSet
  <2> HIDE DEF st
  <2>3. <<>> \o <<>> \o st = SubSeq(<<>>, 1, 0) \o Zeros(LocalCells)
    BY <2>1, <2>2
  <2>4. /\ verdict = "accepted" /\ UNCHANGED vars /\ ip' = 1 /\ lp' = 0
        /\ frames' = <<[ip |-> 0, sp |-> 0, lp |-> 0, cur |-> 0]>>
    BY <1>1, <1>4 DEF Begin
  <2>5. vs' = SubSeq(<<>>, 1, 0) \o Zeros(LocalCells)
    BY <1>1, <2>3 DEF Begin
  <2>6. <<>> \in Seq(CellSet) /\ 0 \in 0 .. Len(<<>>) /\ 0 - ParamCells = 0
    BY <1>4
  <2>7. Fits(<<>>, 0, FuncType.param)
    BY <1>4 DEF Fits, ParamCells
  <2>8. defect' = {} => lapses = {}
    BY <1>1
  <2>9. PICK v : v = <<>>
    OBVIOUS
  <2>10. /\ v \in Seq(CellSet) /\ 0 \in 0 .. Len(v) /\ Fits(v, 0, FuncType.param)
         /\ vs' = SubSeq(v, 1, 0) \o Zeros(LocalCells)
    BY <2>5, <2>6, <2>7, <2>9
  <2>11. 0 \in {0, 1} /\ (0 = 1 => v[1] = Cell("I32", 0))
    OBVIOUS
  <2> QED BY <2>4, <2>6, <2>8, <2>10, <2>11, BeginsTyped
<1> QED BY <1>2, <1>3, <1>4

(* Or it is called by another one.                                         *)
LEMMA CalledTyped == CursorInv /\ TypingInv /\ StartCalled => RunTyped'
<1> SUFFICES ASSUME CursorInv, TypingInv, StartCalled PROVE RunTyped'
  OBVIOUS
<1> DEFINE below == <<Cell("I32", 0)>>
           args == Cells(FuncType.param)
           v == below \o args
           z == Zeros(LocalCells)
           n == 1 + ParamCells
<1>1. Begin(below, args, z, 1) /\ defect' = lapses
  BY DEF StartCalled
<1>2. ParamCells \in Nat /\ LocalCells \in Nat /\ FuncType.param \in Stacks
  BY LocalsBegin
<1>3. args \in Seq(CellSet) /\ Len(args) = ParamCells
  BY <1>2, CellsType DEF ParamCells
<1>4. below \in Seq(CellSet) /\ Len(below) = 1 /\ below[1] = Cell("I32", 0)
  BY DEF Cell, CellSet, ValueType
<1>5. /\ verdict = "accepted" /\ UNCHANGED vars /\ ip' = 1 /\ lp' = 1
      /\ vs' = v \o z /\ frames' = <<[ip |-> 0, sp |-> 1, lp |-> 0, cur |-> 0]>>
  BY <1>1, <1>4 DEF Begin
<1> HIDE DEF below, args, z
<1>6. v \in Seq(CellSet) /\ Len(v) = n /\ v[1] = Cell("I32", 0)
      /\ \A i \in 1 .. ParamCells : v[1 + i] = args[i]
  <2>1. v \in Seq(CellSet) /\ Len(v) = Len(below) + Len(args)
    BY <1>3, <1>4, Joined
  <2>3. \A i \in 1 .. Len(below) : v[i] = below[i]
    BY <1>3, <1>4, Joined
  <2>4. ASSUME NEW i \in 1 .. Len(args) PROVE v[Len(below) + i] = args[i]
    <3>1. below \in Seq(CellSet) /\ args \in Seq(CellSet)
      BY <1>3, <1>4
    <3>2. \A j \in 1 .. Len(args) : (below \o args)[Len(below) + j] = args[j]
      BY <3>1, Joined
    <3> QED BY <3>2
  <2>2. 1 \in 1 .. Len(below)
    BY <1>4
  <2> HIDE DEF v
  <2> QED BY <1>3, <1>4, <2>1, <2>2, <2>3, <2>4
<1> HIDE DEF v
<1>7. SubSeq(v, 1, n) = v /\ n \in 0 .. Len(v) /\ n - ParamCells = 1
  BY <1>2, <1>6, SubSeqFull
<1>8. Fits(v, 1, FuncType.param)
  BY <1>6 DEF Fits, ParamCells, args
<1>9. vs' = SubSeq(v, 1, n) \o Zeros(LocalCells)
  BY <1>5, <1>7 DEF z
<1> QED BY <1>1, <1>5, <1>6, <1>7, <1>8, <1>9, BeginsTyped

(* Nothing is executed at first.                                           *)
LEMMA IInitTyped == IInit => Engine
<1> SUFFICES ASSUME IInit PROVE Engine
  OBVIOUS
<1>1. Init /\ status = "idle"
  BY DEF IInit
<1> QED BY <1>1, IInitCursor, InitTyped DEF Engine, RunTyped, Running

(* No step loses the types, and none that executes changes what the caller *)
(* keeps.                                                                  *)
LEMMA INextTyped == Engine /\ [INext]_ivars => Engine' /\ (Running({}) => Kept \/ UNCHANGED ivars)
<1> SUFFICES ASSUME Engine, [INext]_ivars
             PROVE  Engine' /\ (Running({}) => Kept \/ UNCHANGED ivars)
  OBVIOUS
<1>1. CursorInv /\ CursorInv' /\ TypingInv /\ RunTyped
  BY INextCursor DEF Engine
<1>2. [Next]_vars
  BY HandleKeeps DEF INext, ivars
<1>3. TypingInv'
  BY <1>1, <1>2, NextTyped DEF CursorInv, IInv
<1>4. CASE Next /\ UNCHANGED evars
  <2>1. status = "idle" /\ status' = status
    BY <1>1, <1>4, NextRuns DEF CursorInv, ExecInv, evars
  <2> QED BY <1>1, <1>3, <2>1 DEF Engine, RunTyped, Running
<1>5. CASE Start
  <2>1. status = "idle"
    BY <1>5 DEF Start, StartMain, StartCalled, Begin
  <2>2. RunTyped'
    BY <1>1, <1>5, MainTyped, CalledTyped DEF Start
  <2> QED BY <1>1, <1>3, <2>1, <2>2 DEF Engine, Running
<1>6. CASE Handle
  BY <1>1, <1>3, <1>6, HandleTyped DEF Engine
<1>7. CASE UNCHANGED ivars
  <2>1. UNCHANGED <<status, defect, lapses, vs, ip, lp, seen, frames, code>>
    BY <1>7 DEF ivars, evars, vars
  <2>2. RunTyped'
    <3>1. Running({})' = Running({}) /\ Live(ip)' = Live(ip) /\ FramesTyped' = FramesTyped
      <4>1. (\A k : Waiting(k)' = Waiting(k)) /\ \A n : CallerKept(n)' = CallerKept(n)
        BY <2>1 DEF Waiting, Live, CallerKept
      <4> QED BY <2>1, <4>1 DEF Running, Live, FramesTyped
    <3> QED BY <1>1, <2>1, <3>1 DEF RunTyped
  <2> QED BY <1>1, <1>3, <1>7, <2>2 DEF Engine
<1> QED BY <1>4, <1>5, <1>6, <1>7 DEF INext

(* Cells that fit are found where they are looked for.                     *)
LEMMA FitsHolds ==
  ASSUME vs \in Seq(CellSet), NEW k \in Nat, NEW s \in Stacks, k + CellNum(s) <= Len(vs), Fits(vs, k, s)
  PROVE  Holds(k, s)
<1>1. DOMAIN Cells(s) = 1 .. CellNum(s) /\ CellNum(s) \in Nat /\ Len(vs) \in Nat /\ DOMAIN vs = 1 .. Len(vs)
  BY CellsType, CellNumLen
<1>2. \A i \in 1 .. CellNum(s) : k + i \in 1 .. Len(vs)
  BY <1>1
<1>3. \A i \in 1 .. CellNum(s) : At(k + i) = vs[k + i]
  BY <1>1, <1>2 DEF At
<1> QED BY <1>1, <1>3 DEF Holds, Fits

(* What is known while the function runs.                                  *)
LEMMA RunFacts ==
  ASSUME Engine, Running({})
  PROVE  /\ vs \in Seq(CellSet) /\ Len(vs) \in Nat /\ lp \in Nat
         /\ Live(ip) /\ ip \in 1 .. Len(code) /\ Sound
         /\ seen[ip].stack \in Stacks /\ CellNum(seen[ip].stack) \in Nat /\ CellNum(Locals) \in Nat
         /\ Len(vs) = lp + CellNum(Locals) + CellNum(seen[ip].stack)
         /\ Fits(vs, lp, Locals) /\ Fits(vs, lp + CellNum(Locals), seen[ip].stack)
<1>1. /\ lapses = {} /\ vs \in Seq(CellSet) /\ Live(ip) /\ Activation(vs, lp, Len(vs), seen[ip].stack)
  BY DEF Engine, RunTyped
<1>2. Sound
  BY <1>1 DEF Engine, TypingInv
<1>3. seen[ip].stack \in Stacks /\ Locals \in Stacks
  BY <1>1, ValidatorAssumption DEF Activation, Stacks
<1>4. CellNum(seen[ip].stack) \in Nat /\ CellNum(Locals) \in Nat
  BY <1>3, CellNumLen
<1>5. DOMAIN code = 1 .. Len(code)
  BY Domains DEF Engine, CursorInv, IInv, TypeInv
<1> QED BY <1>1, <1>2, <1>3, <1>4, <1>5 DEF Activation, Live

(* The operands are those the validator derived.                           *)
LEMMA OperandsFound == Engine => OperandsTyped
<1> SUFFICES ASSUME Engine, Running({}) PROVE OperandsMatch
  BY DEF OperandsTyped
<1> DEFINE base == lp + CellNum(Locals)
<1>1. base \in Nat /\ Len(vs) = base + CellNum(seen[ip].stack)
  BY RunFacts
<1>2. Holds(base, seen[ip].stack)
  <2>1. base + CellNum(seen[ip].stack) <= Len(vs) /\ Fits(vs, base, seen[ip].stack)
    BY <1>1, RunFacts
  <2> HIDE DEF base
  <2> QED BY <1>1, <2>1, RunFacts, FitsHolds
<1> QED BY <1>1, <1>2 DEF OperandsMatch

(* The locals hold values of their types.                                  *)
LEMMA LocalsFound == Engine => LocalsTyped
<1> SUFFICES ASSUME Engine, Running({}), NEW l \in DOMAIN Locals
             PROVE  Holds(lp + LocalOffset(l - 1), <<Locals[l]>>)
  BY DEF LocalsTyped, LocalsMatch
<1>1. PICK k \in 0 .. Len(Locals) - 1 : k = l - 1 /\ l = k + 1
  <2>1. Len(Locals) \in Nat /\ l \in 1 .. Len(Locals)
    BY ValidatorAssumption
  <2> QED BY <2>1
<1> DEFINE o == LocalOffset(k)
           t == <<Locals[k + 1]>>
<1>2. lp \in Nat /\ Fits(vs, lp, Locals) /\ vs \in Seq(CellSet)
      /\ Len(vs) = lp + CellNum(Locals) + CellNum(seen[ip].stack) /\ CellNum(seen[ip].stack) \in Nat
  BY RunFacts
<1>3. /\ o \in Nat /\ o + CellNum(t) <= CellNum(Locals) /\ CellNum(Locals) \in Nat /\ t \in Stacks
      /\ Fits(vs, lp + o, t)
  BY <1>2, LocalCellsOf
<1>4. CellNum(t) \in Nat
  BY <1>3, CellNumLen
<1> HIDE DEF o, t
<1>5. lp + o \in Nat /\ (lp + o) + CellNum(t) <= Len(vs)
  BY <1>2, <1>3, <1>4
<1>6. Holds(lp + o, t)
  BY <1>2, <1>3, <1>5, FitsHolds
<1> QED BY <1>1, <1>6 DEF o, t

(* What is executed is live.                                               *)
LEMMA DeadSkipped == Engine => DeadCodeUnreached
BY RunFacts DEF DeadCodeUnreached, Live

(* The operands take no more cells than the validator counted.             *)
LEMMA OperandsBounded == Engine => StackBounded
<1> SUFFICES ASSUME Engine, Running({}) PROVE Len(vs) - lp - CellNum(Locals) <= maxCells
  BY DEF StackBounded
<1>1. CellNum(seen[ip].stack) <= maxCells
  BY RunFacts DEF Sound, CellsBounded
<1>2. Len(vs) - lp - CellNum(Locals) = CellNum(seen[ip].stack)
  BY RunFacts
<1> QED BY <1>1, <1>2

-----------------------------------------------------------------------------
(* An instruction that goes on or traps does not return.                   *)
LEMMA NotReturned ==
  ASSUME status = "running", NEW st, NEW i, NEW c, Goto(st, i, c) \/ Trap
  PROVE  status' # "returned"
BY DEF Goto, Trap

(* Only the END of the body and RETURN end the execution.                  *)
LEMMA Returning ==
  ASSUME Engine, Handle, status' = "returned"
  PROVE  \E op \in {"return", "end"} :
           Exec(op) /\ (op = "return" \/ ip = Len(code)) /\ ReturnFunc /\ Len(frames) = 1
<1>1. \A op : Exec(op) => status = "running"
  BY DEF Exec
<1>2. ASSUME NEW op \in {"return", "end"}, Exec(op), ReturnFunc PROVE Len(frames) = 1
  BY <1>1, <1>2 DEF ReturnFunc
<1>3. CASE HandleReturn
  BY <1>2, <1>3 DEF HandleReturn
<1>4. CASE HandleEnd
  <2>1. ip = Len(code)
    BY <1>1, <1>4, NotReturned DEF HandleEnd, Proceed
  <2> QED BY <1>2, <1>4, <2>1 DEF HandleEnd
<1>5. ASSUME HandleUnreachable \/ HandleNop \/ HandlePlain \/ HandleIf \/ HandleElse PROVE FALSE
  BY <1>1, <1>5, NotReturned DEF HandleUnreachable, HandleNop, HandlePlain, HandleIf, HandleElse, Proceed, Pass
<1>6. ASSUME HandleBr \/ HandleBrIf \/ HandleBrTable PROVE FALSE
  BY <1>1, <1>6, NotReturned DEF HandleBr, HandleBrIf, HandleBrTable, Transfer, Pass
<1>7. ASSUME HandleDrop \/ HandleSelect \/ HandleGetLocal \/ HandleSetLocal \/ HandleTeeLocal
             \/ HandleGetGlobal \/ HandleSetGlobal PROVE FALSE
  BY <1>1, <1>7, NotReturned DEF HandleDrop, HandleSelect, HandleGetLocal, HandleSetLocal,
     HandleTeeLocal, HandleGetGlobal, HandleSetGlobal, Proceed
<1>8. ASSUME HandleCall \/ HandleCallIndirect PROVE FALSE
  <2>1. status = "running"
    BY <1>1, <1>8 DEF HandleCall, HandleCallIndirect
  <2>2. Trap \/ \E f, sp : CallFunction(f, sp)
    BY <1>8 DEF HandleCall, HandleCallIndirect
  <2>3. ASSUME NEW f, NEW sp, CallFunction(f, sp) PROVE status' = status \/ Trap
    BY <2>3 DEF CallFunction, CallNative, CallBytecode, Proceed, Goto
  <2> QED BY <2>1, <2>2, <2>3 DEF Trap
<1> QED BY <1>3, <1>4, <1>5, <1>6, <1>7, <1>8 DEF Handle

(* The last return leaves the operands of the caller and the results.      *)
LEMMA ReturnDelivers ==
  ASSUME Engine, NEW op \in {"return", "end"}, Exec(op), op = "return" \/ ip = Len(code),
         ReturnFunc, Len(frames) = 1
  PROVE  ResultsDelivered'
<1> DEFINE n == frames[1].sp
           t == FuncType.result
           u == SubSeq(vs, 1, n)
           below == [i \in 1 .. n |-> "I32"]
<1>1. /\ vs \in Seq(CellSet) /\ Len(vs) \in Nat /\ CallerKept(n) /\ n <= lp
      /\ n \in 0 .. Len(vs) /\ t \in Stacks /\ RetCells \in Nat
  BY Executes, ReturnLeaves DEF FramesTyped
<1>2. PICK c \in Seq(CellSet) : Len(c) = RetCells /\ Fits(c, 0, t) /\ vs' = u \o c
  BY ReturnLeaves
<1>3. u \in Seq(CellSet) /\ Len(u) = n /\ \A i \in 1 .. n : u[i] = vs[i]
  BY <1>1, PrefixType, PrefixOf
<1>4. PICK w : w = vs'
  OBVIOUS
<1> HIDE DEF u, n
<1>5. w \in Seq(CellSet) /\ Len(w) = n + RetCells /\ DOMAIN w = 1 .. n + RetCells
  <2>1. u \o c \in Seq(CellSet) /\ Len(u \o c) = Len(u) + Len(c)
    BY <1>3, Joined
  <2> QED BY <1>2, <1>3, <1>4, <2>1
<1>6. \A i \in 1 .. n : w[i] = vs[i]
  <2>1. \A i \in 1 .. Len(u) : (u \o c)[i] = u[i]
    BY <1>3, Joined
  <2> QED BY <1>2, <1>3, <1>4, <2>1
<1>7. \A i \in 1 .. RetCells : w[n + i] = c[i]
  <2>1. \A i \in 1 .. Len(c) : (u \o c)[Len(u) + i] = c[i]
    BY <1>3, Joined
  <2> QED BY <1>2, <1>3, <1>4, <2>1
<1>8. frames' = <<>>
  <2>1. \E S : frames \in Seq(S)
    BY Executing DEF Engine, FramesSequence
  <2>2. frames' = SubSeq(frames, 1, 0)
    BY DEF ReturnFunc
  <2> QED BY <2>1, <2>2
<1>9. Len(w) - RetCells = n /\ n \in {0, 1}
  BY <1>1, <1>5 DEF CallerKept
<1>10. ASSUME NEW k, NEW s \in Stacks, \A i \in 1 .. CellNum(s) : k + i \in 1 .. n + RetCells /\ w[k + i] \in {Cells(s)[i], Zero}
       PROVE  \A i \in DOMAIN Cells(s) : (IF k + i \in DOMAIN w THEN w[k + i] ELSE Junk) \in {Cells(s)[i], Zero}
  BY <1>5, <1>10, CellsType
<1>11. \A i \in DOMAIN Cells(t) : (IF n + i \in DOMAIN w THEN w[n + i] ELSE Junk) \in {Cells(t)[i], Zero}
  <2>1. ASSUME NEW i \in 1 .. CellNum(t) PROVE n + i \in 1 .. n + RetCells /\ w[n + i] \in {Cells(t)[i], Zero}
    <3>1. i \in 1 .. RetCells /\ 0 + i = i
      BY <1>1 DEF RetCells
    <3>2. n + i \in 1 .. n + RetCells
      BY <1>1, <3>1
    <3> QED BY <1>2, <1>7, <3>1, <3>2 DEF Fits
  <2> QED BY <1>1, <1>10, <2>1
<1>12. \A i \in DOMAIN Cells(below) : (IF 0 + i \in DOMAIN w THEN w[0 + i] ELSE Junk) \in {Cells(below)[i], Zero}
  <2>1. CASE n = 0
    <3>1. below = <<>>
      BY <2>1
    <3>2. Cells(below) = <<>>
      BY <3>1, CellsNone
    <3> QED BY <3>2
  <2>2. CASE n = 1
    <3>1. below = <<"I32">> /\ "I32" \in ValueType /\ "I32" \notin Wide
      BY <2>2 DEF ValueType, Wide
    <3>2. /\ below \in Stacks /\ CellNum(below) = 1 /\ Cells(below) = <<Cell("I32", 0)>>
      BY <3>1, OneValue DEF CellsOf
    <3>3. w[1] \in {Cell("I32", 0), Zero}
      BY <1>1, <1>6, <2>2 DEF CallerKept
    <3>4. ASSUME NEW i \in 1 .. CellNum(below)
          PROVE  0 + i \in 1 .. n + RetCells /\ w[0 + i] \in {Cells(below)[i], Zero}
      <4>1. i = 1 /\ 0 + i = 1 /\ 1 \in 1 .. n + RetCells
        BY <1>1, <2>2, <3>2
      <4> QED BY <3>2, <3>3, <4>1
    <3> QED BY <1>10, <3>2, <3>4
  <2> QED BY <1>9, <2>1, <2>2
<1>13. PICK m : m = n
  OBVIOUS
<1>14. Holds(m, FuncType.result)'
  BY <1>4, <1>11, <1>13 DEF Holds, At
<1>15. Holds(0, [i \in 1 .. m |-> "I32"])'
  BY <1>4, <1>12, <1>13 DEF Holds, At
<1>16. Len(vs') - RetCells = m
  BY <1>4, <1>9, <1>13
<1> QED BY <1>8, <1>9, <1>13, <1>14, <1>15, <1>16 DEF ResultsDelivered

(* They remain there.                                                      *)
LEMMA INextResults == Engine /\ ResultsDelivered /\ [INext]_ivars => ResultsDelivered'
<1> SUFFICES ASSUME Engine, ResultsDelivered, [INext]_ivars, status' = "returned" PROVE ResultsDelivered'
  BY DEF ResultsDelivered
<1>1. CASE Handle
  BY <1>1, Returning, ReturnDelivers
<1>2. CASE Start
  BY <1>2 DEF Start, StartMain, StartCalled, Begin
<1>3. CASE UNCHANGED evars
  BY <1>3 DEF evars, ResultsDelivered, Holds, At
<1> QED BY <1>1, <1>2, <1>3 DEF INext, ivars

(* At every instruction the cells above the locals are as many and of the  *)
(* types as the validator derived for it, whichever way control got there: *)
(* untyped execution of a body the validator accepted never misreads a     *)
(* cell.                                                                   *)
THEOREM OperandsAsTyped == ISpec => []OperandsTyped
BY OperandsFound, IInitTyped, INextTyped, PTL DEF ISpec

(* Every local holds a value of its type, or zero, at the offset that the  *)
(* loader gave it, in every activation: nothing that is moved on the stack *)
(* above it, by a branch, a call or a return, reaches down to it.          *)
THEOREM LocalsAsTyped == ISpec => []LocalsTyped
BY LocalsFound, IInitTyped, INextTyped, PTL DEF ISpec

(* Code that the validator read in polymorphic mode is never executed.     *)
THEOREM DeadCodeSkipped == ISpec => []DeadCodeUnreached
BY DeadSkipped, IInitTyped, INextTyped, PTL DEF ISpec

(* The operands of a frame never take more cells than max_stack_cell_num,  *)
(* from which the frame is allocated.                                      *)
THEOREM OperandsWithinBound == ISpec => []StackBounded
BY OperandsBounded, IInitTyped, INextTyped, PTL DEF ISpec

(* An execution that has returned leaves the operand of its caller, its    *)
(* results and no frame.                                                   *)
THEOREM ResultsLeft == ISpec => []ResultsDelivered
<1>1. IInit => ResultsDelivered
  BY DEF IInit, ResultsDelivered
<1> QED BY <1>1, IInitTyped, INextTyped, INextResults, PTL DEF ISpec

(* No step of a call, nor of the calls it makes, changes the operands that *)
(* its caller keeps below the arguments.                                   *)
THEOREM CallerKeepsOperands == ISpec => CallerUntouched
<1>1. Engine /\ [INext]_ivars =>
        [Running({}) /\ frames # <<>> =>
           \A k \in 1 .. frames[Len(frames)].sp : k \in DOMAIN vs' /\ vs'[k] = vs[k]]_ivars
  <2> SUFFICES ASSUME Engine, [INext]_ivars, Running({}), frames # <<>>, ~(UNCHANGED ivars),
                      NEW k \in 1 .. frames[Len(frames)].sp
               PROVE  k \in DOMAIN vs' /\ vs'[k] = vs[k]
    OBVIOUS
  <2>1. CASE Kept
    BY <2>1 DEF Kept
  <2> QED BY <2>1, INextTyped
<1> QED BY <1>1, IInitTyped, INextTyped, PTL DEF ISpec, CallerUntouched

-----------------------------------------------------------------------------
(* Positions in the branch table, those of an ELSE included, whose cursor  *)
(* is not the one that the code after it needs.                            *)
WithinTable(b, n) == b.elseIdx <= n /\ b.endIdx <= n

Indices ==
  /\ \A d \in 1 .. Depth : WithinTable(blocks[d], Len(table))
  /\ \A k \in 1 .. Len(table) : table[k].resolved => table[k].idx <= Len(table)

(* The table never gets shorter, except when the context is freed.         *)
LEMMA SameIndices ==
  ASSUME Indices, UNCHANGED <<blocks, table>>
  PROVE  Indices'
BY DEF Indices, Depth, WithinTable

LEMMA RejectIndices == ASSUME Reject PROVE Indices'
BY DEF Reject, Indices, Depth

LEMMA AppendIndices ==
  ASSUME TypeOK, Indices, NEW e, ~e.resolved, table' = Append(table, e)
  PROVE  /\ Len(table') = Len(table) + 1 /\ Len(table) \in Nat
         /\ \A k \in 1 .. Len(table') : table'[k].resolved => table'[k].idx <= Len(table')
<1>1. table \in Seq(EntrySet) /\ Len(table) \in Nat /\ \A k \in 1 .. Len(table) : table[k] \in EntrySet
  BY Domains DEF TypeOK
<1>2. /\ Len(table') = Len(table) + 1 /\ table'[Len(table) + 1] = e
      /\ \A k \in 1 .. Len(table) : table'[k] = table[k]
  BY <1>1
<1>3. ASSUME NEW k \in 1 .. Len(table'), table'[k].resolved PROVE table'[k].idx <= Len(table')
  <2>1. k # Len(table) + 1
    BY <1>2, <1>3
  <2>2. k \in 1 .. Len(table)
    BY <1>1, <1>2, <2>1
  <2>3. table[k].resolved /\ table[k].idx \in Nat
    BY <1>1, <1>2, <1>3, <2>2 DEF EntrySet
  <2>4. table[k].idx <= Len(table)
    BY <2>2, <2>3 DEF Indices
  <2> QED BY <1>1, <1>2, <2>2, <2>3, <2>4
<1> QED BY <1>1, <1>2, <1>3

LEMMA EmitIndices ==
  ASSUME TypeOK, Indices, NEW op, NEW depth, NEW st, Emit(op, depth, st)
  PROVE  Indices'
<1> DEFINE k == Depth - depth
           e == Entry(op, CellNum(st) - blocks[k].cells, CellNum(blocks[k].type.result))
<1>1. table' = Append(table, e) /\ blocks' = [blocks EXCEPT ![k].queue = @ \cup {Len(table) + 1}]
  BY DEF Emit
<1>2. ~e.resolved
  BY DEF Entry
<1> HIDE DEF e, k
<1>3. /\ Len(table') = Len(table) + 1 /\ Len(table) \in Nat
      /\ \A j \in 1 .. Len(table') : table'[j].resolved => table'[j].idx <= Len(table')
  BY <1>1, <1>2, AppendIndices
<1>4. /\ Depth \in Nat /\ DOMAIN blocks = 1 .. Depth /\ blocks \in Seq(BlockSet)
      /\ \A d \in 1 .. Depth : blocks[d] \in BlockSet
  BY Domains DEF TypeOK
<1>5. Len(blocks') = Depth
  BY <1>1, <1>4 DEF Depth
<1>6. ASSUME NEW d \in 1 .. Depth PROVE WithinTable(blocks'[d], Len(table'))
  <2>1. blocks[d] \in BlockSet /\ WithinTable(blocks[d], Len(table))
    BY <1>4 DEF Indices
  <2>2. blocks'[d].elseIdx = blocks[d].elseIdx /\ blocks'[d].endIdx = blocks[d].endIdx
    BY <1>1, <1>4, <2>1 DEF BlockSet
  <2>3. blocks[d].elseIdx \in Nat /\ blocks[d].endIdx \in Nat
    BY <2>1 DEF BlockSet
  <2> QED BY <1>3, <2>1, <2>2, <2>3 DEF WithinTable
<1> QED BY <1>3, <1>5, <1>6 DEF Indices, Depth

LEMMA OperateIndices ==
  ASSUME Indices, NEW instr, NEW pop, NEW push, Operate(instr, pop, push) \/ Reject
  PROVE  Indices'
BY RejectIndices, SameIndices DEF Operate

LEMMA OpenBlockIndices ==
  ASSUME TypeOK, Indices, NEW label, NEW type, OpenBlock(label, type)
  PROVE  Indices'
<1> DEFINE pop   == IF label = "if" THEN Append(type.param, "I32") ELSE type.param
           below == AfterPop(stack, pop)
           block == NewBlock(label, type, below, Len(code) + 2)
           new   == IF label = "if" THEN [block EXCEPT !.queue = {Len(table) + 1}] ELSE block
<1>1. CASE PopOk(stack, pop)
  <2>1. /\ blocks' = Append(blocks, new)
        /\ table' = IF label = "if" THEN Append(table, Entry("if", 0, 0)) ELSE table
    BY <1>1 DEF OpenBlock
  <2>2. new.elseIdx = 0 /\ new.endIdx = Len(table)
    BY DEF NewBlock
  <2> HIDE DEF new
  <2>3. Len(table) \in Nat
    BY Domains
  <2>4. /\ Len(table') \in Nat /\ Len(table) <= Len(table')
        /\ \A k \in 1 .. Len(table') : table'[k].resolved => table'[k].idx <= Len(table')
    <3>1. CASE label = "if"
      <4>1. ~Entry("if", 0, 0).resolved
        BY DEF Entry
      <4>2. /\ Len(table') = Len(table) + 1
            /\ \A k \in 1 .. Len(table') : table'[k].resolved => table'[k].idx <= Len(table')
        BY <2>1, <3>1, <4>1, AppendIndices
      <4> QED BY <2>3, <4>2
    <3>2. CASE label # "if"
      <4>1. table' = table
        BY <2>1, <3>2
      <4> QED BY <2>3, <4>1 DEF Indices
    <3> QED BY <3>1, <3>2
  <2>5. /\ Depth \in Nat /\ blocks \in Seq(BlockSet)
        /\ \A d \in 1 .. Depth : blocks[d] \in BlockSet
    BY Domains DEF TypeOK
  <2>6. /\ Len(blocks') = Depth + 1 /\ blocks'[Depth + 1] = new
        /\ \A d \in 1 .. Depth : blocks'[d] = blocks[d]
    BY <2>1, <2>5 DEF Depth
  <2>7. ASSUME NEW d \in 1 .. Depth + 1 PROVE WithinTable(blocks'[d], Len(table'))
    <3>1. CASE d = Depth + 1
      BY <2>2, <2>3, <2>4, <2>6, <3>1 DEF WithinTable
    <3>2. CASE d # Depth + 1
      <4>1. d \in 1 .. Depth
        BY <2>5, <3>2
      <4>2. blocks[d] \in BlockSet /\ WithinTable(blocks[d], Len(table)) /\ blocks'[d] = blocks[d]
        BY <2>5, <2>6, <4>1 DEF Indices
      <4>3. blocks[d].elseIdx \in Nat /\ blocks[d].endIdx \in Nat
        BY <4>2 DEF BlockSet
      <4> QED BY <2>3, <2>4, <4>2, <4>3 DEF WithinTable
    <3> QED BY <3>1, <3>2
  <2> QED BY <2>4, <2>6, <2>7 DEF Indices, Depth
<1>2. CASE ~PopOk(stack, pop)
  BY <1>2, RejectIndices DEF OpenBlock
<1> QED BY <1>1, <1>2

LEMMA ElseIndices ==
  ASSUME TypeOK, Indices, Else
  PROVE  Indices'
<1> DEFINE checked == Depth >= 2 /\ Top.label = "if" /\ CheckBlock
<1>1. CASE checked
  <2>1. /\ table' = Append(table, Entry("else", 0, 0))
        /\ blocks' = [blocks EXCEPT ![Depth].elseIp  = Len(code) + 2,
                                    ![Depth].elseIdx = Len(table),
                                    ![Depth].queue   = @ \cup {Len(table) + 1}]
    BY <1>1 DEF Else
  <2>2. ~Entry("else", 0, 0).resolved
    BY DEF Entry
  <2>3. /\ Len(table') = Len(table) + 1 /\ Len(table) \in Nat
        /\ \A k \in 1 .. Len(table') : table'[k].resolved => table'[k].idx <= Len(table')
    BY <2>1, <2>2, AppendIndices
  <2>4. /\ Depth \in Nat /\ DOMAIN blocks = 1 .. Depth /\ blocks \in Seq(BlockSet)
        /\ \A d \in 1 .. Depth : blocks[d] \in BlockSet
    BY Domains DEF TypeOK
  <2>5. Len(blocks') = Depth
    BY <2>1, <2>4 DEF Depth
  <2>6. ASSUME NEW d \in 1 .. Depth PROVE WithinTable(blocks'[d], Len(table'))
    <3>1. blocks[d] \in BlockSet /\ WithinTable(blocks[d], Len(table))
      BY <2>4 DEF Indices
    <3>2. /\ blocks'[d].elseIdx \in {blocks[d].elseIdx, Len(table)}
          /\ blocks'[d].endIdx = blocks[d].endIdx
      BY <2>1, <2>4, <3>1 DEF BlockSet
    <3>3. blocks[d].elseIdx \in Nat /\ blocks[d].endIdx \in Nat
      BY <3>1 DEF BlockSet
    <3> QED BY <2>3, <3>1, <3>2, <3>3 DEF WithinTable
  <2> QED BY <2>3, <2>5, <2>6 DEF Indices, Depth
<1>2. CASE ~checked
  BY <1>2, RejectIndices DEF Else
<1> QED BY <1>1, <1>2

(* END writes into its entries what its block knows.                       *)
LEMMA EndIndices ==
  ASSUME TypeOK, BlocksNested, Indices, End
  PROVE  Indices'
<1> DEFINE end == Len(code) + 1
           b == IF NoElse THEN [Top EXCEPT !.elseIp = end, !.elseIdx = Len(table)] ELSE Top
           checked == CheckBlock /\ (NoElse => Top.type.param = Top.type.result)
<1>1. CASE checked
  <2>1. /\ table' = [k \in DOMAIN table |->
                       IF k \in b.queue THEN Resolve(table[k], b, end) ELSE table[k]]
        /\ blocks' = SubSeq(blocks, 1, Depth - 1) /\ blocks # <<>>
    BY <1>1 DEF End, Reading
  <2>2. /\ Depth \in Nat \ {0} /\ blocks \in Seq(BlockSet) /\ Top \in BlockSet
        /\ Len(table) \in Nat /\ DOMAIN table = 1 .. Len(table) /\ table \in Seq(EntrySet)
        /\ \A d \in 1 .. Depth : blocks[d] \in BlockSet
        /\ \A k \in 1 .. Len(table) : table[k] \in EntrySet
    BY <2>1, Domains DEF TypeOK, Depth, Top
  <2>3. WithinTable(Top, Len(table))
    BY <2>2 DEF Indices, Top
  <2>4. WithinTable(b, Len(table)) /\ b.elseIdx \in Nat /\ b.endIdx \in Nat
    <3>1. Top.elseIdx \in Nat /\ Top.endIdx \in Nat
      BY <2>2 DEF BlockSet
    <3>2. b.elseIdx \in {Top.elseIdx, Len(table)} /\ b.endIdx = Top.endIdx
      BY <2>2 DEF BlockSet
    <3> QED BY <2>2, <2>3, <3>1, <3>2 DEF WithinTable
  <2> HIDE DEF b, end
  <2>5. ASSUME NEW e \in EntrySet
        PROVE  Resolve(e, b, end).idx \in {b.elseIdx, b.endIdx, Len(table)}
    <3> DEFINE target == IF e.op = "if"       THEN [ip |-> b.elseIp, idx |-> b.elseIdx]
                         ELSE IF b.label = "loop" THEN [ip |-> b.start,  idx |-> b.endIdx]
                         ELSE [ip |-> end, idx |-> Len(table)]
    <3>1. Resolve(e, b, end) = [e EXCEPT !.resolved = TRUE, !.ip = target.ip, !.idx = target.idx]
      BY DEF Resolve
    <3>2. target.idx \in {b.elseIdx, b.endIdx, Len(table)}
      OBVIOUS
    <3> HIDE DEF target
    <3> QED BY <3>1, <3>2 DEF EntrySet
  <2>6. Len(table') = Len(table)
    <3>1. DOMAIN table' = 1 .. Len(table)
      BY <2>1, <2>2
    <3> QED BY <2>1, <2>2, <3>1
  <2>7. ASSUME NEW k \in 1 .. Len(table), table'[k].resolved PROVE table'[k].idx <= Len(table)
    <3>1. table'[k] = IF k \in b.queue THEN Resolve(table[k], b, end) ELSE table[k]
      BY <2>1, <2>2
    <3>2. CASE k \in b.queue
      <4>1. table'[k].idx \in {b.elseIdx, b.endIdx, Len(table)}
        BY <2>2, <2>5, <3>1, <3>2
      <4> QED BY <2>2, <2>4, <4>1 DEF WithinTable
    <3>3. CASE k \notin b.queue
      BY <2>2, <2>7, <3>1, <3>3 DEF Indices
    <3> QED BY <3>2, <3>3
  <2>8. Len(blocks') = Depth - 1 /\ \A d \in 1 .. Depth - 1 : blocks'[d] = blocks[d]
    <3>1. Depth - 1 \in 0 .. Len(blocks) /\ blocks \in Seq(BlockSet)
      BY <2>2 DEF Depth
    <3> QED BY <2>1, <3>1, PrefixType, PrefixOf
  <2>9. ASSUME NEW d \in 1 .. Depth - 1 PROVE WithinTable(blocks'[d], Len(table))
    <3>1. d \in 1 .. Depth
      BY <2>2
    <3> QED BY <2>8, <3>1 DEF Indices
  <2> QED BY <2>6, <2>7, <2>8, <2>9 DEF Indices, Depth
<1>2. CASE ~checked
  BY <1>2, RejectIndices DEF End
<1> QED BY <1>1, <1>2

LEMMA OperandsIndices ==
  ASSUME Indices, Operands \/ Nop \/ (\E f : Call(f)) \/ (\E t : CallIndirect(t))
  PROVE  Indices'
<1>1. CASE Nop
  BY <1>1, OperateIndices DEF Nop
<1>2. ASSUME NEW f, Call(f) PROVE Indices'
  BY <1>2, OperateIndices DEF Call
<1>3. ASSUME NEW t, CallIndirect(t) PROVE Indices'
  BY <1>3, OperateIndices DEF CallIndirect
<1>4. CASE Drop \/ Select
  BY <1>4, OperateIndices DEF Drop, Select
<1>5. ASSUME NEW l, GetLocal(l) \/ SetLocal(l) \/ TeeLocal(l) PROVE Indices'
  BY <1>5, OperateIndices DEF GetLocal, SetLocal, TeeLocal
<1>6. ASSUME NEW g, GetGlobal(g) \/ SetGlobal(g) PROVE Indices'
  BY <1>6, OperateIndices DEF GetGlobal, SetGlobal
<1>7. ASSUME NEW sig, PlainOp(sig) PROVE Indices'
  BY <1>7, OperateIndices DEF PlainOp
<1> QED BY <1>1, <1>2, <1>3, <1>4, <1>5, <1>6, <1>7 DEF Operands

LEMMA InitIndices == Init => Indices
<1> SUFFICES ASSUME Init PROVE Indices
  OBVIOUS
<1> DEFINE b == [label |-> "function", type |-> FuncType, base |-> 0, cells |-> 0,
                 start |-> 1, elseIp |-> 0, elseIdx |-> 0, endIdx |-> 0, queue |-> {}]
<1>1. blocks = <<b>> /\ table = <<>> /\ b.elseIdx = 0 /\ b.endIdx = 0
  BY DEF Init
<1> HIDE DEF b
<1>2. Len(blocks) = 1 /\ blocks[1] = b /\ Len(table) = 0
  BY <1>1
<1> QED BY <1>1, <1>2 DEF Indices, Depth, WithinTable

LEMMA NextIndices == TypeInv /\ Indices /\ [Next]_vars => Indices'
<1> SUFFICES ASSUME TypeInv, Indices, [Next]_vars PROVE Indices'
  OBVIOUS
<1>1. TypeOK /\ BlocksNested
  BY DEF TypeInv
<1>2. CASE Control
  <2>1. CASE Unreachable \/ Return
    BY <2>1, RejectIndices, SameIndices DEF Unreachable, Return
  <2>2. CASE Else
    BY <1>1, <2>2, ElseIndices
  <2>3. CASE End
    BY <1>1, <2>3, EndIndices
  <2>4. CASE \E label \in {"block", "loop", "if"}, type \in BlockTypes : OpenBlock(label, type)
    BY <1>1, <2>4, OpenBlockIndices
  <2>5. CASE \E depth \in 0 .. MaxBlocks : Br(depth) \/ BrIf(depth)
    BY <1>1, <2>5, EmitIndices, RejectIndices DEF Br, BrIf
  <2>6. CASE \E targets \in JumpTables : BrTable(targets)
    BY <2>6, RejectIndices, SameIndices DEF BrTable
  <2>7. CASE BrTableLabel
    BY <1>1, <2>7, EmitIndices, RejectIndices DEF BrTableLabel
  <2>8. CASE Nop \/ (\E f : Call(f)) \/ (\E t : CallIndirect(t))
    BY <2>8, OperandsIndices
  <2> QED BY <1>2, <2>1, <2>2, <2>3, <2>4, <2>5, <2>6, <2>7, <2>8 DEF Control
<1>3. CASE Operands
  BY <1>3, OperandsIndices
<1>4. CASE Malformed
  BY <1>4, RejectIndices DEF Malformed
<1>5. CASE UNCHANGED vars
  BY <1>5, SameIndices DEF vars
<1> QED BY <1>2, <1>3, <1>4, <1>5 DEF Next

-----------------------------------------------------------------------------
(* Before the first step of an execution there is nothing, and its first   *)
(* frame belongs to the caller: no instruction and no locals.              *)
Idle == status = "idle" => ip = 0 /\ cur = 0 /\ vs = <<>> /\ lp = 0 /\ frames = <<>> /\ defect = {}

FirstFrame == frames # <<>> => frames[1].lp = 0

Pointers == Engine /\ Indices /\ ITypeOK /\ Idle /\ FirstFrame

(* An instruction that can be executed and its place in the table are      *)
(* within the body and the table.                                          *)
LEMMA CourseWithin ==
  ASSUME IInv, CountInv, verdict = "accepted", NEW i, NEW c, OnCourse(i, c)
  PROVE  i \in 1 .. Len(code) /\ c \in 0 .. Len(table)
<1>1. /\ DOMAIN code = 1 .. Len(code) /\ Len(code) \in Nat /\ Len(table) \in Nat /\ Len(labels) = 0
  BY Domains DEF IInv, TypeInv, CountInv, EndsInEnd
<1>2. i \in 1 .. Len(code) /\ c = seen[i].emitted /\ c \in Nat
  BY <1>1, SeenType DEF OnCourse, IInv, TypeInv
<1>3. EntriesBy(i) + Pending(i) = c + Entries(code[i]) /\ EntriesBy(i) <= Len(table)
  BY <1>2 DEF CountInv, EntriesCounted, EntriesMarked
<1>4. EntriesBy(i) \in Nat /\ Pending(i) = 0
  <2>1. CASE i = Len(code)
    BY <1>1, <2>1 DEF EntriesBy, Pending
  <2>2. CASE i # Len(code)
    <3>1. i + 1 \in 1 .. Len(code)
      BY <1>1, <1>2, <2>2, Successor
    <3> QED BY <2>2, <3>1, SeenType DEF EntriesBy, Pending, IInv, TypeInv
  <2> QED BY <2>1, <2>2
<1>5. Entries(code[i]) \in Nat
  <2>1. CASE code[i].op = "br_table"
    <3>1. code[i] \in InstrSet
      BY <1>1, <1>2 DEF IInv, TypeInv, TypeOK
    <3>2. code[i].count \in Nat
      BY <2>1, <3>1 DEF InstrSet
    <3> QED BY <2>1, <3>2 DEF Entries
  <2>2. CASE code[i].op # "br_table"
    BY <2>2 DEF Entries
  <2> QED BY <2>1, <2>2
<1>6. c <= Len(table)
  BY <1>1, <1>2, <1>3, <1>4, <1>5
<1> QED BY <1>1, <1>2, <1>6

(* So is wherever an entry of the table leads, behind an ELSE as well.     *)
LEMMA EntryWithin ==
  ASSUME Engine, Indices, NEW op, Exec(op), NEW k \in 1 .. Entries(code[ip])
  PROVE  table[cur + k].ip \in 1 .. Len(code) /\ table[cur + k].idx \in 0 .. Len(table)
<1> DEFINE e == table[cur + k]
<1>1. IInv /\ CountInv /\ verdict = "accepted" /\ OnCourse(ip, cur)
  BY Executing DEF Engine, CursorInv
<1>2. cur + k \in DOMAIN table /\ e.resolved /\ (OnCourse(e.ip, e.idx) \/ IntoElse(e))
  BY <1>1, EntryLands
<1>3. CASE OnCourse(e.ip, e.idx)
  BY <1>1, <1>3, CourseWithin
<1>4. CASE IntoElse(e) /\ ~OnCourse(e.ip, e.idx)
  <2>1. /\ DOMAIN code = 1 .. Len(code) /\ Len(code) \in Nat /\ DOMAIN table = 1 .. Len(table)
        /\ Len(table) \in Nat /\ code[Len(code)].op = "end" /\ e \in EntrySet
    BY <1>1, <1>2, Domains DEF IInv, TypeInv, CountInv, EndsInEnd
  <2>2. AfterElse(e.ip)
    BY <1>1, <1>2, <1>4 DEF IInv, BranchInv, ResolvedTargets, InSync, OnCourse
  <2>3. e.ip \in Nat /\ e.idx \in Nat
    BY <2>1 DEF EntrySet
  <2>4. e.ip - 1 \in 1 .. Len(code) /\ e.ip - 1 # Len(code)
    BY <2>1, <2>2 DEF AfterElse
  <2>5. e.ip \in 1 .. Len(code)
    BY <2>1, <2>3, <2>4
  <2>6. e.idx <= Len(table)
    BY <1>2, <2>1 DEF Indices
  <2> QED BY <2>1, <2>3, <2>5, <2>6
<1> QED BY <1>2, <1>3, <1>4

-----------------------------------------------------------------------------
(* The pointers saved in the frames do not pass those of the last one.     *)
LEMMA FramesOrdered ==
  ASSUME FramesTyped, FirstFrame, Len(frames) \in Nat \ {0}
  PROVE  \A k \in 1 .. Len(frames) :
           /\ frames[k].sp \in 0 .. frames[Len(frames)].sp
           /\ frames[k].lp \in 0 .. frames[Len(frames)].sp
<1> DEFINE f == Len(frames)
<1>1. /\ \A k \in 1 .. f : frames[k].sp \in Nat
      /\ \A k \in 2 .. f : frames[k].lp \in Nat /\ frames[k].lp <= frames[k].sp
  BY FramePointers
<1>2. frames[1].lp = 0
  BY DEF FirstFrame
<1> SUFFICES ASSUME NEW k \in 1 .. f
             PROVE  frames[k].sp \in 0 .. frames[f].sp /\ frames[k].lp \in 0 .. frames[f].sp
  OBVIOUS
<1>3. f \in 1 .. f
  OBVIOUS
<1>4. frames[k].lp \in Nat /\ frames[k].lp <= frames[k].sp
  <2>1. CASE k = 1
    BY <1>1, <1>2, <2>1
  <2>2. CASE k # 1
    <3>1. k \in 2 .. f
      BY <2>2
    <3> QED BY <1>1, <3>1
  <2> QED BY <2>1, <2>2
<1>5. frames[k].sp <= frames[f].sp
  <2>1. CASE k = f
    BY <1>1, <1>3, <2>1
  <2>2. CASE k # f
    <3>1. f \in 2 .. f /\ k \in 1 .. f - 1
      BY <2>2
    <3>2. frames[k].sp <= frames[f].lp
      BY <3>1 DEF FramesTyped, Waiting
    <3>3. frames[f].lp \in Nat /\ frames[f].lp <= frames[f].sp
      BY <1>1, <3>1
    <3> QED BY <1>1, <1>3, <3>2, <3>3
  <2> QED BY <2>1, <2>2
<1>6. frames[k].sp \in Nat /\ frames[f].sp \in Nat
  BY <1>1, <1>3
<1> QED BY <1>4, <1>5, <1>6

(* Saved frames stay what they are as long as what the last caller keeps   *)
(* stays below the top of the stack.                                       *)
LEMMA FramesWithin ==
  ASSUME Pointers, NEW op, Exec(op), Kept, NEW n \in 0 .. Len(frames)
  PROVE  /\ vs' \in Seq(CellSet) /\ code' = code /\ table' = table
         /\ \A k \in 1 .. n : frames[k] \in FrameSet'
         /\ SubSeq(frames, 1, n) \in Seq(FrameSet')
<1> DEFINE f == Len(frames)
           F == FrameSet'
<1>1. /\ FramesTyped /\ f \in Nat \ {0} /\ FirstFrame /\ frames \in Seq(FrameSet)
      /\ UNCHANGED <<code, table>> /\ frames # <<>>
  BY Executes DEF Pointers, ITypeOK
<1>2. vs' \in Seq(CellSet)
  BY DEF Kept
<1>3. Len(vs') \in Nat /\ DOMAIN vs' = 1 .. Len(vs')
  BY <1>2
<1>4. frames[f].sp \in Nat /\ frames[f].sp <= Len(vs')
  <2>1. frames[f].sp \in Nat
    BY <1>1, FramePointers
  <2>2. frames[f].sp = 0 \/ frames[f].sp \in 1 .. frames[f].sp
    BY <2>1
  <2>3. frames[f].sp \in 1 .. frames[f].sp => frames[f].sp \in DOMAIN vs'
    BY <1>1 DEF Kept
  <2> QED BY <1>3, <2>1, <2>2, <2>3
<1>5. ASSUME NEW k \in 1 .. f PROVE frames[k] \in F
  <2>1. frames[k] \in FrameSet
    BY <1>1
  <2>2. frames[k].sp \in 0 .. frames[f].sp /\ frames[k].lp \in 0 .. frames[f].sp
    BY <1>1, FramesOrdered
  <2>3. frames[k].sp \in 0 .. Len(vs') /\ frames[k].lp \in 0 .. Len(vs')
    BY <1>3, <1>4, <2>2
  <2> QED BY <1>1, <2>1, <2>3 DEF FrameSet
<1> HIDE DEF F
<1>6. frames \in Seq(F)
  BY <1>1, <1>5
<1>7. SubSeq(frames, 1, n) \in Seq(F)
  BY <1>6, PrefixType
<1>8. \A k \in 1 .. n : k \in 1 .. f
  BY <1>1
<1> QED BY <1>1, <1>2, <1>5, <1>7, <1>8 DEF F

(* Where an execution without a fault is goes on is within the body.       *)
LEMMA LeadsWithin ==
  ASSUME Engine, Engine', NEW op, Exec(op), status' = "running", defect' = {}
  PROVE  ip' \in 1 .. Len(code) /\ cur' \in 0 .. Len(table)
<1>1. IInv /\ CountInv /\ verdict = "accepted" /\ code' = code /\ seen' = seen
  BY Executing DEF Engine, CursorInv
<1>2. OnCourse(ip, cur)'
  BY DEF Engine, CursorInv, ExecInv, Running
<1>3. OnCourse(ip', cur')
  BY <1>1, <1>2 DEF OnCourse
<1> QED BY <1>1, <1>3, CourseWithin

(* A step within a call: to the next instruction, or where an entry leads. *)
ByEntry == \E k \in 1 .. Entries(code[ip]) : ip' = table[cur + k].ip /\ cur' = table[cur + k].idx

Onward == /\ UNCHANGED <<status, lp, frames>>
          /\ defect' = {} \/ (ByEntry /\ defect' \subseteq DefectSet)

LEMMA OnwardPoints ==
  ASSUME Pointers, Engine', Indices', Kept, NEW op, Exec(op), Onward
  PROVE  Pointers'
<1>1. /\ code' = code /\ table' = table /\ status = "running" /\ frames # <<>>
      /\ Len(frames) \in Nat \ {0} /\ Engine /\ Indices
  BY Executes DEF Pointers
<1>2. ip' \in 1 .. Len(code) /\ cur' \in 0 .. Len(table)
  <2>1. CASE defect' = {}
    BY <1>1, <2>1, LeadsWithin DEF Onward
  <2>2. CASE ByEntry
    BY <1>1, <2>2, EntryWithin DEF ByEntry
  <2> QED BY <2>1, <2>2 DEF Onward
<1>3. Len(code) \in Nat
  BY <1>1, Executes
<1>4. vs' \in Seq(CellSet) /\ frames' \in Seq(FrameSet')
  <2>1. Len(frames) \in 0 .. Len(frames) /\ \A k \in 1 .. Len(frames) : frames[k] \in FrameSet'
    BY <1>1, FramesWithin
  <2>2. frames \in Seq(FrameSet)
    BY DEF Pointers, ITypeOK
  <2> DEFINE F == FrameSet'
  <2>3. frames \in Seq(F)
    <3> HIDE DEF F
    <3>1. \A k \in 1 .. Len(frames) : frames[k] \in F
      BY <2>1 DEF F
    <3> QED BY <2>2, <3>1
  <2>4. frames' = frames /\ vs' \in Seq(CellSet)
    BY DEF Onward, Kept
  <2> QED BY <2>3, <2>4
<1>5. lp' \in Int /\ status' = "running" /\ defect' \subseteq DefectSet
  BY <1>1 DEF Onward, Pointers, ITypeOK
<1>6. ip' \in 0 .. Len(code)
  BY <1>2, <1>3
<1>7. ITypeOK'
  <2>1. ip' \in 0 .. Len(code') /\ cur' \in 0 .. Len(table')
    BY <1>1, <1>2, <1>6
  <2> QED BY <1>4, <1>5, <2>1 DEF ITypeOK
<1>8. Idle' /\ FirstFrame'
  BY <1>1, <1>5 DEF Idle, FirstFrame, Onward, Pointers
<1> QED BY <1>7, <1>8 DEF Pointers

(* A trap changes nothing else.                                            *)
LEMMA TrapPoints ==
  ASSUME Pointers, Engine', Indices', NEW op, Exec(op), Trap
  PROVE  Pointers'
<1>1. code' = code /\ table' = table
  BY Executes DEF Pointers
<1>2. FrameSet' = FrameSet
  BY <1>1 DEF FrameSet, Trap
<1>3. UNCHANGED <<ip, cur, vs, lp, frames, defect>> /\ status' = "trapped"
  BY DEF Trap
<1>4. ITypeOK'
  BY <1>1, <1>2, <1>3 DEF Pointers, ITypeOK
<1> QED BY <1>3, <1>4 DEF Pointers, Idle, FirstFrame

(* A return drops the last frame.                                          *)
LEMMA ReturnPoints ==
  ASSUME Pointers, Engine', Indices', Kept, NEW op, Exec(op), ReturnFunc
  PROVE  Pointers'
<1> DEFINE f == Len(frames)
           g == SubSeq(frames, 1, f - 1)
           F == FrameSet'
<1>1. /\ code' = code /\ table' = table /\ status = "running" /\ defect = {} /\ f \in Nat \ {0}
      /\ frames \in Seq(FrameSet) /\ Engine
  BY Executes DEF Pointers, ITypeOK
<1>2. frames' = g /\ defect' = {} /\ f - 1 \in 0 .. f
  BY <1>1 DEF ReturnFunc
<1>3. vs' \in Seq(CellSet) /\ g \in Seq(F)
  BY <1>2, FramesWithin
<1>4. /\ status' \in {"running", "returned"} /\ lp' \in Int
      /\ ip' \in 0 .. Len(code) /\ cur' \in 0 .. Len(table)
  <2>1. CASE f = 1
    BY <1>1, <2>1 DEF ReturnFunc, Pointers, ITypeOK
  <2>2. CASE f # 1
    <3>1. status' = "running" /\ lp' = frames[f].lp
      BY <1>1, <2>2 DEF ReturnFunc
    <3>2. ip' \in 1 .. Len(code) /\ cur' \in 0 .. Len(table)
      BY <1>1, <1>2, <3>1, LeadsWithin
    <3>3. f \in 2 .. f
      <4>1. f \in Nat \ {0} /\ f # 1
        BY <1>1, <2>2
      <4> HIDE DEF f
      <4> QED BY <4>1
    <3>4. lp' \in Int
      <4>1. FramesTyped
        BY <1>1, Executes
      <4>2. frames[f].lp \in Nat
        BY <1>1, <3>3, <4>1, FramePointers
      <4> QED BY <3>1, <4>2
    <3>5. Len(code) \in Nat
      BY <1>1, Executes
    <3> QED BY <3>1, <3>2, <3>4, <3>5
  <2> QED BY <2>1, <2>2
<1>5. FirstFrame'
  <2>1. /\ f = 1 => Len(g) = 0
        /\ f # 1 => g[1] = frames[1]
    <3>1. Len(g) = f - 1 /\ \A k \in 1 .. f - 1 : g[k] = frames[k]
      BY <1>1, <1>2, PrefixType, PrefixOf
    <3> HIDE DEF g
    <3> QED BY <1>1, <3>1
  <2>2. frames # <<>>
    BY <1>1
  <2>3. Len(g) = 0 => g = <<>>
    <3>1. \E S : g \in Seq(S)
      BY <1>3
    <3> HIDE DEF g
    <3> QED BY <3>1
  <2> HIDE DEF g, f
  <2> QED BY <1>2, <2>1, <2>2, <2>3 DEF FirstFrame, Pointers
<1>6. ITypeOK'
  <2> HIDE DEF g, F
  <2>1. frames' \in Seq(F)
    BY <1>2, <1>3
  <2> QED BY <1>1, <1>2, <1>3, <1>4, <2>1 DEF ITypeOK, F
<1>7. Idle'
  BY <1>4 DEF Idle
<1> QED BY <1>5, <1>6, <1>7 DEF Pointers

(* A call saves the pointers that the function goes on with.               *)
LEMMA CallPoints ==
  ASSUME Pointers, Engine', Indices', Kept, NEW op, Exec(op), NEW sp, CallBytecode(sp)
  PROVE  Pointers'
<1> DEFINE f == Len(frames)
           new == [ip |-> ip + 1, sp |-> sp - ParamCells, lp |-> lp, cur |-> cur]
           F == FrameSet'
<1>1. /\ code' = code /\ table' = table /\ status = "running" /\ defect = {} /\ f \in Nat \ {0}
      /\ frames \in Seq(FrameSet) /\ Engine /\ verdict = "accepted" /\ code # <<>>
      /\ Len(code) \in Nat /\ Len(table) \in Nat /\ seen' = seen /\ frames # <<>>
  BY Executes, Executing, Domains DEF Pointers, ITypeOK, Engine, CursorInv, CountInv, EndsInEnd
<1>2. /\ frames' = Append(frames, new) /\ status' = "running" /\ defect' = {}
      /\ ip' = 1 /\ cur' = 0 /\ lp' = sp - ParamCells
  BY <1>1 DEF CallBytecode
<1>3. IInv /\ CountInv
  BY <1>1 DEF Engine, CursorInv
<1>4. vs' \in Seq(CellSet) /\ Len(vs') \in Nat /\ \A k \in 1 .. f : frames[k] \in F
  <2>1. f \in 0 .. f
    BY <1>1
  <2> QED BY <1>1, <2>1, FramesWithin
<1>5. /\ FramesTyped' /\ CallersOnCourse' /\ lp' \in Nat /\ lp' <= Len(vs')
  <2>1. RunTyped' /\ CursorInv'
    BY DEF Engine
  <2>2. FramesTyped' /\ CallersOnCourse'
    BY <1>2, <2>1 DEF RunTyped, CursorInv, ExecInv, Running
  <2>3. Activation(vs, lp, Len(vs), seen[ip].stack)'
    BY <1>2, <2>1 DEF RunTyped, Running
  <2>4. PICK v, l, s : v = vs' /\ l = lp' /\ s = seen'[ip'].stack
    OBVIOUS
  <2>5. s \in Stacks /\ l \in Nat /\ Len(v) = l + CellNum(Locals) + CellNum(s)
    BY <2>3, <2>4 DEF Activation
  <2>6. CellNum(Locals) \in Nat /\ CellNum(s) \in Nat
    BY <2>5, CellNumLen, ValidatorAssumption DEF Stacks
  <2>7. l <= Len(v)
    BY <2>5, <2>6
  <2> QED BY <2>2, <2>4, <2>5, <2>7
<1> HIDE DEF new
<1>6. Len(frames') = f + 1 /\ frames'[f + 1] = new /\ \A k \in 1 .. f : frames'[k] = frames[k]
  BY <1>1, <1>2
<1>7. new \in F
  <2>1. f + 1 \in 2 .. Len(frames') /\ Len(frames') \in Nat /\ f + 1 \in 1 .. Len(frames')
    BY <1>1, <1>6
  <2>2. OnCourse(new.ip, new.cur)
    <3>1. \A k \in 2 .. Len(frames') :
            frames'[k].ip \in DOMAIN code' /\ frames'[k].cur = seen'[frames'[k].ip].emitted
      BY <1>5 DEF CallersOnCourse, OnCourse
    <3>2. frames'[f + 1].ip \in DOMAIN code' /\ frames'[f + 1].cur = seen'[frames'[f + 1].ip].emitted
      BY <2>1, <3>1
    <3> QED BY <1>1, <1>6, <3>2 DEF OnCourse
  <2>3. new.ip \in 1 .. Len(code) /\ new.cur \in 0 .. Len(table)
    BY <1>1, <1>3, <2>2, CourseWithin
  <2>4. new.lp \in Nat /\ new.lp <= new.sp /\ new.sp \in Nat /\ new.sp <= Len(vs')
    <3>1. \A k \in 2 .. Len(frames') : \E s \in Stacks : Activation(vs', frames'[k].lp, frames'[k].sp, s)
      BY <1>5 DEF FramesTyped, Waiting
    <3>2. \A k \in 1 .. Len(frames') : frames'[k].sp <= lp'
      BY <1>5 DEF FramesTyped
    <3>3. PICK s \in Stacks : Activation(vs', new.lp, new.sp, s)
      BY <1>6, <2>1, <3>1
    <3>4. CellNum(Locals) \in Nat /\ CellNum(s) \in Nat
      BY CellNumLen, ValidatorAssumption DEF Stacks
    <3>5. new.lp \in Nat /\ new.sp = new.lp + CellNum(Locals) + CellNum(s) /\ new.sp <= lp'
      BY <1>6, <2>1, <3>2, <3>3 DEF Activation
    <3> QED BY <1>4, <1>5, <3>4, <3>5
  <2>5. new = [ip |-> new.ip, sp |-> new.sp, lp |-> new.lp, cur |-> new.cur]
    BY DEF new
  <2>6. new.ip \in 0 .. Len(code)
    BY <1>1, <2>3
  <2>7. new.sp \in 0 .. Len(vs') /\ new.lp \in 0 .. Len(vs')
    BY <1>4, <2>4
  <2> QED BY <1>1, <2>3, <2>5, <2>6, <2>7 DEF FrameSet, F
<1>8. frames' \in Seq(F) /\ frames'[1] = frames[1]
  <2> HIDE DEF F
  <2>1. frames \in Seq(F)
    BY <1>1, <1>4
  <2> QED BY <1>1, <1>2, <1>6, <1>7, <2>1
<1>9. 1 \in 0 .. Len(code) /\ 0 \in 0 .. Len(table) /\ lp' \in Int
  <2>1. Len(code) # 0
    BY <1>1, <1>3 DEF IInv, TypeInv, TypeOK
  <2> QED BY <1>1, <1>5, <2>1
<1>10. ITypeOK'
  <2> HIDE DEF F
  <2>1. ip' \in 0 .. Len(code') /\ cur' \in 0 .. Len(table')
    BY <1>1, <1>2, <1>9
  <2>2. status' = "running" /\ lp' \in Int /\ vs' \in Seq(CellSet) /\ frames' \in Seq(F) /\ defect' \subseteq DefectSet
    BY <1>2, <1>4, <1>8, <1>9
  <2> QED BY <2>1, <2>2 DEF ITypeOK, F
<1>11. FirstFrame' /\ Idle'
  BY <1>1, <1>2, <1>8 DEF FirstFrame, Idle, Pointers
<1> QED BY <1>10, <1>11 DEF Pointers

-----------------------------------------------------------------------------
(* Every handler is a step of one of these four forms.                     *)
Formed == Onward \/ Trap \/ ReturnFunc \/ \E sp : CallBytecode(sp)

LEMMA ProceedFormed ==
  ASSUME NEW op, Exec(op), NEW st, NEW n, Proceed(st) \/ Pass(st, n)
  PROVE  Onward
BY DEF Exec, Proceed, Pass, Goto, Onward

LEMMA TransferFormed ==
  ASSUME NEW op, Exec(op), NEW k \in 1 .. Entries(code[ip]), NEW sp, Transfer(table[cur + k], sp)
  PROVE  Onward
<1>1. ByEntry
  BY DEF Transfer, Goto, ByEntry
<1>2. defect' \in {{}, {"loop_results"}}
  BY DEF Transfer
<1> QED BY <1>1, <1>2 DEF Transfer, Goto, Onward, DefectSet

LEMMA BranchesFormed ==
  Engine /\ (HandleIf \/ HandleElse \/ HandleBr \/ HandleBrIf \/ HandleBrTable)
    => \E op : Exec(op) /\ Onward
<1> SUFFICES ASSUME Engine, HandleIf \/ HandleElse \/ HandleBr \/ HandleBrIf \/ HandleBrTable
             PROVE  \E op : Exec(op) /\ Onward
  OBVIOUS
<1>1. \A op : Exec(op) => code[ip].op = op /\ defect = {}
  BY DEF Exec
<1>2. CASE HandleIf
  <2>1. Exec("if") /\ Entries(code[ip]) = 1
    BY <1>1, <1>2 DEF HandleIf, Entries
  <2>2. CASE Pass(Without(1), 1)
    BY <2>1, <2>2, ProceedFormed
  <2>3. CASE ~Pass(Without(1), 1)
    <3>1. /\ Goto(Without(1), table[cur + 1].ip, table[cur + 1].idx)
          /\ defect' \in {{}, {"else_cursor"}}
      BY <1>2, <2>3 DEF HandleIf
    <3>2. ByEntry
      BY <2>1, <3>1 DEF Goto, ByEntry
    <3> QED BY <2>1, <3>1, <3>2 DEF Goto, Onward, DefectSet
  <2> QED BY <2>2, <2>3
<1>3. CASE HandleElse
  BY <1>1, <1>3 DEF HandleElse, Goto, Onward
<1>4. CASE HandleBr
  <2>1. Exec("br") /\ Entries(code[ip]) = 1 /\ Transfer(table[cur + 1], Len(vs))
    BY <1>1, <1>4 DEF HandleBr, Entries
  <2> QED BY <2>1, TransferFormed
<1>5. CASE HandleBrIf
  <2>1. Exec("br_if") /\ Entries(code[ip]) = 1
    BY <1>1, <1>5 DEF HandleBrIf, Entries
  <2>2. CASE Transfer(table[cur + 1], Len(vs) - 1)
    BY <2>1, <2>2, TransferFormed
  <2>3. CASE Pass(Without(1), 1)
    BY <2>1, <2>3, ProceedFormed
  <2> QED BY <1>5, <2>2, <2>3 DEF HandleBrIf
<1>6. CASE HandleBrTable
  <2>1. Exec("br_table")
    BY <1>6 DEF HandleBrTable
  <2>2. /\ code[ip].op = "br_table" /\ ip \in 1 .. Len(code) /\ TypeOK /\ cur \in Nat
        /\ Entries(code[ip]) = code[ip].count + 1
    BY <2>1, Executes DEF Entries
  <2>3. code[ip] \in InstrSet
    BY <2>2 DEF TypeOK
  <2>4. code[ip].count \in Nat
    BY <2>2, <2>3 DEF InstrSet
  <2>5. PICK lidx \in 0 .. code[ip].count : Transfer(table[cur + lidx + 1], Len(vs) - 1)
    BY <1>6 DEF HandleBrTable
  <2>6. lidx + 1 \in 1 .. Entries(code[ip]) /\ cur + lidx + 1 = cur + (lidx + 1)
    BY <2>2, <2>4
  <2> QED BY <2>1, <2>5, <2>6, TransferFormed
<1> QED BY <1>2, <1>3, <1>4, <1>5, <1>6

LEMMA CallsFormed ==
  ASSUME NEW op, Exec(op), NEW f, NEW sp, CallFunction(f, sp)
  PROVE  Formed
<1>1. CASE f < Self
  BY <1>1, ProceedFormed DEF CallFunction, CallNative, Formed
<1>2. CASE ~(f < Self)
  BY <1>2 DEF CallFunction, Formed
<1> QED BY <1>1, <1>2

LEMMA HandleFormed == Engine /\ Handle => \E op : Exec(op) /\ Formed
<1> SUFFICES ASSUME Engine, Handle PROVE \E op : Exec(op) /\ Formed
  OBVIOUS
<1>1. CASE HandleUnreachable
  BY <1>1 DEF HandleUnreachable, Formed
<1>2. CASE HandleNop
  BY <1>2, ProceedFormed DEF HandleNop, Formed
<1>3. CASE HandlePlain
  BY <1>3, ProceedFormed DEF HandlePlain, Formed
<1>4. CASE HandleIf \/ HandleElse \/ HandleBr \/ HandleBrIf \/ HandleBrTable
  BY <1>4, BranchesFormed DEF Formed
<1>5. CASE HandleEnd \/ HandleReturn
  BY <1>5, ProceedFormed DEF HandleEnd, HandleReturn, Formed
<1>6. CASE HandleCall \/ HandleCallIndirect
  BY <1>6, CallsFormed DEF HandleCall, HandleCallIndirect, Formed
<1>7. CASE HandleDrop
  BY <1>7, ProceedFormed DEF HandleDrop, Formed
<1>8. CASE HandleSelect
  <2>1. Exec("select") /\ \E st : Proceed(st)
    BY <1>8 DEF HandleSelect
  <2> QED BY <2>1, ProceedFormed DEF Formed
<1>9. CASE HandleGetLocal
  BY <1>9, ProceedFormed DEF HandleGetLocal, Formed
<1>10. CASE HandleSetLocal
  BY <1>10, ProceedFormed DEF HandleSetLocal, Formed
<1>11. CASE HandleTeeLocal
  BY <1>11, ProceedFormed DEF HandleTeeLocal, Formed
<1>12. CASE HandleGetGlobal \/ HandleSetGlobal
  BY <1>12, ProceedFormed DEF HandleGetGlobal, HandleSetGlobal, Formed
<1> QED BY <1>1, <1>2, <1>3, <1>4, <1>5, <1>6, <1>7, <1>8, <1>9, <1>10, <1>11, <1>12 DEF Handle

-----------------------------------------------------------------------------
LEMMA CellsTyped == Cells(FuncType.param) \in Seq(CellSet) /\ ParamCells \in Nat /\ LocalCells \in Int
<1>1. FuncType.param \in Stacks /\ Locals \in Stacks
  BY ValidatorAssumption DEF FuncTypeSet, Stacks
<1> QED BY <1>1, CellsType, CellNumLen DEF ParamCells, LocalCells

(* An execution begins with the frame of whoever asked for it.             *)
LEMMA BeginPoints ==
  ASSUME Pointers, Engine', Indices',
         NEW below \in Seq(CellSet), NEW args \in Seq(CellSet), NEW locals \in Seq(CellSet),
         NEW base \in Int, Begin(below, args, locals, base), defect' \subseteq DefectSet
  PROVE  Pointers'
<1> DEFINE first == [ip |-> 0, sp |-> Len(below), lp |-> 0, cur |-> 0]
<1>1. /\ code' = code /\ table' = table /\ verdict = "accepted" /\ status' = "running"
      /\ ip' = 1 /\ cur' = 0 /\ lp' = base /\ vs' = below \o args \o locals /\ frames' = <<first>>
  BY DEF Begin, vars
<1>2. IInv /\ CountInv
  BY DEF Pointers, Engine, CursorInv
<1>3. code # <<>> /\ code \in Seq(InstrSet) /\ Len(table) \in Nat
  BY <1>1, <1>2, Domains DEF CountInv, EndsInEnd, IInv, TypeInv, TypeOK
<1>4. 1 \in 0 .. Len(code) /\ 0 \in 0 .. Len(code) /\ 0 \in 0 .. Len(table)
  BY <1>3
<1>5. below \o args \o locals \in Seq(CellSet) /\ Len(below) \in Nat
      /\ Len(below) <= Len(below \o args \o locals)
  OBVIOUS
<1>6. Len(below) \in 0 .. Len(vs') /\ 0 \in 0 .. Len(vs')
  BY <1>1, <1>5
<1>7. first \in FrameSet'
  BY <1>1, <1>4, <1>6 DEF FrameSet
<1>8. frames' \in Seq(FrameSet') /\ first.lp = 0 /\ frames'[1] = first
  <2> HIDE DEF first
  <2> QED BY <1>1, <1>7 DEF first
<1>9. ITypeOK'
  <2>1. ip' \in 0 .. Len(code') /\ cur' \in 0 .. Len(table') /\ vs' \in Seq(CellSet)
    BY <1>1, <1>4, <1>5
  <2> QED BY <1>1, <1>8, <2>1 DEF ITypeOK
<1>10. Idle' /\ FirstFrame'
  BY <1>1, <1>8 DEF Idle, FirstFrame
<1> QED BY <1>9, <1>10 DEF Pointers

LEMMA ZeroCells == Zero \in CellSet /\ \A n \in Int : Zeros(n) \in Seq(CellSet)
<1>1. Zero \in CellSet
  BY DEF Zero, Cell, CellSet
<1>2. ASSUME NEW n \in Int PROVE Zeros(n) \in Seq(CellSet)
  <2>1. CASE n \in Nat
    BY <1>1, <2>1 DEF Zeros
  <2>2. CASE n \notin Nat
    <3>1. 1 .. n = 1 .. 0 /\ 0 \in Nat
      BY <2>2
    <3>2. Zeros(n) = [i \in 1 .. 0 |-> Zero]
      BY <3>1 DEF Zeros
    <3> QED BY <1>1, <3>2
  <2> QED BY <2>1, <2>2
<1> QED BY <1>1, <1>2

LEMMA StartPoints == Pointers /\ Engine' /\ Indices' /\ Start => Pointers'
<1> SUFFICES ASSUME Pointers, Engine', Indices', Start PROVE Pointers'
  OBVIOUS
<1>1. lapses \subseteq DefectSet
  BY DEF Pointers, Engine, CursorInv, IInv, TypeInv, TypeOK, DefectSet
<1>2. <<>> \in Seq(CellSet) /\ 0 - ParamCells \in Int /\ 1 \in Int
  BY CellsTyped
<1>3. CASE StartMain
  <2> DEFINE v(i) == IF i <= ParamCells THEN Cells(FuncType.param)[i] ELSE Zero
             locals == [i \in 1 .. LocalCells |-> v(i)]
  <2>1. /\ Begin(<<>>, <<>>, locals, 0 - ParamCells)
        /\ defect' = lapses \cup (IF ParamCells > 0 THEN {"main_arguments"} ELSE {})
    BY <1>3 DEF StartMain
  <2>2. defect' \subseteq DefectSet
    BY <1>1, <2>1 DEF DefectSet
  <2>3. locals \in Seq(CellSet)
    <3>1. ASSUME NEW i \in Nat, i > 0 PROVE v(i) \in CellSet
      <4>1. CASE i <= ParamCells
        <5>1. FuncType.param \in Stacks
          BY ValidatorAssumption DEF FuncTypeSet, Stacks
        <5>2. Len(Cells(FuncType.param)) = ParamCells /\ Cells(FuncType.param) \in Seq(CellSet) /\ ParamCells \in Nat
          BY <5>1, CellsType, CellsTyped DEF ParamCells
        <5>3. i \in 1 .. Len(Cells(FuncType.param))
          BY <3>1, <4>1, <5>2
        <5> QED BY <4>1, <5>2, <5>3
      <4>2. CASE ~(i <= ParamCells)
        BY <4>2, ZeroCells
      <4> QED BY <4>1, <4>2
    <3> HIDE DEF v
    <3>2. PICK n \in Nat : 1 .. LocalCells = 1 .. n
      <4>1. LocalCells \in Nat \/ 1 .. LocalCells = 1 .. 0
        BY CellsTyped
      <4>2. 0 \in Nat
        OBVIOUS
      <4> QED BY <4>1, <4>2
    <3>3. locals = [i \in 1 .. n |-> v(i)]
      BY <3>2
    <3>4. [i \in 1 .. n |-> v(i)] \in Seq(CellSet)
      BY <3>1, <3>2
    <3> QED BY <3>3, <3>4
  <2> HIDE DEF locals
  <2> QED BY <1>2, <2>1, <2>2, <2>3, BeginPoints
<1>4. CASE StartCalled
  <2> DEFINE kept == <<Cell("I32", 0)>>
             args == Cells(FuncType.param)
             zeros == Zeros(LocalCells)
  <2>1. Begin(kept, args, zeros, 1) /\ defect' = lapses
    BY <1>4 DEF StartCalled
  <2>2. Cell("I32", 0) \in CellSet
    BY DEF Cell, CellSet, ValueType
  <2>3. kept \in Seq(CellSet) /\ args \in Seq(CellSet) /\ zeros \in Seq(CellSet)
    BY <2>2, CellsTyped, ZeroCells
  <2> HIDE DEF kept, args, zeros
  <2> QED BY <1>1, <1>2, <2>1, <2>3, BeginPoints
<1> QED BY <1>3, <1>4 DEF Start

LEMMA IInitPoints == IInit => Pointers
<1> SUFFICES ASSUME IInit PROVE Pointers
  OBVIOUS
<1>1. /\ status = "idle" /\ ip = 0 /\ cur = 0 /\ vs = <<>> /\ lp = 0 /\ frames = <<>> /\ defect = {}
      /\ code = <<>> /\ table = <<>> /\ Init
  BY DEF IInit, Init
<1>2. Engine /\ Indices
  BY <1>1, IInitTyped, InitIndices
<1>3. Len(code) = 0 /\ Len(table) = 0
  BY <1>1
<1>4. ITypeOK
  BY <1>1, <1>3 DEF ITypeOK
<1> QED BY <1>1, <1>2, <1>4 DEF Pointers, Idle, FirstFrame

(* No step lets a pointer leave its body, table or stack.                  *)
LEMMA INextPoints == Pointers /\ [INext]_ivars => Pointers'
<1> SUFFICES ASSUME Pointers, [INext]_ivars PROVE Pointers'
  OBVIOUS
<1>1. Engine /\ Engine' /\ (Running({}) => Kept \/ UNCHANGED ivars) /\ Indices
  BY INextTyped DEF Pointers
<1>2. [Next]_vars
  BY HandleKeeps DEF INext, ivars
<1>3. Indices'
  BY <1>1, <1>2, NextIndices DEF Engine, CursorInv, IInv
<1>4. CASE Next /\ UNCHANGED evars
  <2>1. status = "idle"
    BY <1>1, <1>4, NextRuns DEF Engine, CursorInv, ExecInv
  <2>2. /\ status' = "idle" /\ ip' = 0 /\ cur' = 0 /\ vs' = <<>> /\ lp' = 0
        /\ frames' = <<>> /\ defect' = {}
    BY <1>4, <2>1 DEF evars, Pointers, Idle
  <2>3. Len(code') \in Nat /\ Len(table') \in Nat
    <3>1. TypeOK'
      BY <1>1 DEF Engine, CursorInv, IInv, TypeInv
    <3>2. (\E S : code' \in Seq(S)) /\ \E S : table' \in Seq(S)
      BY <3>1 DEF TypeOK
    <3> QED BY <3>2
  <2>4. ITypeOK'
    <3>1. 0 \in 0 .. Len(code') /\ 0 \in 0 .. Len(table')
      BY <2>3
    <3> QED BY <2>2, <3>1 DEF ITypeOK
  <2> QED BY <1>1, <1>3, <2>2, <2>4 DEF Pointers, Idle, FirstFrame
<1>5. CASE Start
  BY <1>1, <1>3, <1>5, StartPoints
<1>6. CASE Handle /\ ~(UNCHANGED ivars)
  <2>1. PICK op : Exec(op) /\ Formed
    BY <1>1, <1>6, HandleFormed
  <2>2. Kept
    BY <1>1, <1>6, <2>1 DEF Exec, Running
  <2>3. CASE Onward
    BY <1>1, <1>3, <2>1, <2>2, <2>3, OnwardPoints
  <2>4. CASE Trap
    BY <1>1, <1>3, <2>1, <2>4, TrapPoints
  <2>5. CASE ReturnFunc
    BY <1>1, <1>3, <2>1, <2>2, <2>5, ReturnPoints
  <2>6. ASSUME NEW sp, CallBytecode(sp) PROVE Pointers'
    BY <1>1, <1>3, <2>1, <2>2, <2>6, CallPoints
  <2> QED BY <2>1, <2>3, <2>4, <2>5, <2>6 DEF Formed
<1>7. CASE UNCHANGED ivars
  <2>1. UNCHANGED <<status, ip, cur, vs, lp, frames, defect, code, table>>
    BY <1>7 DEF ivars, evars, vars
  <2>2. FrameSet' = FrameSet
    BY <2>1 DEF FrameSet
  <2> QED BY <1>1, <1>3, <2>1, <2>2 DEF Pointers, ITypeOK, Idle, FirstFrame
<1> QED BY <1>4, <1>5, <1>6, <1>7 DEF INext

(* Whatever the body, the table and the frames: what an execution of an    *)
(* accepted body reads next is an instruction of it, its cursor is within  *)
(* the branch table, and the pointers that calls have saved lie in the     *)
(* part of the value stack in use.  This holds of the step into a known    *)
(* fault as well.                                                          *)
THEOREM PointersWithin == ISpec => []ITypeOK
<1>1. Pointers => ITypeOK
  BY DEF Pointers
<1> QED BY <1>1, IInitPoints, INextPoints, PTL DEF ISpec

=============================================================================
