---------------------------- MODULE FdTableProofs ----------------------------
(***************************************************************************)
(* Proofs about FdTable: type correctness and exact reference counts, and  *)
(* what the slots stand for: the descriptors of the host they own, the     *)
(* preopened directories they keep, the rights they carry, and how full    *)
(* they make the table.                                                    *)
(***************************************************************************)
EXTENDS FdTable, FiniteSetTheorems, WellFoundedInduction, TLAPS

(***************************************************************************)
(* The inductive invariant.                                                *)
(***************************************************************************)

\* The shape of a table.
Table(t) ==
  /\ t = [entries |-> t.entries, size |-> t.size, used |-> t.used]
  /\ t.size \in 0 .. SizeT - 1 /\ t.used \in 0 .. SizeT - 1
  /\ t.entries \in [Slots(t) -> Entry]

Debts == [ObjectIds -> Nat]

\* The shape of the objects.
Heap(h) == DOMAIN h \subseteq ObjectIds /\ h \in [DOMAIN h -> FdObject]

\* The counts of the objects `h` are the slots of `t` that name them and
\* further references `l`; what is not allocated has none and may be reused.
Counts(t, h, l) ==
  /\ \A fd \in Occupied(t) : t.entries[fd].object \in DOMAIN h
  /\ \A o \in DOMAIN h : h[o].refs = Cardinality(SlotsOf(t, o)) + l[o]
  /\ \A o \in ObjectIds \ DOMAIN h : l[o] = 0

\* The assertion of fd_table_attach: the slot wasi_init fills next is free.
NextFree == status = "init" => \A fd \in Occupied(ft) : fd < next

\* The types of everything but tables and objects.
Rest ==
  /\ status \in {"init", "up", "failed", "crashed", "hung"}
  /\ next \in 0 .. 3 + Preopens
  /\ prestats \subseteq 3 .. 2 + Preopens
  /\ host \subseteq Nat /\ IsFiniteSet(host) /\ strays \subseteq Nat
  /\ opens \in 0 .. MaxOpens
  /\ renumbers \in 0 .. MaxRenumbers
  /\ lost \in Debts

IInv ==
  /\ Rest
  /\ Table(ft)
  /\ Heap(heap)
  /\ Counts(ft, heap, lost)
  /\ NextFree

----------------------------------------------------------------------------
(* Lemmas about numbers and tables *)

(* Arithmetic of size_t stays in size_t.                                   *)
LEMMA WrapType ==
  ASSUME NEW n \in Int
  PROVE  Wrap(n) \in 0 .. SizeT - 1
  BY FdTableAssumption DEF Wrap

(* A set of numbers that is not empty has a least element: the least of    *)
(* the intervals that reach up to its members.                             *)
LEMMA Least ==
  ASSUME NEW S \in SUBSET Nat, S # {}
  PROVE  \E s \in S : \A r \in S : s <= r
<1> DEFINE F == FiniteSubsetsOf(Nat)
           R == StrictSubsetOrdering(Nat)
           T == {0 .. s : s \in S}
<1>1. IsWellFoundedOn(R, F)
  BY FS_StrictSubsetOrderingWellFounded
<1>2. T \subseteq F
  <2> SUFFICES ASSUME NEW s \in S PROVE 0 .. s \in F
    OBVIOUS
  <2>1. IsFiniteSet(0 .. s)
    BY FS_Interval
  <2> QED BY <2>1 DEF FiniteSubsetsOf
<1>3. T # {}
  OBVIOUS
<1> HIDE DEF F, R, T
<1>4. PICK x \in T : \A y \in T : ~ (<<y, x>> \in R)
  BY <1>1, <1>2, <1>3, WFMin
<1>5. PICK s \in S : x = 0 .. s
  BY <1>4 DEF T
<1>6. ASSUME NEW r \in S, ~ (s <= r)
      PROVE  FALSE
  <2>1. 0 .. r \in T
    BY DEF T
  <2>2. 0 .. r \in SUBSET (0 .. s) /\ 0 .. r # 0 .. s
    BY <1>6
  <2>3. <<0 .. r, 0 .. s>> \in R
    BY <2>2 DEF R, StrictSubsetOrdering
  <2> QED BY <2>1, <2>3, <1>4, <1>5
<1> QED BY <1>6

Empty(t) == t = [entries |-> [fd \in {} |-> Free], size |-> 0, used |-> 0]

LEMMA EmptyTable ==
  ASSUME NEW t, Empty(t)
  PROVE  Table(t) /\ Occupied(t) = {} /\ \A o : SlotsOf(t, o) = {}
<1>1. Slots(t) = {}
  BY DEF Empty, Slots
<1> QED BY <1>1, FdTableAssumption DEF Empty, Table, Occupied, SlotsOf

(* The slots of an object are finitely many.                               *)
LEMMA SlotsFinite ==
  ASSUME NEW t, Table(t), NEW o
  PROVE  IsFiniteSet(SlotsOf(t, o)) /\ Cardinality(SlotsOf(t, o)) \in Nat
<1>1. IsFiniteSet(Slots(t))
  <2>1. 0 \in Int /\ t.size - 1 \in Int
    BY FdTableAssumption DEF Table
  <2> QED BY <2>1, FS_Interval DEF Slots
<1>2. SlotsOf(t, o) \in SUBSET Slots(t)
  BY DEF SlotsOf
<1>3. IsFiniteSet(SlotsOf(t, o))
  BY <1>1, <1>2, FS_Subset
<1> QED BY <1>3, FS_CardinalityType

LEMMA FreeEntry == Free \in Entry /\ Free.object = NoObject
  BY DEF Free, Entry

(* fd_table_grow: the table reaches beyond `min`, keeps its entries, and   *)
(* all its new slots are free.                                             *)
LEMMA GrowTable ==
  ASSUME NEW t, Table(t), NEW min \in Nat, NEW incr \in Nat,
         Fitting(t, min, incr) # {}
  PROVE  LET g == Grow(t, min, incr)
         IN /\ Table(g) /\ t.size <= g.size /\ g.size > min
            /\ \A fd \in Slots(t) : g.entries[fd] = t.entries[fd]
            /\ \A fd \in Slots(g) \ Slots(t) : g.entries[fd] = Free
<1> DEFINE first == IF t.size = 0 THEN 1 ELSE t.size
           F == Fitting(t, min, incr)
           s == CHOOSE s \in F : \A r \in F : s <= r
<1>1. first \in Nat /\ t.size \in Nat /\ t.size <= first
  BY DEF Table
<1>2. F \subseteq first .. SizeT - 1 /\ \A r \in F : r > min
  BY DEF Fitting, Doublings
<1>3. F \in SUBSET Nat
  BY <1>1, <1>2, FdTableAssumption
<1>4. s \in F
  BY <1>3, Least
<1>6. Grow(t, min, incr) = GrowTo(t, s)
  BY DEF Grow
<1> HIDE DEF F, s, first
<1>5. s \in Nat /\ t.size <= s /\ s < SizeT /\ s > min
  <2>1. s \in first .. SizeT - 1 /\ s > min
    BY <1>2, <1>4
  <2> QED BY <1>1, <2>1, FdTableAssumption
<1> DEFINE e == [fd \in 0 .. s - 1 |->
                   IF fd < t.size THEN t.entries[fd] ELSE Free]
<1> HIDE DEF e
<1>7. GrowTo(t, s) = [entries |-> e, size |-> s, used |-> t.used]
  BY DEF GrowTo, e
<1>8. e \in [0 .. s - 1 -> Entry]
  BY <1>5, FreeEntry DEF Table, Slots, e
<1>9. \A fd \in 0 .. s - 1 : e[fd] = IF fd < t.size THEN t.entries[fd] ELSE Free
  BY DEF e
<1> DEFINE g == [entries |-> e, size |-> s, used |-> t.used]
<1>10. Table(g)
  BY <1>5, <1>8, FdTableAssumption, SMTT(30) DEF Table, Slots
<1>11. \A fd \in Slots(t) : g.entries[fd] = t.entries[fd]
  BY <1>5, <1>9 DEF Table, Slots
<1>12. \A fd \in Slots(g) \ Slots(t) : g.entries[fd] = Free
  BY <1>5, <1>9 DEF Table, Slots
<1> QED BY <1>5, <1>6, <1>7, <1>10, <1>11, <1>12

(* Growing changes neither who is named nor how often.                     *)
LEMMA GrowKeeps ==
  ASSUME NEW t, Table(t), NEW min \in Nat, NEW incr \in Nat,
         Fitting(t, min, incr) # {}
  PROVE  LET g == Grow(t, min, incr)
         IN /\ Occupied(g) = Occupied(t)
            /\ \A o \in ObjectIds : SlotsOf(g, o) = SlotsOf(t, o)
<1> DEFINE g == Grow(t, min, incr)
<1>1. /\ t.size <= g.size /\ t.size \in Nat /\ g.size \in Nat
      /\ \A fd \in Slots(t) : g.entries[fd] = t.entries[fd]
      /\ \A fd \in Slots(g) \ Slots(t) : g.entries[fd] = Free
  BY GrowTable DEF Table
<1> HIDE DEF g
<1>2. Slots(t) \subseteq Slots(g)
  BY <1>1 DEF Slots
<1>3. Occupied(g) = Occupied(t)
  BY <1>1, <1>2, FreeEntry DEF Occupied
<1>4. ASSUME NEW o \in ObjectIds
      PROVE  SlotsOf(g, o) = SlotsOf(t, o)
  <2>1. o # NoObject
    BY DEF ObjectIds, NoObject
  <2> QED BY <1>1, <1>2, <2>1, FreeEntry DEF SlotsOf
<1> QED BY <1>3, <1>4 DEF g

(* fd_table_attach *)
LEMMA AttachTable ==
  ASSUME NEW t, Table(t), NEW fd \in Slots(t), NEW o \in ObjectIds,
         NEW base \in SUBSET Rights, NEW inheriting \in SUBSET Rights
  PROVE  LET a == Attach(t, fd, o, base, inheriting)
         IN /\ Table(a) /\ a.size = t.size
            /\ a.entries[fd].object = o
            /\ \A f \in Slots(t) \ {fd} : a.entries[f] = t.entries[f]
<1> DEFINE e == [object |-> o, base |-> base, inheriting |-> inheriting]
           a == Attach(t, fd, o, base, inheriting)
<1>1. e \in Entry
  BY DEF Entry
<1>2. Wrap(t.used + 1) \in 0 .. SizeT - 1
  BY WrapType DEF Table
<1>3. a = [entries |-> [t.entries EXCEPT ![fd] = e], size |-> t.size,
           used |-> Wrap(t.used + 1)]
  BY DEF Attach
<1>4. e.object = o
  OBVIOUS
<1> HIDE DEF e
<1> QED BY <1>1, <1>2, <1>3, <1>4 DEF Table, Slots

(* fd_table_detach *)
LEMMA DetachTable ==
  ASSUME NEW t, Table(t), NEW fd \in Slots(t)
  PROVE  LET d == Detach(t, fd)
         IN /\ Table(d) /\ d.size = t.size
            /\ d.entries[fd] = Free
            /\ \A f \in Slots(t) \ {fd} : d.entries[f] = t.entries[f]
<1>1. Wrap(t.used + SizeT - 1) \in 0 .. SizeT - 1
  BY WrapType, FdTableAssumption DEF Table
<1>2. Detach(t, fd) = [entries |-> [t.entries EXCEPT ![fd] = Free],
                       size |-> t.size, used |-> Wrap(t.used + SizeT - 1)]
  BY DEF Detach
<1> QED BY <1>1, <1>2, FreeEntry DEF Table, Slots


(* A slot that was free and is attached: one more slot of its object.      *)
LEMMA AttachOccupied ==
  ASSUME NEW t, Table(t), NEW fd \in Slots(t) \ Occupied(t),
         NEW o \in ObjectIds,
         NEW base \in SUBSET Rights, NEW inheriting \in SUBSET Rights
  PROVE  Occupied(Attach(t, fd, o, base, inheriting)) = Occupied(t) \cup {fd}
<1> DEFINE a == Attach(t, fd, o, base, inheriting)
<1>1. /\ a.size = t.size /\ a.entries[fd].object = o
      /\ \A f \in Slots(t) \ {fd} : a.entries[f] = t.entries[f]
  BY AttachTable
<1> HIDE DEF a
<1>2. Slots(a) = Slots(t)
  BY <1>1 DEF Slots
<1>3. t.entries[fd].object = NoObject /\ NoObject \notin ObjectIds
  BY DEF Occupied, NoObject, ObjectIds
<1>4. Occupied(a) = Occupied(t) \cup {fd}
  BY <1>1, <1>2, <1>3 DEF Occupied
<1> QED BY <1>4 DEF a

LEMMA AttachSlots ==
  ASSUME NEW t, Table(t), NEW fd \in Slots(t) \ Occupied(t),
         NEW o \in ObjectIds,
         NEW base \in SUBSET Rights, NEW inheriting \in SUBSET Rights
  PROVE  LET a == Attach(t, fd, o, base, inheriting)
         IN /\ Cardinality(SlotsOf(a, o)) = Cardinality(SlotsOf(t, o)) + 1
            /\ \A p \in ObjectIds \ {o} : SlotsOf(a, p) = SlotsOf(t, p)
<1> DEFINE a == Attach(t, fd, o, base, inheriting)
<1>1. /\ a.size = t.size /\ a.entries[fd].object = o
      /\ \A f \in Slots(t) \ {fd} : a.entries[f] = t.entries[f]
  BY AttachTable
<1> HIDE DEF a
<1>2. Slots(a) = Slots(t)
  BY <1>1 DEF Slots
<1>3. t.entries[fd].object = NoObject /\ NoObject \notin ObjectIds
  BY DEF Occupied, NoObject, ObjectIds
<1>5. SlotsOf(a, o) = SlotsOf(t, o) \cup {fd} /\ fd \notin SlotsOf(t, o)
  BY <1>1, <1>2, <1>3 DEF SlotsOf
<1>6. Cardinality(SlotsOf(a, o)) = Cardinality(SlotsOf(t, o)) + 1
  BY <1>5, SlotsFinite, FS_AddElement
<1>7. \A p \in ObjectIds \ {o} : SlotsOf(a, p) = SlotsOf(t, p)
  BY <1>1, <1>2, <1>3 DEF SlotsOf
<1> QED BY <1>6, <1>7 DEF a

(* An occupied slot that is detached: one slot less of its object.         *)
LEMMA DetachSlots ==
  ASSUME NEW t, Table(t), NEW fd \in Occupied(t)
  PROVE  LET d == Detach(t, fd)
             o == t.entries[fd].object
         IN /\ Occupied(d) = Occupied(t) \ {fd}
            /\ o \in ObjectIds
            /\ Cardinality(SlotsOf(d, o)) = Cardinality(SlotsOf(t, o)) - 1
            /\ \A p \in ObjectIds \ {o} : SlotsOf(d, p) = SlotsOf(t, p)
<1> DEFINE d == Detach(t, fd)
           o == t.entries[fd].object
<1>1. fd \in Slots(t) /\ o # NoObject /\ o \in ObjectIds
  <2>1. fd \in Slots(t) /\ o # NoObject
    BY DEF Occupied
  <2> QED BY <2>1 DEF Table, Entry
<1>2. /\ d.size = t.size /\ d.entries[fd] = Free
      /\ \A f \in Slots(t) \ {fd} : d.entries[f] = t.entries[f]
  BY <1>1, DetachTable
<1> HIDE DEF d
<1>3. Slots(d) = Slots(t)
  BY <1>2 DEF Slots
<1>4. Occupied(d) = Occupied(t) \ {fd}
  BY <1>2, <1>3, FreeEntry DEF Occupied
<1>5. NoObject \notin ObjectIds
  BY DEF NoObject, ObjectIds
<1>6. SlotsOf(d, o) = SlotsOf(t, o) \ {fd} /\ fd \in SlotsOf(t, o)
  BY <1>1, <1>2, <1>3, <1>5, FreeEntry DEF SlotsOf
<1>7. Cardinality(SlotsOf(d, o)) = Cardinality(SlotsOf(t, o)) - 1
  <2>1. IsFiniteSet(SlotsOf(t, o))
    BY SlotsFinite
  <2> QED BY <1>6, <2>1, FS_RemoveElement, ZenonT(30)
<1>8. \A p \in ObjectIds \ {o} : SlotsOf(d, p) = SlotsOf(t, p)
  BY <1>1, <1>2, <1>3, <1>5, FreeEntry DEF SlotsOf
<1> QED BY <1>1, <1>4, <1>7, <1>8 DEF d

----------------------------------------------------------------------------
(* Lemmas about objects *)

(* fd_object_new                                                           *)
LEMMA AllocHeap ==
  ASSUME NEW h, Heap(h), NEW o \in ObjectIds, NEW kind \in Kinds,
         NEW number \in Nat
  PROVE  LET a == Alloc(h, o, kind, number)
         IN Heap(a) /\ o \in DOMAIN a
<1>1. [kind |-> kind, number |-> number, refs |-> 1, handle |-> FALSE] \in FdObject
  BY DEF FdObject
<1> QED BY <1>1 DEF Heap, Alloc

(* fd_object_get                                                           *)
LEMMA AcquireHeap ==
  ASSUME NEW h, Heap(h), NEW o \in DOMAIN h
  PROVE  LET a == Acquire(h, o)
         IN /\ Heap(a) /\ DOMAIN a = DOMAIN h
            /\ a[o].refs = h[o].refs + 1
            /\ \A p \in DOMAIN h \ {o} : a[p] = h[p]
  BY DEF Heap, FdObject, Acquire

(* fd_object_release                                                       *)
LEMMA ReleaseHeap ==
  ASSUME NEW h, Heap(h), NEW o \in DOMAIN h
  PROVE  LET r == Release(h, o)
         IN /\ Heap(r)
            /\ DOMAIN r = IF h[o].refs = 1 THEN DOMAIN h \ {o} ELSE DOMAIN h
            /\ h[o].refs # 1 => r[o].refs = h[o].refs - 1
            /\ \A p \in DOMAIN h \ {o} : r[p] = h[p]
<1>1. CASE h[o].refs = 1
  BY <1>1 DEF Heap, Release
<1>2. CASE h[o].refs # 1
  BY <1>2 DEF Heap, FdObject, Release
<1> QED BY <1>1, <1>2


----------------------------------------------------------------------------
(* Lemmas about reference counts *)

LEMMA LoseType ==
  ASSUME NEW l \in Debts, NEW o \in ObjectIds
  PROVE  /\ Lose(l, o) \in Debts
         /\ Lose(l, o)[o] = l[o] + 1
         /\ \A p \in ObjectIds \ {o} : Lose(l, o)[p] = l[p]
  BY DEF Debts, Lose

LEMMA GrowCounts ==
  ASSUME NEW t, Table(t), NEW min \in Nat, NEW incr \in Nat,
         Fitting(t, min, incr) # {},
         NEW h, Heap(h), NEW l, Counts(t, h, l)
  PROVE  Counts(Grow(t, min, incr), h, l)
<1> DEFINE g == Grow(t, min, incr)
<1>1. /\ Occupied(g) = Occupied(t)
      /\ \A o \in ObjectIds : SlotsOf(g, o) = SlotsOf(t, o)
      /\ \A fd \in Slots(t) : g.entries[fd] = t.entries[fd]
  BY GrowTable, GrowKeeps
<1> HIDE DEF g
<1>2. Occupied(t) \subseteq Slots(t)
  BY DEF Occupied
<1>3. Counts(g, h, l)
  BY <1>1, <1>2 DEF Counts, Heap
<1> QED BY <1>3 DEF g

(* A reference is taken: it is not the table's yet.                        *)
LEMMA AcquireCounts ==
  ASSUME NEW t, Table(t), NEW h, Heap(h), NEW l \in Debts, Counts(t, h, l),
         NEW o \in DOMAIN h
  PROVE  Counts(t, Acquire(h, o), Lose(l, o))
<1> DEFINE a == Acquire(h, o)
           m == Lose(l, o)
<1>1. o \in ObjectIds /\ DOMAIN h \subseteq ObjectIds
  BY DEF Heap
<1>2. /\ m[o] = l[o] + 1 /\ l[o] \in Nat
      /\ \A p \in ObjectIds \ {o} : m[p] = l[p]
  BY <1>1, LoseType DEF Debts
<1>3. /\ DOMAIN a = DOMAIN h /\ a[o].refs = h[o].refs + 1
      /\ \A p \in DOMAIN h \ {o} : a[p] = h[p]
  BY AcquireHeap
<1>4. Cardinality(SlotsOf(t, o)) \in Nat
  BY SlotsFinite
<1> HIDE DEF a, m
<1>5. Counts(t, a, m)
  BY <1>1, <1>2, <1>3, <1>4 DEF Counts
<1> QED BY <1>5 DEF a, m

(* A new object comes with one reference.                                  *)
LEMMA AllocCounts ==
  ASSUME NEW t, Table(t), NEW h, Heap(h), NEW l \in Debts, Counts(t, h, l),
         NEW o \in ObjectIds \ DOMAIN h, NEW kind \in Kinds, NEW number \in Nat
  PROVE  Counts(t, Alloc(h, o, kind, number), Lose(l, o))
<1> DEFINE a == Alloc(h, o, kind, number)
           m == Lose(l, o)
<1>1. /\ DOMAIN a = DOMAIN h \cup {o} /\ a[o].refs = 1
      /\ \A p \in DOMAIN h \ {o} : a[p] = h[p]
  BY DEF Alloc
<1>2. /\ m[o] = l[o] + 1
      /\ \A p \in ObjectIds \ {o} : m[p] = l[p]
  BY LoseType
<1>3. l[o] = 0
  BY DEF Counts
<1>4. Cardinality(SlotsOf(t, o)) = 0
  <2>1. o # NoObject
    BY DEF ObjectIds, NoObject
  <2>2. SlotsOf(t, o) = {}
    BY <2>1 DEF Counts, SlotsOf, Occupied
  <2> QED BY <2>2, FS_EmptySet
<1>5. DOMAIN h \subseteq ObjectIds
  BY DEF Heap
<1> HIDE DEF a, m
<1>6. Counts(t, a, m)
  BY <1>1, <1>2, <1>3, <1>4, <1>5 DEF Counts
<1> QED BY <1>6 DEF a, m

(* A slot takes over a reference.                                          *)
LEMMA AttachCounts ==
  ASSUME NEW t, Table(t), NEW h, Heap(h), NEW l \in Debts, NEW o \in DOMAIN h,
         Counts(t, h, Lose(l, o)), NEW fd \in Slots(t) \ Occupied(t),
         NEW base \in SUBSET Rights, NEW inheriting \in SUBSET Rights
  PROVE  Counts(Attach(t, fd, o, base, inheriting), h, l)
<1> DEFINE a == Attach(t, fd, o, base, inheriting)
           m == Lose(l, o)
<1>1. o \in ObjectIds /\ DOMAIN h \subseteq ObjectIds
  BY DEF Heap
<1>2. /\ m[o] = l[o] + 1 /\ l[o] \in Nat
      /\ \A p \in ObjectIds \ {o} : m[p] = l[p]
  BY <1>1, LoseType DEF Debts
<1>3. /\ Occupied(a) = Occupied(t) \cup {fd}
      /\ Cardinality(SlotsOf(a, o)) = Cardinality(SlotsOf(t, o)) + 1
      /\ \A p \in ObjectIds \ {o} : SlotsOf(a, p) = SlotsOf(t, p)
  BY <1>1, AttachOccupied, AttachSlots
<1>4. /\ a.entries[fd].object = o
      /\ \A f \in Slots(t) \ {fd} : a.entries[f] = t.entries[f]
  BY <1>1, AttachTable
<1>5. Cardinality(SlotsOf(t, o)) \in Nat /\ Occupied(t) \subseteq Slots(t)
  BY SlotsFinite DEF Occupied
<1>6. Counts(t, h, m)
  OBVIOUS
<1> HIDE DEF a, m
<1>7. Counts(a, h, l)
  <2>1. \A f \in Occupied(a) : a.entries[f].object \in DOMAIN h
    BY <1>3, <1>4, <1>5, <1>6 DEF Counts
  <2>2. \A p \in DOMAIN h : h[p].refs = Cardinality(SlotsOf(a, p)) + l[p]
    BY <1>1, <1>2, <1>3, <1>5, <1>6 DEF Counts
  <2>3. \A p \in ObjectIds \ DOMAIN h : l[p] = 0
    BY <1>1, <1>2, <1>6 DEF Counts
  <2> QED BY <2>1, <2>2, <2>3 DEF Counts
<1> QED BY <1>7 DEF a

(* A slot is emptied and its reference is given back.                      *)
LEMMA CloseCounts ==
  ASSUME NEW t, Table(t), NEW h, Heap(h), NEW l \in Debts, Counts(t, h, l),
         NEW fd \in Occupied(t)
  PROVE  Counts(Detach(t, fd), Release(h, t.entries[fd].object), l)
<1> DEFINE o == t.entries[fd].object
           d == Detach(t, fd)
           r == Release(h, o)
<1>1. o \in DOMAIN h /\ DOMAIN h \subseteq ObjectIds
  BY DEF Counts, Heap
<1>2. /\ Occupied(d) = Occupied(t) \ {fd}
      /\ Cardinality(SlotsOf(d, o)) = Cardinality(SlotsOf(t, o)) - 1
      /\ \A p \in ObjectIds \ {o} : SlotsOf(d, p) = SlotsOf(t, p)
  BY DetachSlots
<1>3. \A f \in Slots(t) \ {fd} : d.entries[f] = t.entries[f]
  BY DetachTable DEF Occupied
<1>4. /\ DOMAIN r = IF h[o].refs = 1 THEN DOMAIN h \ {o} ELSE DOMAIN h
      /\ h[o].refs # 1 => r[o].refs = h[o].refs - 1
      /\ \A p \in DOMAIN h \ {o} : r[p] = h[p]
  BY <1>1, ReleaseHeap
<1>5. /\ Cardinality(SlotsOf(t, o)) \in Nat /\ Cardinality(SlotsOf(d, o)) \in Nat
      /\ Occupied(t) \subseteq Slots(t) /\ l[o] \in Nat
  BY <1>1, SlotsFinite, DetachTable DEF Occupied, Debts
<1>6. h[o].refs = Cardinality(SlotsOf(t, o)) + l[o]
  BY <1>1 DEF Counts
<1>7. \A f \in Occupied(d) : d.entries[f].object = t.entries[f].object
  BY <1>2, <1>3, <1>5
<1> HIDE DEF o, d, r
<1>8. h[o].refs = 1 => Cardinality(SlotsOf(d, o)) = 0 /\ l[o] = 0
  BY <1>2, <1>5, <1>6
<1>9. ASSUME NEW f \in Occupied(d)
      PROVE  d.entries[f].object \in DOMAIN r
  <2>1. t.entries[f].object \in DOMAIN h
    BY <1>2, <1>9 DEF Counts
  <2>2. CASE t.entries[f].object # o
    BY <1>4, <1>7, <1>9, <2>1, <2>2
  <2>3. CASE t.entries[f].object = o
    <3>1. f \in SlotsOf(d, o)
      BY <1>7, <1>9, <2>3 DEF SlotsOf, Occupied
    <3>2. Cardinality(SlotsOf(d, o)) # 0
      <4>1. IsFiniteSet(SlotsOf(d, o))
        BY SlotsFinite, DetachTable DEF d, Occupied
      <4> QED BY <3>1, <4>1, FS_EmptySet
    <3> QED BY <1>1, <1>4, <1>7, <1>8, <1>9, <2>3, <3>2
  <2> QED BY <2>2, <2>3
<1>10. \A p \in DOMAIN r : r[p].refs = Cardinality(SlotsOf(d, p)) + l[p]
  BY <1>1, <1>2, <1>4, <1>5, <1>6 DEF Counts
<1>11. \A p \in ObjectIds \ DOMAIN r : l[p] = 0
  BY <1>1, <1>4, <1>8 DEF Counts
<1>12. Counts(d, r, l)
  BY <1>9, <1>10, <1>11 DEF Counts
<1> QED BY <1>12 DEF o, d, r


(* Tables whose slots name the same objects have the same counts.          *)
LEMMA SameCounts ==
  ASSUME NEW t, NEW u, Slots(u) = Slots(t),
         \A fd \in Slots(t) : u.entries[fd].object = t.entries[fd].object,
         NEW h, NEW l, Counts(t, h, l)
  PROVE  Occupied(u) = Occupied(t) /\ Counts(u, h, l)
<1>1. Occupied(u) = Occupied(t) /\ Occupied(t) \subseteq Slots(t)
  BY DEF Occupied
<1>2. ASSUME NEW o
      PROVE  SlotsOf(u, o) = SlotsOf(t, o)
  BY DEF SlotsOf
<1>3. \A fd \in Occupied(u) : u.entries[fd].object \in DOMAIN h
  BY <1>1 DEF Counts
<1>4. \A o \in DOMAIN h : h[o].refs = Cardinality(SlotsOf(u, o)) + l[o]
  BY <1>2 DEF Counts
<1> QED BY <1>1, <1>3, <1>4 DEF Counts

----------------------------------------------------------------------------
(* Lemmas about the choices of malloc and open *)

LEMMA NewObjectFresh ==
  ASSUME Heap(heap), DOMAIN heap # ObjectIds
  PROVE  NewObject \in ObjectIds \ DOMAIN heap
  BY DEF NewObject, Heap

LEMMA UnusedFresh ==
  ASSUME IsFiniteSet(host), NEW n \in Nat
  PROVE  /\ Unused(n) \subseteq Nat \ host
         /\ \A d \in SUBSET Unused(n) : IsFiniteSet(host \cup d)
<1> DEFINE k == Cardinality(host) + n + 2
<1>1. k \in Int /\ 0 \in Int
  BY FS_CardinalityType
<1> HIDE DEF k
<1>2. IsFiniteSet(0 .. k) /\ 0 .. k \subseteq Nat
  BY <1>1, FS_Interval
<1>3. Unused(n) \subseteq (0 .. k) \ host
  BY DEF Unused, k
<1>4. ASSUME NEW d \in SUBSET Unused(n) PROVE IsFiniteSet(host \cup d)
  <2>1. d \in SUBSET (0 .. k)
    BY <1>3
  <2>2. IsFiniteSet(d)
    BY <1>2, <2>1, FS_Subset
  <2> QED BY <2>2, FS_Union
<1> QED BY <1>2, <1>3, <1>4

LEMMA UnusedNat == IInv => Unused(1) \subseteq Nat
  BY UnusedFresh DEF IInv, Rest

(* A new object in a free slot of the table that has grown.                *)
LEMMA InsertKeeps ==
  ASSUME IInv, DOMAIN heap # ObjectIds, NEW min \in Nat,
         Fitting(ft, min, 1) # {},
         NEW fd \in Slots(Grow(ft, min, 1)) \ Occupied(ft),
         NEW kind \in Kinds, NEW number \in Nat,
         NEW base \in SUBSET Rights, NEW inheriting \in SUBSET Rights
  PROVE  LET a == Attach(Grow(ft, min, 1), fd, NewObject, base, inheriting)
             h == Alloc(heap, NewObject, kind, number)
         IN /\ Table(a) /\ Heap(h) /\ Counts(a, h, lost)
            /\ Occupied(a) = Occupied(ft) \cup {fd}
<1> DEFINE g == Grow(ft, min, 1)
           o == NewObject
           h == Alloc(heap, o, kind, number)
<1>1. /\ Table(ft) /\ Heap(heap) /\ lost \in Debts
      /\ Counts(ft, heap, lost) /\ 1 \in Nat
  BY DEF IInv, Rest
<1>2. o \in ObjectIds \ DOMAIN heap /\ o \in ObjectIds
  BY <1>1, NewObjectFresh
<1>3. Table(g) /\ Occupied(g) = Occupied(ft) /\ Counts(g, heap, lost)
  BY <1>1, GrowTable, GrowKeeps, GrowCounts
<1> HIDE DEF g, o
<1>4. Heap(h) /\ o \in DOMAIN h
  BY <1>1, <1>2, AllocHeap
<1>5. Counts(g, h, Lose(lost, o))
  BY <1>1, <1>2, <1>3, AllocCounts
<1>6. fd \in Slots(g) \ Occupied(g) /\ fd \in Slots(g)
  BY <1>3 DEF g
<1> HIDE DEF h
<1>7. Counts(Attach(g, fd, o, base, inheriting), h, lost)
  BY <1>1, <1>3, <1>4, <1>5, <1>6, AttachCounts
<1>8. Table(Attach(g, fd, o, base, inheriting))
  BY <1>2, <1>3, <1>6, AttachTable
<1>9. Occupied(Attach(g, fd, o, base, inheriting)) = Occupied(g) \cup {fd}
  BY <1>2, <1>3, <1>6, AttachOccupied
<1> QED BY <1>3, <1>4, <1>7, <1>8, <1>9 DEF g, o, h

LEMMA MaxBaseType ==
  ASSUME NEW kind \in Kinds, NEW mode
  PROVE  /\ MaxBase(kind, mode) \in SUBSET Rights
         /\ RightsInheriting[kind] \in SUBSET Rights
  BY FdTableAssumption DEF MaxBase

----------------------------------------------------------------------------
(* The invariant implies the properties, and holds initially *)

LEMMA Implied == IInv => TypeOK /\ RefsExact
<1> SUFFICES ASSUME IInv PROVE TypeOK /\ RefsExact
  OBVIOUS
<1>1. TypeOK
  BY DEF IInv, Rest, Table, Heap, Debts, TypeOK
<1>2. RefsExact
  BY DEF IInv, Counts, RefsExact
<1> QED BY <1>1, <1>2

LEMMA InitInv == Init => IInv
<1> SUFFICES ASSUME Init PROVE IInv
  OBVIOUS
<1>1. Table(ft) /\ Occupied(ft) = {}
  BY EmptyTable DEF Init, Empty
<1>2. DOMAIN heap = {} /\ Heap(heap)
  BY DEF Init, Heap
<1>3. lost \in Debts /\ \A o \in ObjectIds : lost[o] = 0
  BY DEF Init, Debts
<1>4. Counts(ft, heap, lost)
  BY <1>1, <1>2, <1>3 DEF Counts
<1>5. Rest
  <2>1. host = 0 .. 2
    BY DEF Init, Std
  <2>2. IsFiniteSet(0 .. 2)
    <3>1. 0 \in Int /\ 2 \in Int
      OBVIOUS
    <3> QED BY <3>1, FS_Interval, Zenon
  <2> QED BY <1>3, <2>1, <2>2, FdTableAssumption DEF Init, Rest
<1>6. NextFree
  BY <1>1 DEF NextFree
<1> QED BY <1>1, <1>2, <1>4, <1>5, <1>6 DEF IInv


(* The slot that wasi_init fills next.                                     *)
LEMMA NextSlotFree ==
  ASSUME IInv, status = "init", next \in Nat, Fitting(ft, next, 1) # {}
  PROVE  next \in Slots(Grow(ft, next, 1)) \ Occupied(ft)
<1>1. next < Grow(ft, next, 1).size /\ Table(Grow(ft, next, 1))
  BY GrowTable DEF IInv
<1>2. next \in Slots(Grow(ft, next, 1))
  BY <1>1 DEF Slots, Table
<1>3. next \notin Occupied(ft)
  BY DEF IInv, NextFree
<1> QED BY <1>2, <1>3


----------------------------------------------------------------------------
(* Each action keeps the invariant *)

LEMMA InsertStdInv == IInv /\ InsertStd => IInv'
<1> SUFFICES ASSUME IInv, InsertStd PROVE IInv'
  OBVIOUS
<1>1. PICK kind \in StdKinds[next], mode \in StdModes :
        InsertExisting(next, kind, mode, next)
  BY DEF InsertStd
<1>2. /\ kind \in Kinds /\ next \in Nat /\ next \in 0 .. 2
      /\ MaxBase(kind, mode) \in SUBSET Rights
      /\ RightsInheriting[kind] \in SUBSET Rights
  BY MaxBaseType, FdTableAssumption DEF InsertStd, Std
<1>3. next \in Slots(Grow(ft, next, 1)) \ Occupied(ft)
  BY <1>1, <1>2, NextSlotFree DEF InsertStd, InsertExisting
<1>4. /\ Table(ft') /\ Heap(heap') /\ Counts(ft', heap', lost)
      /\ Occupied(ft') = Occupied(ft) \cup {next}
  BY <1>1, <1>2, <1>3, InsertKeeps DEF InsertExisting
<1>5. Rest'
  BY <1>2, FdTableAssumption DEF IInv, Rest, InsertStd
<1>6. NextFree'
  <2>1. \A fd \in Occupied(ft) : fd < next /\ fd \in Int
    BY DEF IInv, NextFree, InsertStd, Occupied, Slots
  <2>2. Occupied(ft)' = Occupied(ft')
    BY DEF Occupied, Slots
  <2> QED BY <1>2, <1>4, <2>1, <2>2 DEF NextFree, InsertStd
<1>7. lost' = lost
  BY DEF InsertStd
<1> QED BY <1>4, <1>5, <1>6, <1>7 DEF IInv

LEMMA InsertPreopenInv == IInv /\ InsertPreopen => IInv'
<1> SUFFICES ASSUME IInv, InsertPreopen PROVE IInv'
  OBVIOUS
<1>1. /\ next \in Nat /\ next \in 3 .. 2 + Preopens
      /\ \A fd \in Occupied(ft) : fd < next /\ fd \in Int
      /\ next' = next + 1 /\ lost' = lost /\ status' = status
      /\ status = "init"
  BY DEF IInv, Rest, NextFree, InsertPreopen, Occupied, Slots
<1>2. ASSUME host' \subseteq Nat, IsFiniteSet(host'), strays' \subseteq Nat
      PROVE  Rest'
  <2>1. prestats' \subseteq 3 .. 2 + Preopens
    BY <1>1 DEF IInv, Rest, InsertPreopen
  <2>2. next' \in 0 .. 3 + Preopens
    BY <1>1, FdTableAssumption
  <2>3. UNCHANGED <<opens, renumbers>>
    BY DEF InsertPreopen
  <2> QED BY <1>1, <1>2, <2>1, <2>2, <2>3 DEF IInv, Rest
<1>3. CASE UNCHANGED <<ft, heap, host, strays>>
  BY <1>1, <1>2, <1>3 DEF IInv, NextFree, Rest
<1>4. ASSUME NEW number \in Unused(1), host' = host \cup {number},
             \/ /\ InsertExisting(next, Directory, "RDONLY", number)
                /\ UNCHANGED strays
             \/ /\ strays' = strays \cup {number}
                /\ UNCHANGED <<ft, heap>>
      PROVE  IInv'
  <2>1. number \in Nat /\ IsFiniteSet(host')
    <3>1. {number} \in SUBSET Unused(1) /\ IsFiniteSet(host)
      BY <1>4 DEF IInv, Rest
    <3> QED BY <1>4, <3>1, UnusedFresh
  <2>2. Rest'
    BY <1>2, <1>4, <2>1 DEF IInv, Rest
  <2>3. CASE InsertExisting(next, Directory, "RDONLY", number)
    <3>1. /\ Directory \in Kinds
          /\ MaxBase(Directory, "RDONLY") \in SUBSET Rights
          /\ RightsInheriting[Directory] \in SUBSET Rights
      BY MaxBaseType, FdTableAssumption
    <3>2. next \in Slots(Grow(ft, next, 1)) \ Occupied(ft)
      BY <1>1, <2>3, NextSlotFree DEF InsertExisting
    <3>3. /\ Table(ft') /\ Heap(heap') /\ Counts(ft', heap', lost)
          /\ Occupied(ft') = Occupied(ft) \cup {next}
      BY <1>1, <2>1, <2>3, <3>1, <3>2, InsertKeeps DEF InsertExisting
    <3>4. NextFree'
      <4>1. Occupied(ft)' = Occupied(ft')
        BY DEF Occupied, Slots
      <4> QED BY <1>1, <3>3, <4>1 DEF NextFree
    <3> QED BY <1>1, <2>2, <3>3, <3>4 DEF IInv
  <2>4. CASE UNCHANGED <<ft, heap>>
    BY <1>1, <2>2, <2>4 DEF IInv, NextFree
  <2> QED BY <1>4, <2>3, <2>4
<1> QED BY <1>3, <1>4 DEF InsertPreopen

LEMMA InitDoneInv == IInv /\ InitDone => IInv'
  BY DEF IInv, Rest, NextFree, InitDone

LEMMA InitFailInv == IInv /\ InitFail => IInv'
<1> SUFFICES ASSUME IInv, InitFail PROVE IInv'
  OBVIOUS
<1> DEFINE C(o) == Cardinality(SlotsOf(ft, o))
           kept == {o \in DOMAIN heap : heap[o].refs > C(o)}
<1>1. /\ Table(ft) /\ Heap(heap) /\ Counts(ft, heap, lost)
      /\ \A o \in DOMAIN heap : C(o) \in Nat
  BY SlotsFinite DEF IInv
<1>2. Table(ft') /\ Occupied(ft') = {} /\ \A o : SlotsOf(ft', o) = {}
  BY EmptyTable DEF InitFail, Empty
<1>3. heap' = [o \in kept |-> [heap[o] EXCEPT !.refs = @ - C(o)]]
  BY DEF InitFail
<1> HIDE DEF C
<1>4. /\ DOMAIN heap' = kept
      /\ \A o \in kept : heap'[o] \in FdObject /\ heap'[o].refs = heap[o].refs - C(o)
  BY <1>1, <1>3 DEF Heap, FdObject
<1>5. Heap(heap')
  BY <1>1, <1>3, <1>4 DEF Heap
<1>6. Counts(ft', heap', lost)
  <2>1. \A o \in DOMAIN heap : heap[o].refs = C(o) + lost[o] /\ lost[o] \in Nat
    BY <1>1 DEF Counts, C, IInv, Rest, Debts, Heap
  <2>2. \A o \in kept : heap'[o].refs = 0 + lost[o]
    BY <1>1, <1>4, <2>1
  <2>3. \A o \in ObjectIds \ kept : lost[o] = 0
    BY <1>1, <2>1 DEF Counts
  <2>4. Cardinality({}) = 0
    BY FS_EmptySet
  <2> QED BY <1>2, <1>4, <2>2, <2>3, <2>4 DEF Counts
<1>7. Rest'
  <2>1. host' \in SUBSET host
    BY DEF InitFail
  <2>2. IsFiniteSet(host')
    BY <2>1, FS_Subset DEF IInv, Rest
  <2> QED BY <2>1, <2>2 DEF IInv, Rest, InitFail
<1> QED BY <1>2, <1>5, <1>6, <1>7 DEF IInv, NextFree, InitFail

LEMMA CloseInv == ASSUME NEW fd PROVE IInv /\ Close(fd) => IInv'
<1> SUFFICES ASSUME IInv, Close(fd) PROVE IInv'
  OBVIOUS
<1>1. /\ Table(ft) /\ Heap(heap) /\ Counts(ft, heap, lost) /\ lost \in Debts
      /\ fd \in Occupied(ft) /\ fd \in Slots(ft)
      /\ ft.entries[fd].object \in DOMAIN heap
  BY DEF IInv, Rest, Close, Occupied, Counts
<1>2. /\ ft' = Detach(ft, fd) /\ heap' = Release(heap, ft.entries[fd].object)
      /\ lost' = lost /\ status' = "up"
  BY DEF Close
<1>3. Table(ft') /\ Heap(heap') /\ Counts(ft', heap', lost)
  BY <1>1, <1>2, DetachTable, ReleaseHeap, CloseCounts
<1>4. Rest'
  <2>1. host' \in SUBSET host
    BY DEF Close
  <2>2. IsFiniteSet(host')
    BY <2>1, FS_Subset DEF IInv, Rest
  <2> QED BY <2>1, <2>2 DEF IInv, Rest, Close
<1> QED BY <1>2, <1>3, <1>4 DEF IInv, NextFree


(* fd_renumber takes a reference, gives one back, moves the slot and gives *)
(* the other back: the pairs of table and objects in between are exact.    *)
LEMMA MovedKeeps ==
  ASSUME IInv, NEW from \in Occupied(ft), NEW to \in Occupied(ft), from # to
  PROVE  /\ Table(Moved(from, to)) /\ Heap(MovedHeap(from, to))
         /\ Counts(Moved(from, to), MovedHeap(from, to), lost)
<1> DEFINE e == ft.entries[from]
           o == e.object
           p == ft.entries[to].object
           h1 == Acquire(heap, o)
           h2 == Release(h1, p)
           h3 == Release(h2, o)
           t1 == Detach(ft, to)
           t2 == Attach(t1, to, o, e.base, e.inheriting)
           t3 == Detach(t2, from)
           m == Lose(lost, o)
<1>1. /\ Table(ft) /\ Heap(heap) /\ Counts(ft, heap, lost) /\ lost \in Debts
      /\ from \in Slots(ft) /\ to \in Slots(ft)
      /\ o \in DOMAIN heap /\ p \in DOMAIN heap
  BY DEF IInv, Rest, Occupied, Counts
<1>2. o \in ObjectIds /\ e.base \in SUBSET Rights /\ e.inheriting \in SUBSET Rights
  <2>1. e \in Entry
    BY <1>1 DEF Table
  <2>2. o \in ObjectIds
    BY <1>1 DEF Heap
  <2> QED BY <2>1, <2>2 DEF Entry
<1>3. /\ m \in Debts /\ m[o] = lost[o] + 1 /\ lost[o] \in Nat
  BY <1>1, <1>2, LoseType DEF Debts
<1>4. /\ Heap(h1) /\ DOMAIN h1 = DOMAIN heap
  BY <1>1, AcquireHeap
<1>5. Counts(ft, h1, m)
  BY <1>1, AcquireCounts
<1>6. /\ Table(t1) /\ Slots(t1) = Slots(ft) /\ t1.entries[from] = e
      /\ to \notin Occupied(t1) /\ from \in Occupied(t1)
  <2>1. Table(t1) /\ t1.size = ft.size /\ t1.entries[from] = e
    BY <1>1, DetachTable
  <2>2. Occupied(t1) = Occupied(ft) \ {to}
    BY <1>1, DetachSlots
  <2>3. Slots(t1) = Slots(ft)
    BY <2>1 DEF Slots
  <2> QED BY <2>1, <2>2, <2>3
<1>7. Heap(h2)
  BY <1>1, <1>4, ReleaseHeap
<1> HIDE DEF m, h1
<1>8. Counts(t1, h2, m)
  BY <1>1, <1>3, <1>4, <1>5, CloseCounts
<1> HIDE DEF t1, h2, e
<1>9. o \in DOMAIN h2
  BY <1>2, <1>3, <1>8 DEF Counts
<1>10. Counts(t2, h2, lost)
  BY <1>1, <1>2, <1>6, <1>7, <1>8, <1>9, AttachCounts DEF m
<1>11. /\ Table(t2) /\ Slots(t2) = Slots(ft) /\ t2.entries[from] = e
       /\ from \in Occupied(t2)
  <2>0. to \in Slots(t1) /\ from \in Slots(t1) \ {to}
    BY <1>1, <1>6
  <2>1. Table(t2) /\ t2.size = t1.size /\ t2.entries[from] = t1.entries[from]
    <3>1. e.base \in SUBSET Rights /\ e.inheriting \in SUBSET Rights
      BY <1>2
    <3>2. Table(t2)
      BY <1>2, <1>6, <2>0, <3>1, AttachTable
    <3>3. t2.size = t1.size /\ t2.entries[from] = t1.entries[from]
      BY <1>6, <2>0 DEF Attach, Table
    <3> QED BY <3>2, <3>3
  <2>2. Occupied(t2) = Occupied(t1) \cup {to}
    BY <1>1, <1>2, <1>6, AttachOccupied
  <2>3. Slots(t2) = Slots(t1)
    BY <2>1 DEF Slots
  <2> QED BY <1>6, <2>1, <2>2, <2>3
<1> HIDE DEF t2
<1>12. Heap(h3)
  BY <1>7, <1>9, ReleaseHeap
<1>13. Counts(t3, h3, lost)
  BY <1>1, <1>7, <1>10, <1>11, CloseCounts
<1>14. Table(t3)
  BY <1>1, <1>11, DetachTable
<1> HIDE DEF t3
<1> DEFINE u == [entries |-> t3.entries, size |-> t3.size,
                 used |-> Wrap(t3.used + SizeT - 1)]
<1>15. Table(u) /\ Slots(u) = Slots(t3) /\ u.entries = t3.entries
  <2>1. Wrap(t3.used + SizeT - 1) \in 0 .. SizeT - 1
    BY <1>14, WrapType, FdTableAssumption DEF Table
  <2> QED BY <1>14, <2>1 DEF Table, Slots
<1>16. Counts(u, h3, lost)
  BY <1>13, <1>15, SameCounts
<1>17. Moved(from, to) = u
  BY DEF Moved, t3, t2, t1, e
<1>18. MovedHeap(from, to) = h3
  BY DEF MovedHeap, h2, h1, e
<1> QED BY <1>12, <1>15, <1>16, <1>17, <1>18

LEMMA RenumberInv == ASSUME NEW from, NEW to PROVE IInv /\ Renumber(from, to) => IInv'
<1> SUFFICES ASSUME IInv, Renumber(from, to) PROVE IInv'
  OBVIOUS
<1>1. from \in Occupied(ft) /\ to \in Occupied(ft)
  BY DEF Renumber
<1>2. CASE from # to
  <2>1. Table(ft') /\ Heap(heap') /\ Counts(ft', heap', lost)
    BY <1>1, <1>2, MovedKeeps DEF Renumber
  <2>2. host' \in SUBSET host
    BY <1>2 DEF Renumber
  <2>3. IsFiniteSet(host')
    BY <2>2, FS_Subset DEF IInv, Rest
  <2>4. Rest'
    BY <1>2, <2>2, <2>3, FdTableAssumption DEF IInv, Rest, Renumber
  <2> QED BY <1>2, <2>1, <2>4 DEF IInv, NextFree, Renumber
<1>3. CASE from = to
  BY <1>3 DEF IInv, Rest, NextFree, Renumber
<1> QED BY <1>2, <1>3

LEMMA SetRightsInv ==
  ASSUME NEW fd, NEW base, NEW inheriting
  PROVE  IInv /\ SetRights(fd, base, inheriting) => IInv'
<1> SUFFICES ASSUME IInv, SetRights(fd, base, inheriting) PROVE IInv'
  OBVIOUS
<1>1. /\ Table(ft) /\ fd \in Slots(ft) /\ ft.entries[fd] \in Entry
      /\ base \subseteq ft.entries[fd].base
      /\ inheriting \subseteq ft.entries[fd].inheriting
  BY DEF IInv, SetRights, Has, Occupied, Table
<1> DEFINE e == [object |-> ft.entries[fd].object, base |-> base,
                 inheriting |-> inheriting]
<1>2. e \in Entry /\ e.object = ft.entries[fd].object
  BY <1>1 DEF Entry
<1>3. ft' = [entries |-> [ft.entries EXCEPT ![fd] = e], size |-> ft.size,
             used |-> ft.used]
  BY DEF SetRights, Assigned
<1> HIDE DEF e
<1>4. /\ Table(ft') /\ Slots(ft') = Slots(ft)
      /\ \A f \in Slots(ft) : ft'.entries[f].object = ft.entries[f].object
  BY <1>1, <1>2, <1>3 DEF Table, Slots
<1>5. Counts(ft', heap, lost)
  BY <1>4, SameCounts DEF IInv
<1>6. heap' = heap /\ lost' = lost /\ status' = "up"
  BY DEF SetRights
<1>7. Rest'
  BY DEF IInv, Rest, SetRights
<1> QED BY <1>4, <1>5, <1>6, <1>7 DEF IInv, NextFree

(* What path_open, sock_open and sock_accept have in common.               *)
LEMMA InsertFdInv ==
  ASSUME NEW kind \in Kinds, NEW base \in SUBSET Rights,
         NEW inheriting \in SUBSET Rights
  PROVE  IInv /\ status = "up" /\ InsertFd(kind, base, inheriting) => IInv'
<1> SUFFICES ASSUME IInv, status = "up", InsertFd(kind, base, inheriting)
             PROVE  IInv'
  OBVIOUS
<1>1. lost' = lost /\ UNCHANGED <<next, prestats, renumbers>>
  BY DEF InsertFd
<1>2. IsFiniteSet(host) /\ 1 \in Nat
  BY DEF IInv, Rest
<1>3. ASSUME UNCHANGED <<ft, heap, opens>>, status' \in {"up", "hung"},
             host' \subseteq Nat, IsFiniteSet(host'), strays' \subseteq Nat
      PROVE  IInv'
  BY <1>1, <1>3 DEF IInv, Rest, NextFree
<1>4. CASE UNCHANGED <<ft, heap, host, strays, opens>> /\ status' = "hung"
  BY <1>3, <1>4 DEF IInv, Rest
<1>5. ASSUME NEW number \in Unused(1), InsertFailed(number), UNCHANGED opens
      PROVE  IInv'
  <2>1. number \in Nat /\ IsFiniteSet(host \cup {number})
    <3>1. {number} \in SUBSET Unused(1)
      BY <1>5
    <3> QED BY <1>2, <3>1, UnusedFresh
  <2> QED BY <1>3, <1>5, <2>1 DEF IInv, Rest, InsertFailed
<1>6. ASSUME NEW number \in Unused(1),
             Insertable(ft), DOMAIN heap # ObjectIds,
             \E fd \in Slots(Grow(ft, 0, 1)) \ Occupied(Grow(ft, 0, 1)) :
               ft' = Attach(Grow(ft, 0, 1), fd, NewObject, base, inheriting),
             heap' = Alloc(heap, NewObject, kind, number),
             host' = host \cup {number},
             opens' = opens + 1,
             UNCHANGED <<status, strays>>
      PROVE  IInv'
  <2>1. PICK fd \in Slots(Grow(ft, 0, 1)) \ Occupied(Grow(ft, 0, 1)) :
          ft' = Attach(Grow(ft, 0, 1), fd, NewObject, base, inheriting)
    BY <1>6
  <2>2. number \in Nat /\ IsFiniteSet(host \cup {number})
    <3>1. {number} \in SUBSET Unused(1)
      BY <1>6
    <3> QED BY <1>2, <3>1, UnusedFresh
  <2>3. Fitting(ft, 0, 1) # {} /\ 0 \in Nat
    BY <1>6 DEF Insertable
  <2>4. fd \in Slots(Grow(ft, 0, 1)) \ Occupied(ft)
    BY <1>2, <2>1, <2>3, GrowKeeps DEF IInv
  <2>5. Table(ft') /\ Heap(heap') /\ Counts(ft', heap', lost)
    BY <1>6, <2>1, <2>2, <2>3, <2>4, InsertKeeps
  <2>6. Rest'
    <3>1. opens' \in 0 .. MaxOpens
      BY <1>6, FdTableAssumption DEF IInv, Rest, InsertFd
    <3> QED BY <1>1, <1>6, <2>2, <3>1 DEF IInv, Rest
  <2> QED BY <1>1, <1>6, <2>5, <2>6 DEF IInv, NextFree
<1> QED BY <1>4, <1>5, <1>6 DEF InsertFd

LEMMA PathOpenInv ==
  ASSUME NEW dir, NEW base, NEW inheriting, NEW flags
  PROVE  IInv /\ PathOpen(dir, base, inheriting, flags) => IInv'
<1> SUFFICES ASSUME IInv, PathOpen(dir, base, inheriting, flags) PROVE IInv'
  OBVIOUS
<1>1. PICK kind \in Kinds : InsertFd(kind, OpenedBase(kind, base),
                                     inheriting \cap RightsInheriting[kind])
  BY DEF PathOpen
<1>2. OpenedBase(kind, base) \in SUBSET Rights
  BY MaxBaseType DEF OpenedBase
<1>3. inheriting \cap RightsInheriting[kind] \in SUBSET Rights
  BY MaxBaseType
<1> QED BY <1>1, <1>2, <1>3, InsertFdInv DEF PathOpen

LEMMA SockOpenInv == IInv /\ SockOpen => IInv'
<1> SUFFICES ASSUME IInv, SockOpen PROVE IInv'
  OBVIOUS
<1>1. PICK kind \in SocketKinds :
        InsertFd(kind, MaxBase(kind, "RDWR"), RightsInheriting[kind])
  BY DEF SockOpen
<1>2. kind \in Kinds
  BY FdTableAssumption
<1> QED BY <1>1, <1>2, MaxBaseType, InsertFdInv DEF SockOpen

LEMMA SockAcceptInv == ASSUME NEW fd PROVE IInv /\ SockAccept(fd) => IInv'
<1> SUFFICES ASSUME IInv, SockAccept(fd) PROVE IInv'
  OBVIOUS
<1>1. PICK kind \in SocketKinds :
        InsertFd(kind, MaxBase(kind, "RDWR"), RightsInheriting[kind])
  BY DEF SockAccept
<1>2. kind \in Kinds
  BY FdTableAssumption
<1> QED BY <1>1, <1>2, MaxBaseType, InsertFdInv DEF SockAccept

LEMMA FdReaddirInv == ASSUME NEW fd PROVE IInv /\ FdReaddir(fd) => IInv'
<1> SUFFICES ASSUME IInv, FdReaddir(fd) PROVE IInv'
  OBVIOUS
<1> DEFINE o == ft.entries[fd].object
<1>1. o \in DOMAIN heap /\ Heap(heap)
  BY DEF IInv, Counts, FdReaddir, Has
<1>2. Rest' /\ Table(ft') /\ NextFree'
  BY DEF IInv, Rest, Table, NextFree, FdReaddir, Occupied, Slots
<1>3. UNCHANGED <<ft, lost>>
  BY DEF FdReaddir
<1>4. CASE heap' = [heap EXCEPT ![o].handle = TRUE]
  <2>1. /\ DOMAIN heap' = DOMAIN heap /\ Heap(heap')
        /\ \A p \in DOMAIN heap : heap'[p].refs = heap[p].refs
    BY <1>1, <1>4 DEF Heap, FdObject
  <2> QED BY <1>2, <1>3, <2>1 DEF IInv, Counts
<1>5. CASE UNCHANGED heap
  BY <1>2, <1>3, <1>5 DEF IInv
<1> QED BY <1>4, <1>5 DEF FdReaddir

(* The directories of leases that are lost.                                *)
LEMMA LeasesInv ==
  ASSUME IInv, NEW n \in Nat, LoseLeases(n)
  PROVE  host' \subseteq Nat /\ IsFiniteSet(host') /\ strays' \subseteq Nat
<1>1. PICK d \in SUBSET Unused(n) : host' = host \cup d /\ strays' = strays \cup d
  BY DEF LoseLeases
<1> QED BY <1>1, UnusedFresh DEF IInv, Rest

(* One reference that is never given back.                                 *)
LEMMA LoseKeeps ==
  ASSUME Table(ft), NEW h, Heap(h), NEW l \in Debts, Counts(ft, h, l),
         NEW o \in DOMAIN h
  PROVE  /\ Heap(Acquire(h, o)) /\ DOMAIN Acquire(h, o) = DOMAIN h
         /\ Lose(l, o) \in Debts /\ Counts(ft, Acquire(h, o), Lose(l, o))
<1>1. o \in ObjectIds
  BY DEF Heap
<1> QED BY <1>1, AcquireHeap, AcquireCounts, LoseType

LEMMA PathLinkInv ==
  ASSUME NEW old, NEW new PROVE IInv /\ PathLinkRefused(old, new) => IInv'
<1> SUFFICES ASSUME IInv, PathLinkRefused(old, new) PROVE IInv'
  OBVIOUS
<1> DEFINE o == ft.entries[old].object
           n == ft.entries[new].object
           h == Acquire(heap, o)
           l == Lose(lost, o)
<1>1. /\ Table(ft) /\ Heap(heap) /\ Counts(ft, heap, lost) /\ lost \in Debts
      /\ o \in DOMAIN heap /\ n \in DOMAIN heap
  BY DEF IInv, Rest, PathLinkRefused, Has, Counts
<1>2. heap' = Acquire(h, n) /\ lost' = Lose(l, n) /\ ft' = ft
  BY DEF PathLinkRefused
<1> HIDE DEF o, n
<1>3. Heap(h) /\ DOMAIN h = DOMAIN heap /\ l \in Debts /\ Counts(ft, h, l)
  BY <1>1, LoseKeeps
<1> HIDE DEF h, l
<1>4. Heap(heap') /\ lost' \in Debts /\ Counts(ft', heap', lost')
  BY <1>1, <1>2, <1>3, LoseKeeps
<1>5. host' \subseteq Nat /\ IsFiniteSet(host') /\ strays' \subseteq Nat
  BY LeasesInv DEF PathLinkRefused
<1> QED BY <1>1, <1>2, <1>4, <1>5 DEF IInv, Rest, NextFree, PathLinkRefused, Occupied, Slots

LEMMA PathSymlinkInv ==
  ASSUME NEW fd PROVE IInv /\ PathSymlinkRefused(fd) => IInv'
<1> SUFFICES ASSUME IInv, PathSymlinkRefused(fd) PROVE IInv'
  OBVIOUS
<1> DEFINE o == ft.entries[fd].object
<1>1. /\ Table(ft) /\ Heap(heap) /\ Counts(ft, heap, lost) /\ lost \in Debts
      /\ o \in DOMAIN heap
  BY DEF IInv, Rest, PathSymlinkRefused, Has, Counts
<1>2. heap' = Acquire(heap, o) /\ lost' = Lose(lost, o) /\ ft' = ft
  BY DEF PathSymlinkRefused
<1> HIDE DEF o
<1>3. Heap(heap') /\ lost' \in Debts /\ Counts(ft', heap', lost')
  BY <1>1, <1>2, LoseKeeps
<1>4. host' \subseteq Nat /\ IsFiniteSet(host') /\ strays' \subseteq Nat
  BY LeasesInv DEF PathSymlinkRefused
<1> QED BY <1>1, <1>2, <1>3, <1>4 DEF IInv, Rest, NextFree, PathSymlinkRefused, Occupied, Slots

----------------------------------------------------------------------------
(* The theorems *)

LEMMA NextInv == IInv /\ [Next]_vars => IInv'
<1> SUFFICES ASSUME IInv, [Next]_vars PROVE IInv'
  OBVIOUS
<1>1. CASE Setup
  BY <1>1, InsertStdInv, InsertPreopenInv, InitDoneInv, InitFailInv DEF Setup
<1>2. CASE Call
  BY <1>2, CloseInv, RenumberInv, SetRightsInv, PathOpenInv, SockOpenInv,
     SockAcceptInv, FdReaddirInv, PathLinkInv, PathSymlinkInv DEF Call
<1>3. CASE UNCHANGED vars
  BY <1>3 DEF vars, IInv, Rest, NextFree, Occupied, Slots
<1> QED BY <1>1, <1>2, <1>3 DEF Next

(* Every state of the descriptor table is well-formed: the sizes and the   *)
(* counter stay within size_t, and no allocated object lacks a reference   *)
(* (fd_table_grow, fd_object_release).                                     *)
THEOREM TypeCorrect == Spec => []TypeOK
  BY InitInv, NextInv, Implied, PTL DEF Spec

(* However many calls of whatever arguments a program makes, the count of  *)
(* each object is the number of slots that name it and of the references   *)
(* lost on error paths, and no slot names an object that was freed         *)
(* (fd_object_get, fd_object_release, fd_renumber).                        *)
THEOREM ExactCounts == Spec => []RefsExact
  BY InitInv, NextInv, Implied, PTL DEF Spec

----------------------------------------------------------------------------
(* What the slots of the table stand for *)


\* What an object keeps as long as it is allocated.
Same(h, g) ==
  \A o \in DOMAIN h : /\ h[o].number = g[o].number
                      /\ h[o].kind = g[o].kind
                      /\ h[o].handle = g[o].handle

\* Only a directory is listed, and the object of a standard descriptor is a
\* directory only where the process may have been given one.
Listed ==
  \A o \in DOMAIN heap :
    /\ heap[o].handle => heap[o].kind = Directory
    /\ heap[o].number \in Std /\ heap[o].kind = Directory
         => Directory \in StdKinds[heap[o].number]

\* Until wasi_init is done the standard descriptors are open, and none that
\* it has not inserted yet is owned or lost.
Reserved ==
  status = "init" =>
    /\ Std \subseteq host /\ strays \cap Std = {}
    /\ \A o \in DOMAIN heap : /\ ~heap[o].handle
                              /\ heap[o].number \in Std => heap[o].number < next

HInv == IInv /\ HostOwned /\ Listed /\ Reserved

----------------------------------------------------------------------------
(* Objects and their numbers *)

(* Whatever frees some objects and closes the descriptors of just these,   *)
(* except for standard descriptors that are no directories.                *)
LEMMA HostShrinks ==
  ASSUME HostOwned, Listed, DOMAIN heap' \subseteq DOMAIN heap,
         Same(heap', heap), strays' = strays,
         NEW closed, host' = host \ closed,
         \A n \in closed : \E o \in DOMAIN heap \ DOMAIN heap' :
           /\ n = heap[o].number
           /\ n \in Std => Directory \in StdKinds[n],
         \A o \in DOMAIN heap \ DOMAIN heap' :
           heap[o].number \in closed \cup Std
  PROVE  HostOwned' /\ Listed'
<1>1. Listed'
  BY DEF Listed, Same, Std
<1>2. /\ \A o \in DOMAIN heap' : heap'[o].number = heap[o].number
      /\ \A o \in DOMAIN heap : heap[o].number \in host
      /\ strays \subseteq host
      /\ \A n \in host : n \in Std \cup strays \/ \E o \in DOMAIN heap : n = heap[o].number
      /\ \A o \in DOMAIN heap : heap[o].number \notin strays
      /\ \A o \in DOMAIN heap : \A p \in DOMAIN heap \ {o} :
           heap[p].number # heap[o].number
      /\ \A n \in Std \ host : Directory \in StdKinds[n]
  BY DEF HostOwned, Same
<1>3. \A o \in DOMAIN heap' : heap'[o].number \in host' /\ heap'[o].number \notin strays'
  BY <1>2
<1>4. strays' \subseteq host'
  BY <1>2
<1>5. ASSUME NEW n \in host', n \notin Std \cup strays'
      PROVE  \E o \in DOMAIN heap' : n = heap'[o].number
  <2>1. PICK o \in DOMAIN heap : n = heap[o].number
    BY <1>2, <1>5
  <2>2. o \in DOMAIN heap'
    BY <1>5, <2>1
  <2> QED BY <1>2, <2>1, <2>2
<1>6. \A o \in DOMAIN heap' : \A p \in DOMAIN heap' \ {o} :
        heap'[p].number # heap'[o].number
  BY <1>2
<1>7. \A n \in Std \ host' : Directory \in StdKinds[n]
  BY <1>2
<1>8. HostOwned'
  <2> DEFINE owned == {heap'[o].number : o \in DOMAIN heap'}
  <2>1. owned \cup strays' \subseteq host' /\ owned \cap strays' = {}
    BY <1>3, <1>4
  <2>2. host' \subseteq Std \cup owned \cup strays'
    BY <1>5
  <2>3. Std' = Std
    BY DEF Std
  <2> HIDE DEF owned
  <2> QED BY <1>6, <1>7, <2>1, <2>2, <2>3 DEF HostOwned, owned
<1> QED BY <1>1, <1>8

(* Whatever allocates one object for a descriptor that nobody owns.        *)
LEMMA HostGrows ==
  ASSUME HostOwned, Listed, NEW n, n \notin DOMAIN heap,
         NEW kind, NEW number, heap' = Alloc(heap, n, kind, number),
         number \notin strays, \A o \in DOMAIN heap : heap[o].number # number,
         number \in Std /\ kind = Directory => Directory \in StdKinds[number],
         strays' = strays, host' = host \cup {number}
  PROVE  HostOwned' /\ Listed'
<1>1. /\ DOMAIN heap' = DOMAIN heap \cup {n}
      /\ heap'[n].number = number /\ heap'[n].kind = kind /\ heap'[n].handle = FALSE
      /\ \A o \in DOMAIN heap : heap'[o] = heap[o]
  BY DEF Alloc
<1>2. Listed'
  BY <1>1 DEF Listed, Std
<1>3. \A o \in DOMAIN heap' : \A p \in DOMAIN heap' \ {o} :
        heap'[p].number # heap'[o].number
  BY <1>1 DEF HostOwned
<1>4. {heap'[o].number : o \in DOMAIN heap'} =
        {heap[o].number : o \in DOMAIN heap} \cup {number}
  BY <1>1
<1>5. HostOwned'
  <2> DEFINE owned == {heap[o].number : o \in DOMAIN heap}
             later == {heap'[o].number : o \in DOMAIN heap'}
  <2>1. later = owned \cup {number}
    BY <1>4
  <2>2. /\ owned \cup strays \subseteq host /\ owned \cap strays = {}
        /\ host \subseteq Std \cup owned \cup strays
        /\ \A m \in Std \ host : Directory \in StdKinds[m]
    BY DEF HostOwned
  <2>3. Std' = Std /\ number \notin owned
    BY DEF Std
  <2> HIDE DEF owned
  <2>4. /\ later \cup strays' \subseteq host' /\ later \cap strays' = {}
        /\ host' \subseteq Std \cup later \cup strays'
        /\ \A m \in Std \ host' : Directory \in StdKinds[m]
    BY <2>1, <2>2, <2>3
  <2> HIDE DEF later
  <2> QED BY <1>3, <2>3, <2>4 DEF HostOwned, later
<1> QED BY <1>2, <1>5

(* Whatever opens descriptors that nobody will close.                      *)
LEMMA HostStrays ==
  ASSUME HostOwned, Listed, DOMAIN heap' = DOMAIN heap, Same(heap', heap),
         NEW d, d \cap host = {}, host' = host \cup d, strays' = strays \cup d
  PROVE  HostOwned' /\ Listed'
<1>1. Listed'
  BY DEF Listed, Same, Std
<1>2. {heap'[o].number : o \in DOMAIN heap'} = {heap[o].number : o \in DOMAIN heap}
  BY DEF Same
<1>3. \A o \in DOMAIN heap' : \A p \in DOMAIN heap' \ {o} :
        heap'[p].number # heap'[o].number
  BY DEF HostOwned, Same
<1>4. HostOwned'
  BY <1>2, <1>3 DEF HostOwned, Std
<1> QED BY <1>1, <1>4

(* A number that open answers is nobody's.                                 *)
LEMMA UnusedOwned ==
  ASSUME HInv, NEW number \in Unused(1)
  PROVE  /\ number \in Nat \ host /\ number \notin strays
         /\ \A o \in DOMAIN heap : heap[o].number # number
         /\ number \in Std => Directory \in StdKinds[number]
<1>1. number \in Nat \ host
  BY UnusedFresh DEF HInv, IInv, Rest
<1> QED BY <1>1 DEF HInv, HostOwned

LEMMA AcquireSame ==
  ASSUME NEW h, Heap(h), NEW o \in DOMAIN h
  PROVE  /\ DOMAIN Acquire(h, o) = DOMAIN h
         /\ Same(Acquire(h, o), h)
         /\ Acquire(h, o)[o].refs = h[o].refs + 1
         /\ \A p \in DOMAIN h \ {o} : Acquire(h, o)[p] = h[p]
  BY DEF Heap, FdObject, Acquire, Same

LEMMA ReleaseSame ==
  ASSUME NEW h, Heap(h), NEW o \in DOMAIN h
  PROVE  /\ DOMAIN Release(h, o) = IF h[o].refs = 1 THEN DOMAIN h \ {o} ELSE DOMAIN h
         /\ Same(Release(h, o), h)
         /\ h[o].refs # 1 => Release(h, o)[o].refs = h[o].refs - 1
         /\ \A p \in DOMAIN h \ {o} : Release(h, o)[p] = h[p]
<1>1. CASE h[o].refs = 1
  BY <1>1 DEF Heap, Release, Same
<1>2. CASE h[o].refs # 1
  BY <1>2 DEF Heap, FdObject, Release, Same
<1> QED BY <1>1, <1>2

LEMMA SameTrans ==
  ASSUME NEW f, NEW g, NEW h, DOMAIN f \subseteq DOMAIN g, Same(f, g), Same(g, h)
  PROVE  Same(f, h)
  BY DEF Same

(* What fd_object_release closes.                                          *)
LEMMA ReleaseHost ==
  ASSUME HInv, NEW o \in DOMAIN heap, status # "init", status' # "init",
         DOMAIN heap' = IF heap[o].refs = 1 THEN DOMAIN heap \ {o} ELSE DOMAIN heap,
         Same(heap', heap), strays' = strays, host' = host \ Closed(heap, o)
  PROVE  HostOwned' /\ Listed' /\ Reserved'
<1>1. /\ heap[o].handle => heap[o].kind = Directory
      /\ heap[o].number \in Std /\ heap[o].kind = Directory
           => Directory \in StdKinds[heap[o].number]
  BY DEF HInv, Listed
<1>2. Reserved'
  BY DEF Reserved
<1>3. CASE heap[o].refs = 1
  <2>1. DOMAIN heap \ DOMAIN heap' = {o} /\ DOMAIN heap' \subseteq DOMAIN heap
    BY <1>3
  <2>2. \A n \in Closed(heap, o) : /\ n = heap[o].number
                                   /\ n \in Std => heap[o].handle
    BY <1>3 DEF Closed
  <2>3. heap[o].number \in Closed(heap, o) \cup Std
    BY <1>3 DEF Closed
  <2> QED BY <1>1, <1>2, <2>1, <2>2, <2>3, HostShrinks DEF HInv
<1>4. CASE heap[o].refs # 1
  <2>1. Closed(heap, o) = {} /\ DOMAIN heap' = DOMAIN heap
    BY <1>4 DEF Closed
  <2> QED BY <1>2, <2>1, HostShrinks DEF HInv
<1> QED BY <1>3, <1>4

LEMMA MovedSame ==
  ASSUME IInv, NEW from \in Occupied(ft), NEW to \in Occupied(ft)
  PROVE  LET p == ft.entries[to].object
             h == MovedHeap(from, to)
         IN /\ p \in DOMAIN heap
            /\ DOMAIN h = IF heap[p].refs = 1 THEN DOMAIN heap \ {p} ELSE DOMAIN heap
            /\ Same(h, heap)
<1> DEFINE o == ft.entries[from].object
           p == ft.entries[to].object
           h1 == Acquire(heap, o)
           h2 == Release(h1, p)
           h3 == Release(h2, o)
<1>1. Heap(heap) /\ o \in DOMAIN heap /\ p \in DOMAIN heap
  BY DEF IInv, Counts
<1>2. heap[o].refs \in Nat \ {0} /\ heap[p].refs \in Nat \ {0}
  BY <1>1 DEF Heap, FdObject
<1>3. MovedHeap(from, to) = h3
  BY DEF MovedHeap
<1> HIDE DEF o, p
<1>4. /\ Heap(h1) /\ DOMAIN h1 = DOMAIN heap
      /\ Same(h1, heap)
      /\ h1[o].refs = heap[o].refs + 1
      /\ \A q \in DOMAIN heap \ {o} : h1[q] = heap[q]
  BY <1>1, AcquireHeap, AcquireSame
<1> HIDE DEF h1
<1>5. /\ Heap(h2)
      /\ DOMAIN h2 = IF h1[p].refs = 1 THEN DOMAIN h1 \ {p} ELSE DOMAIN h1
      /\ Same(h2, h1)
      /\ h1[p].refs # 1 => h2[p].refs = h1[p].refs - 1
      /\ \A q \in DOMAIN h1 \ {p} : h2[q] = h1[q]
  <2>1. p \in DOMAIN h1
    BY <1>1, <1>4
  <2>2. Heap(h2)
    BY <1>4, <2>1, ReleaseHeap
  <2> QED BY <1>4, <2>1, <2>2, ReleaseSame
<1> HIDE DEF h2
<1>6. o \in DOMAIN h2
  BY <1>1, <1>2, <1>4, <1>5
<1>7. /\ DOMAIN h3 = IF h2[o].refs = 1 THEN DOMAIN h2 \ {o} ELSE DOMAIN h2
      /\ Same(h3, h2)
  BY <1>5, <1>6, ReleaseSame
<1> HIDE DEF h3
<1>8. Same(h3, heap)
  <2>1. DOMAIN h3 \subseteq DOMAIN h2 /\ DOMAIN h2 \subseteq DOMAIN h1
    BY <1>5, <1>7
  <2> QED BY <1>4, <1>5, <1>7, <2>1, SameTrans
<1>9. /\ DOMAIN h3 = IF heap[p].refs = 1 THEN DOMAIN heap \ {p} ELSE DOMAIN heap
      /\ Same(h3, heap)
  <2>1. CASE o = p
    <3>1. h1[p].refs # 1 /\ h2[o].refs = heap[p].refs
      BY <1>2, <1>4, <1>5, <2>1
    <3>2. DOMAIN h2 = DOMAIN heap
      BY <1>4, <1>5, <3>1
    <3> QED BY <1>4, <1>5, <1>7, <1>8, <2>1, <3>1, <3>2
  <2>2. CASE o # p
    <3>1. h1[p].refs = heap[p].refs
      BY <1>1, <1>4, <2>2
    <3>2. h2[o] = h1[o] /\ h2[o].refs # 1
      BY <1>1, <1>2, <1>4, <1>5, <2>2
    <3> QED BY <1>4, <1>5, <1>7, <1>8, <3>1, <3>2
  <2> QED BY <2>1, <2>2
<1> QED BY <1>1, <1>3, <1>9 DEF p

----------------------------------------------------------------------------
(* Each action keeps the descriptors owned *)

LEMMA HInit == Init => HInv
<1> SUFFICES ASSUME Init PROVE HInv
  OBVIOUS
<1>1. DOMAIN heap = {} /\ host = Std /\ strays = {}
  BY DEF Init
<1>2. HostOwned /\ Listed /\ Reserved
  BY <1>1 DEF HostOwned, Listed, Reserved
<1> QED BY <1>2, InitInv DEF HInv

LEMMA InsertStdHost == HInv /\ InsertStd => HostOwned' /\ Listed' /\ Reserved'
<1> SUFFICES ASSUME HInv, InsertStd PROVE HostOwned' /\ Listed' /\ Reserved'
  OBVIOUS
<1>1. PICK kind \in StdKinds[next], mode \in StdModes :
        InsertExisting(next, kind, mode, next)
  BY DEF InsertStd
<1> DEFINE n == NewObject
<1>2. n \in ObjectIds \ DOMAIN heap
  BY <1>1, NewObjectFresh DEF HInv, IInv, InsertExisting
<1>3. heap' = Alloc(heap, n, kind, next)
  BY <1>1 DEF InsertExisting
<1> HIDE DEF n
<1>4. /\ status = "init" /\ next \in Std /\ next \in 0 .. 2 /\ status' = status
      /\ next' = next + 1 /\ strays' = strays /\ host' = host
  BY DEF InsertStd, Std
<1>5. next \notin strays /\ \A o \in DOMAIN heap : heap[o].number # next
  BY <1>4 DEF HInv, Reserved
<1>6. host' = host \cup {next}
  BY <1>4 DEF HInv, Reserved
<1>7. HostOwned' /\ Listed'
  BY <1>2, <1>3, <1>4, <1>5, <1>6, HostGrows DEF HInv
<1>8. /\ DOMAIN heap' = DOMAIN heap \cup {n}
      /\ heap'[n].number = next /\ heap'[n].handle = FALSE
      /\ \A o \in DOMAIN heap : heap'[o] = heap[o]
  BY <1>2, <1>3 DEF Alloc
<1>9. Reserved'
  BY <1>4, <1>8 DEF HInv, Reserved, Std
<1> QED BY <1>7, <1>9

LEMMA InsertPreopenHost ==
  HInv /\ InsertPreopen => HostOwned' /\ Listed' /\ Reserved'
<1> SUFFICES ASSUME HInv, InsertPreopen PROVE HostOwned' /\ Listed' /\ Reserved'
  OBVIOUS
<1>1. /\ status = "init" /\ next' = next + 1 /\ status' = status
      /\ next \in 3 .. 2 + Preopens /\ Preopens \in Nat
  BY FdTableAssumption DEF InsertPreopen
<1>2. ASSUME NEW number \in Unused(1), host' = host \cup {number}
      PROVE  /\ number \notin strays /\ number \notin Std /\ number \notin host
             /\ \A o \in DOMAIN heap : heap[o].number # number
  BY <1>1, UnusedOwned DEF HInv, Reserved
<1>3. ASSUME NEW number \in Unused(1), host' = host \cup {number},
             InsertExisting(next, Directory, "RDONLY", number), UNCHANGED strays
      PROVE  HostOwned' /\ Listed' /\ Reserved'
  <2> DEFINE n == NewObject
  <2>1. n \in ObjectIds \ DOMAIN heap
    BY <1>3, NewObjectFresh DEF HInv, IInv, InsertExisting
  <2>2. heap' = Alloc(heap, n, Directory, number)
    BY <1>3 DEF InsertExisting
  <2> HIDE DEF n
  <2>3. HostOwned' /\ Listed'
    BY <1>2, <1>3, <2>1, <2>2, HostGrows DEF HInv
  <2>4. /\ DOMAIN heap' = DOMAIN heap \cup {n}
        /\ heap'[n].number = number /\ heap'[n].handle = FALSE
        /\ \A o \in DOMAIN heap : heap'[o] = heap[o]
    BY <2>1, <2>2 DEF Alloc
  <2>5. Reserved'
    BY <1>1, <1>2, <1>3, <2>4 DEF HInv, Reserved, Std
  <2> QED BY <2>3, <2>5
<1>4. ASSUME NEW number \in Unused(1), host' = host \cup {number},
             strays' = strays \cup {number}, UNCHANGED <<ft, heap>>
      PROVE  HostOwned' /\ Listed' /\ Reserved'
  <2>1. Same(heap', heap) /\ {number} \cap host = {}
    BY <1>2, <1>4 DEF Same
  <2>2. HostOwned' /\ Listed'
    BY <1>4, <2>1, HostStrays DEF HInv
  <2>3. Reserved'
    BY <1>1, <1>2, <1>4 DEF HInv, Reserved, Std
  <2> QED BY <2>2, <2>3
<1>5. CASE UNCHANGED <<ft, heap, host, strays>>
  BY <1>1, <1>5 DEF HInv, HostOwned, Listed, Reserved, Std
<1> QED BY <1>3, <1>4, <1>5 DEF InsertPreopen

LEMMA InitFailHost == HInv /\ InitFail => HostOwned' /\ Listed' /\ Reserved'
<1> SUFFICES ASSUME HInv, InitFail PROVE HostOwned' /\ Listed' /\ Reserved'
  OBVIOUS
<1> DEFINE kept == {o \in DOMAIN heap : heap[o].refs > Cardinality(SlotsOf(ft, o))}
           freed == DOMAIN heap \ kept
           closed == {heap[o].number : o \in freed} \ Std
<1>1. heap' = [o \in kept |-> [heap[o] EXCEPT !.refs =
                                 @ - Cardinality(SlotsOf(ft, o))]]
  BY DEF InitFail
<1>2. host' = host \ closed /\ strays' = strays /\ status' = "failed"
  BY DEF InitFail
<1>3. kept \subseteq DOMAIN heap /\ \A o \in kept : heap[o] \in FdObject
  BY DEF HInv, IInv, Heap
<1> HIDE DEF kept
<1>4. DOMAIN heap' = kept /\ Same(heap', heap)
  BY <1>1, <1>3 DEF FdObject, Same
<1>5. /\ \A n \in closed : \E o \in DOMAIN heap \ DOMAIN heap' :
           n = heap[o].number /\ n \notin Std
      /\ \A o \in DOMAIN heap \ DOMAIN heap' : heap[o].number \in closed \cup Std
  BY <1>4
<1>6. Reserved'
  BY <1>2 DEF Reserved
<1> HIDE DEF freed, closed
<1> QED BY <1>2, <1>3, <1>4, <1>5, <1>6, HostShrinks DEF HInv

LEMMA CloseHost ==
  ASSUME NEW fd PROVE HInv /\ Close(fd) => HostOwned' /\ Listed' /\ Reserved'
<1> SUFFICES ASSUME HInv, Close(fd) PROVE HostOwned' /\ Listed' /\ Reserved'
  OBVIOUS
<1> DEFINE o == ft.entries[fd].object
<1>1. Heap(heap) /\ o \in DOMAIN heap
  BY DEF HInv, IInv, Counts, Close
<1>2. /\ heap' = Release(heap, o) /\ host' = host \ Closed(heap, o)
      /\ strays' = strays /\ status = "up" /\ status' = "up"
  BY DEF Close
<1> HIDE DEF o
<1>3. /\ DOMAIN heap' = IF heap[o].refs = 1 THEN DOMAIN heap \ {o} ELSE DOMAIN heap
      /\ Same(heap', heap)
  BY <1>1, <1>2, ReleaseSame
<1> QED BY <1>1, <1>2, <1>3, ReleaseHost

LEMMA RenumberHost ==
  ASSUME NEW from, NEW to
  PROVE  HInv /\ Renumber(from, to) => HostOwned' /\ Listed' /\ Reserved'
<1> SUFFICES ASSUME HInv, Renumber(from, to) PROVE HostOwned' /\ Listed' /\ Reserved'
  OBVIOUS
<1> DEFINE p == ft.entries[to].object
<1>1. strays' = strays /\ status = "up" /\ status' \in {"up", "crashed"}
  BY DEF Renumber
<1>2. CASE from # to
  <2>1. heap' = MovedHeap(from, to) /\ host' = host \ Closed(heap, p)
    BY <1>2 DEF Renumber
  <2>2. /\ p \in DOMAIN heap
        /\ DOMAIN heap' = IF heap[p].refs = 1 THEN DOMAIN heap \ {p} ELSE DOMAIN heap
        /\ Same(heap', heap)
    BY <2>1, MovedSame DEF HInv, Renumber
  <2> HIDE DEF p
  <2> QED BY <1>1, <2>1, <2>2, ReleaseHost
<1>3. CASE from = to
  BY <1>1, <1>3 DEF HInv, HostOwned, Listed, Reserved, Renumber, Std
<1> QED BY <1>2, <1>3

LEMMA InsertFdHost ==
  ASSUME NEW kind \in Kinds, NEW base, NEW inheriting
  PROVE  HInv /\ status = "up" /\ InsertFd(kind, base, inheriting)
           => HostOwned' /\ Listed' /\ Reserved'
<1> SUFFICES ASSUME HInv, status = "up", InsertFd(kind, base, inheriting)
             PROVE  HostOwned' /\ Listed' /\ Reserved'
  OBVIOUS
<1>1. status' \in {"up", "hung"}
  BY DEF InsertFd, InsertFailed
<1>2. Reserved'
  BY <1>1 DEF Reserved
<1>3. CASE UNCHANGED <<heap, host, strays>>
  BY <1>2, <1>3 DEF HInv, HostOwned, Listed, Std
<1>4. ASSUME NEW number \in Unused(1), InsertFailed(number)
      PROVE  HostOwned' /\ Listed'
  <2>1. CASE UNCHANGED <<host, strays>>
    BY <1>3, <1>4, <2>1 DEF InsertFailed
  <2>2. CASE host' = host \cup {number} /\ strays' = strays \cup {number}
    <3>1. heap' = heap /\ Same(heap', heap)
      BY <1>4 DEF InsertFailed, Same
    <3>2. {number} \cap host = {}
      BY <1>4, UnusedOwned
    <3> QED BY <2>2, <3>1, <3>2, HostStrays DEF HInv
  <2> QED BY <1>4, <2>1, <2>2 DEF InsertFailed
<1>5. ASSUME NEW number \in Unused(1), DOMAIN heap # ObjectIds,
             heap' = Alloc(heap, NewObject, kind, number),
             host' = host \cup {number}, UNCHANGED strays
      PROVE  HostOwned' /\ Listed'
  <2> DEFINE n == NewObject
  <2>1. n \in ObjectIds \ DOMAIN heap
    BY <1>5, NewObjectFresh DEF HInv, IInv
  <2>2. heap' = Alloc(heap, n, kind, number)
    BY <1>5
  <2> HIDE DEF n
  <2> QED BY <1>5, <2>1, <2>2, UnusedOwned, HostGrows DEF HInv
<1> QED BY <1>2, <1>3, <1>4, <1>5 DEF InsertFd

LEMMA OpenHost ==
  /\ HInv /\ SockOpen => HostOwned' /\ Listed' /\ Reserved'
  /\ \A fd : HInv /\ SockAccept(fd) => HostOwned' /\ Listed' /\ Reserved'
  /\ \A dir, base, inheriting, flags :
       HInv /\ PathOpen(dir, base, inheriting, flags)
         => HostOwned' /\ Listed' /\ Reserved'
<1>1. SocketKinds \subseteq Kinds
  BY FdTableAssumption
<1> QED BY <1>1, InsertFdHost DEF SockOpen, SockAccept, PathOpen

LEMMA FdReaddirHost ==
  ASSUME NEW fd PROVE HInv /\ FdReaddir(fd) => HostOwned' /\ Listed' /\ Reserved'
<1> SUFFICES ASSUME HInv, FdReaddir(fd) PROVE HostOwned' /\ Listed' /\ Reserved'
  OBVIOUS
<1> DEFINE o == ft.entries[fd].object
<1>1. /\ UNCHANGED <<host, strays>> /\ status = "up" /\ status' # "init"
      /\ \/ heap' = [heap EXCEPT ![o].handle = TRUE] /\ heap[o].kind = Directory
         \/ UNCHANGED heap
  BY DEF FdReaddir
<1>2. Heap(heap)
  BY DEF HInv, IInv
<1> HIDE DEF o
<1>3. /\ DOMAIN heap' = DOMAIN heap
      /\ \A p \in DOMAIN heap : /\ heap'[p].number = heap[p].number
                                /\ heap'[p].kind = heap[p].kind
                                /\ heap'[p].handle =>
                                     heap[p].handle \/ heap[p].kind = Directory
  BY <1>1, <1>2 DEF Heap, FdObject
<1>4. Listed'
  BY <1>3 DEF HInv, Listed, Std
<1>5. {heap'[p].number : p \in DOMAIN heap'} = {heap[p].number : p \in DOMAIN heap}
  BY <1>3
<1>6. \A p \in DOMAIN heap' : \A q \in DOMAIN heap' \ {p} :
        heap'[q].number # heap'[p].number
  BY <1>3 DEF HInv, HostOwned
<1>7. HostOwned'
  BY <1>1, <1>5, <1>6 DEF HInv, HostOwned, Std
<1> QED BY <1>1, <1>4, <1>7 DEF Reserved

LEMMA RefusedHost ==
  /\ \A fd : HInv /\ PathSymlinkRefused(fd) => HostOwned' /\ Listed' /\ Reserved'
  /\ \A old, new :
       HInv /\ PathLinkRefused(old, new) => HostOwned' /\ Listed' /\ Reserved'
<1>1. ASSUME HInv, NEW k \in Nat, LoseLeases(k), DOMAIN heap' = DOMAIN heap,
             Same(heap', heap), status' = "up"
      PROVE  HostOwned' /\ Listed' /\ Reserved'
  <2>1. PICK d \in SUBSET Unused(k) : host' = host \cup d /\ strays' = strays \cup d
    BY <1>1 DEF LoseLeases
  <2>2. d \cap host = {}
    BY <1>1, UnusedFresh DEF HInv, IInv, Rest
  <2>3. Reserved'
    BY <1>1 DEF Reserved
  <2> QED BY <1>1, <2>1, <2>2, <2>3, HostStrays DEF HInv
<1>2. ASSUME NEW fd, HInv, PathSymlinkRefused(fd)
      PROVE  HostOwned' /\ Listed' /\ Reserved'
  <2>1. Heap(heap) /\ ft.entries[fd].object \in DOMAIN heap
    BY <1>2 DEF HInv, IInv, Counts, PathSymlinkRefused, Has
  <2>2. /\ heap' = Acquire(heap, ft.entries[fd].object)
        /\ LoseLeases(1) /\ status' = "up"
    BY <1>2 DEF PathSymlinkRefused
  <2> QED BY <1>1, <1>2, <2>1, <2>2, AcquireSame
<1>3. ASSUME NEW old, NEW new, HInv, PathLinkRefused(old, new)
      PROVE  HostOwned' /\ Listed' /\ Reserved'
  <2> DEFINE o == ft.entries[old].object
             n == ft.entries[new].object
             h == Acquire(heap, o)
  <2>1. Heap(heap) /\ o \in DOMAIN heap /\ n \in DOMAIN heap
    BY <1>3 DEF HInv, IInv, Counts, PathLinkRefused, Has
  <2>2. heap' = Acquire(h, n) /\ LoseLeases(2) /\ status' = "up"
    BY <1>3 DEF PathLinkRefused
  <2> HIDE DEF o, n
  <2>3. Heap(h) /\ DOMAIN h = DOMAIN heap /\ Same(h, heap)
    BY <2>1, AcquireHeap, AcquireSame
  <2> HIDE DEF h
  <2>4. DOMAIN heap' = DOMAIN heap /\ Same(heap', h)
    BY <2>1, <2>2, <2>3, AcquireSame
  <2>5. Same(heap', heap)
    BY <2>3, <2>4, SameTrans
  <2> QED BY <1>1, <1>3, <2>2, <2>4, <2>5
<1> QED BY <1>2, <1>3

LEMMA HNext == HInv /\ [Next]_vars => HInv'
<1> SUFFICES ASSUME HInv, [Next]_vars PROVE HInv'
  OBVIOUS
<1>1. IInv'
  BY NextInv DEF HInv
<1>2. HostOwned' /\ Listed' /\ Reserved'
  <2>1. CASE UNCHANGED <<heap, host, strays, next>> /\ (status' = "init" => status = "init")
    BY <2>1 DEF HInv, HostOwned, Listed, Reserved, Std
  <2>2. CASE Setup
    BY <2>1, <2>2, InsertStdHost, InsertPreopenHost, InitFailHost DEF Setup, InitDone
  <2>3. CASE Call
    BY <2>1, <2>3, CloseHost, RenumberHost, OpenHost, FdReaddirHost, RefusedHost
    DEF Call, SetRights
  <2>4. CASE UNCHANGED vars
    BY <2>1, <2>4 DEF vars
  <2> QED BY <2>2, <2>3, <2>4 DEF Next
<1> QED BY <1>1, <1>2 DEF HInv

(* Whatever a program does, every object owns an open descriptor of the    *)
(* host that no other object owns: none is closed too early or twice.      *)
(* Above the standard descriptors, what is open without an owner is what   *)
(* wasi_init lost and the directories of leases that a refused path_link   *)
(* or path_symlink lost; a standard descriptor is closed only where the    *)
(* process was given a directory (fd_object_release, fd_table_insert_fd,   *)
(* fd_table_destroy, path_get).                                            *)
THEOREM OwnedDescriptors == Spec => []HostOwned
<1>1. HInv => HostOwned
  BY DEF HInv
<1> QED BY <1>1, HInit, HNext, PTL DEF Spec


----------------------------------------------------------------------------
(* Preopened directories *)

LEMMA InsertFdStable ==
  ASSUME IInv, NEW kind \in Kinds, NEW base \in SUBSET Rights,
         NEW inheriting \in SUBSET Rights, InsertFd(kind, base, inheriting),
         NEW fd \in Occupied(ft)
  PROVE  ft'.entries[fd].object = ft.entries[fd].object
<1>1. CASE UNCHANGED ft
  BY <1>1
<1>2. CASE /\ Insertable(ft) /\ DOMAIN heap # ObjectIds
           /\ \E new \in Slots(Grow(ft, 0, 1)) \ Occupied(Grow(ft, 0, 1)) :
                ft' = Attach(Grow(ft, 0, 1), new, NewObject, base, inheriting)
  <2> DEFINE g == Grow(ft, 0, 1)
  <2>1. PICK new \in Slots(g) \ Occupied(g) :
          ft' = Attach(g, new, NewObject, base, inheriting)
    BY <1>2
  <2>2. Table(ft) /\ Fitting(ft, 0, 1) # {} /\ 0 \in Nat /\ 1 \in Nat
    BY <1>2 DEF IInv, Insertable
  <2>3. /\ Table(g) /\ g.entries[fd] = ft.entries[fd]
        /\ Occupied(g) = Occupied(ft)
    BY <2>2, GrowTable, GrowKeeps DEF Occupied
  <2> HIDE DEF g
  <2>4. fd \in Slots(g) /\ fd # new
    BY <2>1, <2>3 DEF Occupied
  <2>5. ft'.entries = [g.entries EXCEPT ![new] =
          [object |-> NewObject, base |-> base, inheriting |-> inheriting]]
    BY <2>1 DEF Attach
  <2> QED BY <2>3, <2>4, <2>5 DEF Table
<1> QED BY <1>1, <1>2 DEF InsertFd, InsertFailed

(* The directories of the command line stay where the program finds them,  *)
(* whatever it closes, renumbers or opens (fd_prestats_get_entry in        *)
(* fd_close and fd_renumber, fd_table_grow).                               *)
THEOREM StablePreopens == Spec => PreopenStable
<1> DEFINE A == \A fd \in prestats \cap Occupied(ft) :
                  status = "up" => ft'.entries[fd].object = ft.entries[fd].object
<1>1. ASSUME IInv, [Next]_vars, NEW fd \in prestats \cap Occupied(ft),
             status = "up"
      PROVE  ft'.entries[fd].object = ft.entries[fd].object
  <2>1. /\ Table(ft) /\ fd \in Slots(ft) /\ fd \in prestats /\ fd \in Occupied(ft)
    BY <1>1 DEF IInv, Occupied
  <2>2. CASE UNCHANGED ft
    BY <2>2
  <2>3. ASSUME NEW f, Close(f)
        PROVE  ft'.entries[fd].object = ft.entries[fd].object
    BY <2>1, <2>3 DEF Close, Detach, Table
  <2>4. ASSUME NEW from, NEW to, Renumber(from, to)
        PROVE  ft'.entries[fd].object = ft.entries[fd].object
    <3>1. fd # from /\ fd # to
      BY <2>1, <2>4 DEF Renumber, Movable
    <3>2. CASE from = to
      BY <2>4, <3>2 DEF Renumber
    <3>3. CASE from # to
      BY <2>1, <2>4, <3>1, <3>3 DEF Renumber, Moved, Detach, Attach, Table
    <3> QED BY <3>2, <3>3
  <2>5. ASSUME NEW f, NEW base, NEW inheriting, SetRights(f, base, inheriting)
        PROVE  ft'.entries[fd].object = ft.entries[fd].object
    BY <2>1, <2>5 DEF SetRights, Assigned, Table
  <2>6. ASSUME NEW dir, NEW base, NEW inheriting, NEW flags,
               PathOpen(dir, base, inheriting, flags)
        PROVE  ft'.entries[fd].object = ft.entries[fd].object
    <3>1. PICK kind \in Kinds : InsertFd(kind, OpenedBase(kind, base),
                                         inheriting \cap RightsInheriting[kind])
      BY <2>6 DEF PathOpen
    <3>2. /\ OpenedBase(kind, base) \in SUBSET Rights
          /\ inheriting \cap RightsInheriting[kind] \in SUBSET Rights
      BY MaxBaseType DEF OpenedBase
    <3> QED BY <1>1, <2>1, <3>1, <3>2, InsertFdStable
  <2>7. ASSUME NEW kind \in SocketKinds,
               InsertFd(kind, MaxBase(kind, "RDWR"), RightsInheriting[kind])
        PROVE  ft'.entries[fd].object = ft.entries[fd].object
    <3>1. kind \in Kinds
      BY FdTableAssumption
    <3> QED BY <1>1, <2>1, <2>7, <3>1, MaxBaseType, InsertFdStable
  <2>8. CASE Setup
    BY <1>1, <2>8 DEF Setup, InsertStd, InsertPreopen, InitDone, InitFail
  <2>9. CASE Call
    BY <2>2, <2>3, <2>4, <2>5, <2>6, <2>7, <2>9
       DEF Call, SockOpen, SockAccept, FdReaddir, PathLinkRefused, PathSymlinkRefused
  <2>10. CASE UNCHANGED vars
    BY <2>2, <2>10 DEF vars
  <2> QED BY <1>1, <2>8, <2>9, <2>10 DEF Next
<1>2. IInv /\ [Next]_vars => [A]_vars
  BY <1>1
<1> QED BY <1>2, InitInv, NextInv, PTL DEF Spec, PreopenStable

----------------------------------------------------------------------------
(* What a step does to the slots *)

\* No two slots name the same object.
OneSlot(t) ==
  \A a, b \in Occupied(t) : t.entries[a].object = t.entries[b].object => a = b

\* Rights that the kind of an object allows.
Within(kind, base, inheriting) ==
  base \subseteq RightsBase[kind] /\ inheriting \subseteq RightsInheriting[kind]

\* Objects keep their kinds, and none is new.
Settled ==
  /\ DOMAIN heap' \subseteq DOMAIN heap
  /\ \A o \in DOMAIN heap' : heap'[o].kind = heap[o].kind

\* Slots are emptied, or nothing happens to them.
Dropped ==
  /\ Settled
  /\ Occupied(ft') \subseteq Occupied(ft)
  /\ \A f \in Occupied(ft') : ft'.entries[f] = ft.entries[f]

\* The entry of `from` moves over the one of `to`.
Renumbered(from, to) ==
  /\ Settled
  /\ from \in Occupied(ft) /\ to \in Occupied(ft) /\ from # to
  /\ Occupied(ft') = Occupied(ft) \ {from}
  /\ ft'.entries[to] = ft.entries[from]
  /\ \A f \in Occupied(ft) \ {from, to} : ft'.entries[f] = ft.entries[f]

\* A slot is left with some of its rights.
Reduced(fd) ==
  /\ Settled
  /\ fd \in Occupied(ft) /\ Occupied(ft') = Occupied(ft)
  /\ ft'.entries[fd].object = ft.entries[fd].object
  /\ ft'.entries[fd].base \subseteq ft.entries[fd].base
  /\ ft'.entries[fd].inheriting \subseteq ft.entries[fd].inheriting
  /\ \A f \in Occupied(ft) \ {fd} : ft'.entries[f] = ft.entries[f]

\* A free slot gets a new object.
Inserted(fd, o, kind, base, inheriting) ==
  /\ o \notin DOMAIN heap /\ DOMAIN heap' = DOMAIN heap \cup {o}
  /\ heap'[o].kind = kind
  /\ \A p \in DOMAIN heap : heap'[p] = heap[p]
  /\ fd \notin Occupied(ft) /\ Occupied(ft') = Occupied(ft) \cup {fd}
  /\ ft'.entries[fd] = [object |-> o, base |-> base, inheriting |-> inheriting]
  /\ \A f \in Occupied(ft) : ft'.entries[f] = ft.entries[f]

(* fd_table_insert_existing and fd_table_insert                            *)
LEMMA InsertedSlot ==
  ASSUME IInv, DOMAIN heap # ObjectIds, NEW min \in Nat,
         Fitting(ft, min, 1) # {},
         NEW fd \in Slots(Grow(ft, min, 1)) \ Occupied(ft),
         NEW kind \in Kinds, NEW number \in Nat,
         NEW base \in SUBSET Rights, NEW inheriting \in SUBSET Rights,
         ft' = Attach(Grow(ft, min, 1), fd, NewObject, base, inheriting),
         heap' = Alloc(heap, NewObject, kind, number)
  PROVE  Inserted(fd, NewObject, kind, base, inheriting)
<1> DEFINE g == Grow(ft, min, 1)
           o == NewObject
<1>1. Table(ft) /\ Heap(heap) /\ 1 \in Nat
  BY DEF IInv
<1>2. o \notin DOMAIN heap
  BY <1>1, NewObjectFresh
<1>3. Occupied(ft') = Occupied(ft) \cup {fd}
  BY InsertKeeps
<1>4. /\ Table(g) /\ Occupied(ft) \subseteq Slots(g)
      /\ \A f \in Occupied(ft) : g.entries[f] = ft.entries[f]
  BY <1>1, GrowTable, GrowKeeps DEF Occupied
<1> HIDE DEF g, o
<1>5. ft'.entries = [g.entries EXCEPT ![fd] =
                       [object |-> o, base |-> base, inheriting |-> inheriting]]
  BY DEF Attach, g, o
<1>6. fd \in Slots(g) /\ fd \notin Occupied(ft)
  BY DEF g
<1>7. /\ ft'.entries[fd] = [object |-> o, base |-> base, inheriting |-> inheriting]
      /\ \A f \in Occupied(ft) : ft'.entries[f] = ft.entries[f]
  BY <1>4, <1>5, <1>6 DEF Table
<1>8. /\ DOMAIN heap' = DOMAIN heap \cup {o} /\ heap'[o].kind = kind
      /\ \A p \in DOMAIN heap : heap'[p] = heap[p]
  BY <1>2 DEF Alloc, o
<1> QED BY <1>2, <1>3, <1>6, <1>7, <1>8 DEF Inserted, o

(* References come and go; the kinds of objects stay.                      *)
LEMMA KindsKept ==
  ASSUME NEW h, Heap(h), NEW o \in DOMAIN h
  PROVE  /\ DOMAIN Acquire(h, o) = DOMAIN h
         /\ \A p \in DOMAIN h : Acquire(h, o)[p].kind = h[p].kind
         /\ DOMAIN Release(h, o) \subseteq DOMAIN h
         /\ \A p \in DOMAIN Release(h, o) : Release(h, o)[p].kind = h[p].kind
<1>1. CASE h[o].refs = 1
  BY <1>1 DEF Heap, FdObject, Acquire, Release
<1>2. CASE h[o].refs # 1
  BY <1>2 DEF Heap, FdObject, Acquire, Release
<1> QED BY <1>1, <1>2

(* fd_renumber                                                             *)
LEMMA RenumberSlots ==
  ASSUME IInv, NEW from, NEW to, Renumber(from, to), from # to
  PROVE  Renumbered(from, to)
<1> DEFINE e == ft.entries[from]
           o == e.object
           p == ft.entries[to].object
           h1 == Acquire(heap, o)
           h2 == Release(h1, p)
           h3 == Release(h2, o)
<1>1. /\ Table(ft) /\ Heap(heap) /\ from \in Occupied(ft) /\ to \in Occupied(ft)
      /\ from \in Slots(ft) /\ to \in Slots(ft)
      /\ o \in DOMAIN heap /\ p \in DOMAIN heap
  BY DEF IInv, Renumber, Occupied, Counts
<1>2. /\ ft' = Moved(from, to) /\ heap' = h3
  BY DEF Renumber, MovedHeap
<1>3. Settled
  <2> HIDE DEF e, o, p
  <2>1. /\ DOMAIN h1 = DOMAIN heap
        /\ \A q \in DOMAIN heap : h1[q].kind = heap[q].kind
    BY <1>1, KindsKept
  <2>2. Heap(h1) /\ p \in DOMAIN h1
    BY <1>1, <2>1, AcquireHeap
  <2> HIDE DEF h1
  <2>3. /\ Heap(h2) /\ DOMAIN h2 \subseteq DOMAIN h1
        /\ \A q \in DOMAIN h2 : h2[q].kind = h1[q].kind
    BY <2>2, KindsKept, ReleaseHeap
  <2>4. o \in DOMAIN h2
    <3>1. h1[o].refs = heap[o].refs + 1 /\ heap[o].refs \in Nat \ {0}
      BY <1>1, AcquireHeap DEF h1, Heap, FdObject
    <3>2. DOMAIN h2 = IF h1[p].refs = 1 THEN DOMAIN h1 \ {p} ELSE DOMAIN h1
      BY <2>2, ReleaseHeap
    <3>3. o \in DOMAIN h1
      BY <1>1, <2>1
    <3> QED BY <3>1, <3>2, <3>3
  <2> HIDE DEF h2
  <2>5. /\ DOMAIN h3 \subseteq DOMAIN h2
        /\ \A q \in DOMAIN h3 : h3[q].kind = h2[q].kind
    BY <2>3, <2>4, KindsKept
  <2> QED BY <1>2, <2>1, <2>3, <2>5 DEF Settled
<1>4. /\ Slots(ft') = Slots(ft)
      /\ ft'.entries = [[[ft.entries EXCEPT ![to] = Free] EXCEPT ![to] =
           [object |-> e.object, base |-> e.base, inheriting |-> e.inheriting]]
           EXCEPT ![from] = Free]
  BY <1>2 DEF Moved, Detach, Attach, Slots
<1>5. e \in Entry
  BY <1>1 DEF Table
<1>6. e = [object |-> e.object, base |-> e.base, inheriting |-> e.inheriting]
  BY <1>5 DEF Entry
<1>7. o # NoObject
  BY <1>1 DEF Occupied
<1> HIDE DEF e
<1>8. /\ ft'.entries[to] = e /\ ft'.entries[from] = Free
      /\ \A f \in Slots(ft) \ {from, to} : ft'.entries[f] = ft.entries[f]
  BY <1>1, <1>4, <1>6 DEF Table
<1>9. Occupied(ft') = Occupied(ft) \ {from}
  BY <1>1, <1>4, <1>7, <1>8, FreeEntry DEF Occupied
<1> QED BY <1>1, <1>3, <1>8, <1>9 DEF Renumbered, e, Occupied

\* What is asked of a slot that a program makes writable.
Granted(kind, base) ==
  (status = "up" /\ kind = File /\ "FD_WRITE" \in base) =>
    \E dir \in Occupied(ft) :
      /\ "PATH_OPEN" \in ft.entries[dir].base
      /\ Writes(ft.entries[dir].inheriting)

NewSlot ==
  \E fd, o, kind, base, inheriting :
    /\ Inserted(fd, o, kind, base, inheriting)
    /\ Within(kind, base, inheriting) /\ Granted(kind, base)

(* What fd_determine_type_rights grants.                                   *)
LEMMA MaxBaseWithin ==
  ASSUME NEW kind \in Kinds, NEW mode
  PROVE  Within(kind, MaxBase(kind, mode), RightsInheriting[kind])
  BY DEF MaxBase, Within

(* The standard descriptors.                                               *)
LEMMA InsertStdSlot == IInv /\ InsertStd => NewSlot
<1> SUFFICES ASSUME IInv, InsertStd PROVE NewSlot
  OBVIOUS
<1>1. PICK kind \in StdKinds[next], mode \in StdModes :
        InsertExisting(next, kind, mode, next)
  BY DEF InsertStd
<1>2. /\ kind \in Kinds /\ next \in Nat /\ status = "init"
      /\ MaxBase(kind, mode) \in SUBSET Rights
      /\ RightsInheriting[kind] \in SUBSET Rights
  BY MaxBaseType, FdTableAssumption DEF InsertStd, Std
<1>3. next \in Slots(Grow(ft, next, 1)) \ Occupied(ft)
  BY <1>1, <1>2, NextSlotFree DEF InsertExisting
<1>4. Inserted(next, NewObject, kind, MaxBase(kind, mode), RightsInheriting[kind])
  BY <1>1, <1>2, <1>3, InsertedSlot DEF InsertExisting
<1>5. Within(kind, MaxBase(kind, mode), RightsInheriting[kind])
  BY <1>2, MaxBaseWithin
<1>6. Granted(kind, MaxBase(kind, mode))
  BY <1>2 DEF Granted
<1> QED BY <1>4, <1>5, <1>6 DEF NewSlot

(* The directories of the command line.                                    *)
LEMMA InsertPreopenSlot == IInv /\ InsertPreopen => Dropped \/ NewSlot
<1> SUFFICES ASSUME IInv, InsertPreopen PROVE Dropped \/ NewSlot
  OBVIOUS
<1>1. Unused(1) \subseteq Nat /\ next \in Nat /\ status = "init"
  BY UnusedNat DEF IInv, Rest, InsertPreopen
<1>2. CASE UNCHANGED <<ft, heap>>
  BY <1>2 DEF Dropped, Settled
<1>3. ASSUME NEW number \in Unused(1),
             InsertExisting(next, Directory, "RDONLY", number)
      PROVE  Dropped \/ NewSlot
  <2> DEFINE base == MaxBase(Directory, "RDONLY")
             inheriting == RightsInheriting[Directory]
  <2>1. Directory \in Kinds /\ base \in SUBSET Rights /\ inheriting \in SUBSET Rights
    BY MaxBaseType, FdTableAssumption
  <2>2. next \in Slots(Grow(ft, next, 1)) \ Occupied(ft)
    BY <1>1, <1>3, NextSlotFree DEF InsertExisting
  <2>3. Inserted(next, NewObject, Directory, base, inheriting)
    BY <1>1, <1>3, <2>1, <2>2, InsertedSlot DEF InsertExisting
  <2>4. Within(Directory, base, inheriting)
    BY <2>1, MaxBaseWithin
  <2>5. Granted(Directory, base)
    BY <1>1 DEF Granted
  <2> QED BY <2>3, <2>4, <2>5 DEF NewSlot
<1> QED BY <1>2, <1>3 DEF InsertPreopen

(* fd_table_destroy empties every slot.                                    *)
LEMMA InitFailSlots == IInv /\ InitFail => Dropped
<1> SUFFICES ASSUME IInv, InitFail PROVE Dropped
  OBVIOUS
<1>1. Occupied(ft') = {}
  BY EmptyTable DEF InitFail, Empty
<1> DEFINE kept == {o \in DOMAIN heap : heap[o].refs > Cardinality(SlotsOf(ft, o))}
<1>2. heap' = [o \in kept |-> [heap[o] EXCEPT !.refs =
                                 @ - Cardinality(SlotsOf(ft, o))]]
  BY DEF InitFail
<1>3. kept \subseteq DOMAIN heap /\ \A o \in kept : heap[o] \in FdObject
  BY DEF IInv, Heap
<1> HIDE DEF kept
<1>4. Settled
  BY <1>2, <1>3 DEF Settled, FdObject
<1> QED BY <1>1, <1>4 DEF Dropped

(* fd_close empties one.                                                   *)
LEMMA CloseSlots == ASSUME NEW fd PROVE IInv /\ Close(fd) => Dropped
<1> SUFFICES ASSUME IInv, Close(fd) PROVE Dropped
  OBVIOUS
<1>1. /\ Table(ft) /\ Heap(heap) /\ fd \in Occupied(ft) /\ fd \in Slots(ft)
      /\ ft.entries[fd].object \in DOMAIN heap
      /\ ft' = Detach(ft, fd) /\ heap' = Release(heap, ft.entries[fd].object)
  BY DEF IInv, Close, Occupied, Counts
<1>2. Settled
  BY <1>1, KindsKept DEF Settled
<1>3. Occupied(ft') = Occupied(ft) \ {fd}
  BY <1>1, DetachSlots
<1>4. \A f \in Slots(ft) \ {fd} : ft'.entries[f] = ft.entries[f]
  BY <1>1, DetachTable
<1> QED BY <1>2, <1>3, <1>4 DEF Dropped, Occupied

(* fd_fdstat_set_rights takes rights away from one.                        *)
LEMMA SetRightsSlots ==
  ASSUME NEW fd, NEW base, NEW inheriting
  PROVE  IInv /\ SetRights(fd, base, inheriting) => Reduced(fd)
<1> SUFFICES ASSUME IInv, SetRights(fd, base, inheriting) PROVE Reduced(fd)
  OBVIOUS
<1>1. /\ Table(ft) /\ fd \in Slots(ft) /\ fd \in Occupied(ft)
      /\ base \subseteq ft.entries[fd].base
      /\ inheriting \subseteq ft.entries[fd].inheriting /\ heap' = heap
  BY DEF IInv, SetRights, Has, Occupied, Table
<1> DEFINE e == [object |-> ft.entries[fd].object, base |-> base,
                 inheriting |-> inheriting]
<1>2. /\ e.object = ft.entries[fd].object
      /\ e.base = base /\ e.inheriting = inheriting
  OBVIOUS
<1>3. /\ ft'.entries = [ft.entries EXCEPT ![fd] = e] /\ Slots(ft') = Slots(ft)
  BY DEF SetRights, Assigned, Slots
<1> HIDE DEF e
<1>4. ft'.entries[fd] = e /\ \A f \in Slots(ft) \ {fd} : ft'.entries[f] = ft.entries[f]
  BY <1>1, <1>3 DEF Table
<1>5. Occupied(ft') = Occupied(ft)
  BY <1>1, <1>2, <1>3, <1>4 DEF Occupied
<1>6. Settled
  BY <1>1 DEF Settled
<1> QED BY <1>1, <1>2, <1>4, <1>5, <1>6 DEF Reduced, Occupied

(* fd_table_insert_fd fills one, or nothing changes.                       *)
LEMMA InsertFdSlots ==
  ASSUME NEW kind \in Kinds, NEW base \in SUBSET Rights,
         NEW inheriting \in SUBSET Rights,
         Within(kind, base, inheriting), Granted(kind, base)
  PROVE  IInv /\ InsertFd(kind, base, inheriting) => Dropped \/ NewSlot
<1> SUFFICES ASSUME IInv, InsertFd(kind, base, inheriting)
             PROVE  Dropped \/ NewSlot
  OBVIOUS
<1>1. CASE UNCHANGED <<ft, heap>>
  BY <1>1 DEF Dropped, Settled
<1>2. ASSUME Insertable(ft), DOMAIN heap # ObjectIds,
             \E fd \in Slots(Grow(ft, 0, 1)) \ Occupied(Grow(ft, 0, 1)) :
               ft' = Attach(Grow(ft, 0, 1), fd, NewObject, base, inheriting),
             NEW number \in Unused(1), heap' = Alloc(heap, NewObject, kind, number)
      PROVE  Dropped \/ NewSlot
  <2>1. PICK fd \in Slots(Grow(ft, 0, 1)) \ Occupied(Grow(ft, 0, 1)) :
          ft' = Attach(Grow(ft, 0, 1), fd, NewObject, base, inheriting)
    BY <1>2
  <2>2. /\ Fitting(ft, 0, 1) # {} /\ 0 \in Nat /\ 1 \in Nat
        /\ number \in Nat
    BY <1>2, UnusedNat DEF Insertable
  <2>3. fd \in Slots(Grow(ft, 0, 1)) \ Occupied(ft)
    BY <2>1, <2>2, GrowKeeps DEF IInv
  <2>4. Inserted(fd, NewObject, kind, base, inheriting)
    BY <1>2, <2>1, <2>2, <2>3, InsertedSlot
  <2> QED BY <2>4 DEF NewSlot
<1> QED BY <1>1, <1>2 DEF InsertFd, InsertFailed

(* A slot that path_open makes writable was granted that.                  *)
LEMMA PathOpenSlots ==
  ASSUME NEW dir, NEW base, NEW inheriting, NEW flags
  PROVE  IInv /\ PathOpen(dir, base, inheriting, flags) => Dropped \/ NewSlot
<1> SUFFICES ASSUME IInv, PathOpen(dir, base, inheriting, flags)
             PROVE  Dropped \/ NewSlot
  OBVIOUS
<1> DEFINE B(kind) == OpenedBase(kind, base)
           H(kind) == inheriting \cap RightsInheriting[kind]
<1>1. PICK kind \in Kinds : InsertFd(kind, B(kind), H(kind))
  BY DEF PathOpen
<1>2. B(kind) \in SUBSET Rights /\ H(kind) \in SUBSET Rights
  BY MaxBaseType DEF OpenedBase
<1>3. Within(kind, B(kind), H(kind))
  BY DEF Within, OpenedBase, MaxBase
<1>4. Granted(kind, B(kind))
  <2> SUFFICES ASSUME "FD_WRITE" \in B(kind)
               PROVE  \E d \in Occupied(ft) :
                        /\ "PATH_OPEN" \in ft.entries[d].base
                        /\ Writes(ft.entries[d].inheriting)
    BY DEF Granted
  <2>1. Writes(base)
    BY DEF OpenedBase, MaxBase, Mode
  <2>2. /\ dir \in Occupied(ft) /\ "PATH_OPEN" \in ft.entries[dir].base
        /\ base \subseteq ft.entries[dir].inheriting
    BY DEF PathOpen, Has, NeededBase, NeededInheriting
  <2> QED BY <2>1, <2>2 DEF Writes
<1> HIDE DEF B, H
<1> QED BY <1>1, <1>2, <1>3, <1>4, InsertFdSlots

(* A socket is no file.                                                    *)
LEMMA SocketSlots ==
  ASSUME NEW kind \in SocketKinds
  PROVE  IInv /\ InsertFd(kind, MaxBase(kind, "RDWR"), RightsInheriting[kind])
           => Dropped \/ NewSlot
<1>1. kind \in Kinds /\ kind # File
  BY FdTableAssumption
<1>2. Granted(kind, MaxBase(kind, "RDWR"))
  BY <1>1 DEF Granted
<1> QED BY <1>1, <1>2, MaxBaseType, MaxBaseWithin, InsertFdSlots

(* A directory is listed in its place.                                     *)
LEMMA FdReaddirSlots == ASSUME NEW fd PROVE IInv /\ FdReaddir(fd) => Dropped
<1> SUFFICES ASSUME IInv, FdReaddir(fd) PROVE Dropped
  OBVIOUS
<1>1. Heap(heap) /\ ft' = ft
  BY DEF IInv, FdReaddir
<1>2. /\ DOMAIN heap' = DOMAIN heap
      /\ \A o \in DOMAIN heap : heap'[o].kind = heap[o].kind
  BY <1>1 DEF FdReaddir, Heap, FdObject
<1> QED BY <1>1, <1>2 DEF Dropped, Settled

(* References are lost without a slot.                                     *)
LEMMA RefusedSlots ==
  /\ \A fd : IInv /\ PathSymlinkRefused(fd) => Dropped
  /\ \A old, new : IInv /\ PathLinkRefused(old, new) => Dropped
<1>1. ASSUME NEW fd, IInv, PathSymlinkRefused(fd)
      PROVE  Dropped
  <2>1. Heap(heap) /\ ft.entries[fd].object \in DOMAIN heap
    BY <1>1 DEF IInv, Counts, PathSymlinkRefused, Has
  <2>2. heap' = Acquire(heap, ft.entries[fd].object) /\ ft' = ft
    BY <1>1 DEF PathSymlinkRefused
  <2>3. Settled
    BY <2>1, <2>2, KindsKept DEF Settled
  <2> QED BY <2>2, <2>3 DEF Dropped
<1>2. ASSUME NEW old, NEW new, IInv, PathLinkRefused(old, new)
      PROVE  Dropped
  <2> DEFINE o == ft.entries[old].object
             n == ft.entries[new].object
             h == Acquire(heap, o)
  <2>1. Heap(heap) /\ o \in DOMAIN heap /\ n \in DOMAIN heap
    BY <1>2 DEF IInv, Counts, PathLinkRefused, Has
  <2>2. heap' = Acquire(h, n) /\ ft' = ft
    BY <1>2 DEF PathLinkRefused
  <2> HIDE DEF o, n
  <2>3. /\ Heap(h) /\ DOMAIN h = DOMAIN heap
        /\ \A p \in DOMAIN heap : h[p].kind = heap[p].kind
    BY <2>1, AcquireHeap, KindsKept
  <2> HIDE DEF h
  <2>4. Settled
    BY <2>1, <2>2, <2>3, KindsKept DEF Settled
  <2> QED BY <2>2, <2>4 DEF Dropped
<1> QED BY <1>1, <1>2

(* Every step of the program and of wasi_init is of one of these four kinds. *)
LEMMA StepSlots ==
  ASSUME IInv, [Next]_vars
  PROVE  \/ Dropped \/ NewSlot
         \/ \E fd : Reduced(fd)
         \/ \E from, to : Renumbered(from, to)
<1>1. CASE UNCHANGED <<ft, heap>>
  BY <1>1 DEF Dropped, Settled
<1>2. CASE Setup
  BY <1>1, <1>2, InsertStdSlot, InsertPreopenSlot, InitFailSlots DEF Setup, InitDone
<1>3. CASE Call
  <2>1. CASE SockOpen \/ \E fd : SockAccept(fd)
    BY <2>1, SocketSlots DEF SockOpen, SockAccept
  <2>2. ASSUME NEW from, NEW to, Renumber(from, to)
        PROVE  Dropped \/ Renumbered(from, to)
    <3>1. CASE from = to
      BY <1>1, <2>2, <3>1 DEF Renumber, Dropped, Settled
    <3>2. CASE from # to
      BY <2>2, <3>2, RenumberSlots
    <3> QED BY <3>1, <3>2
  <2>3. CASE \E fd, base, inheriting : SetRights(fd, base, inheriting)
    BY <2>3, SetRightsSlots
  <2>4. CASE \E dir, base, inheriting, flags : PathOpen(dir, base, inheriting, flags)
    BY <2>4, PathOpenSlots
  <2>5. CASE \E fd : Close(fd) \/ FdReaddir(fd) \/ PathSymlinkRefused(fd)
    BY <2>5, CloseSlots, FdReaddirSlots, RefusedSlots
  <2>6. CASE \E old, new : PathLinkRefused(old, new)
    BY <2>6, RefusedSlots
  <2> QED BY <1>3, <2>1, <2>2, <2>3, <2>4, <2>5, <2>6 DEF Call
<1>4. CASE UNCHANGED vars
  BY <1>1, <1>4 DEF vars
<1> QED BY <1>2, <1>3, <1>4 DEF Next

----------------------------------------------------------------------------
(* Rights *)

RInv == IInv /\ OneSlot(ft) /\ RightsWithinKind

(* An empty table carries no rights.                                       *)
LEMMA RInit == Init => RInv
<1> SUFFICES ASSUME Init PROVE RInv
  OBVIOUS
<1>1. Occupied(ft) = {}
  BY EmptyTable DEF Init, Empty
<1> QED BY <1>1, InitInv DEF RInv, OneSlot, RightsWithinKind

(* No step gives an object a second slot.                                  *)
LEMMA ROneSlot == RInv /\ [Next]_vars => OneSlot(ft')
<1> SUFFICES ASSUME RInv, [Next]_vars PROVE OneSlot(ft')
  OBVIOUS
<1>1. /\ OneSlot(ft) /\ IInv
      /\ \A f \in Occupied(ft) : ft.entries[f].object \in DOMAIN heap
  BY DEF RInv, IInv, Counts
<1>2. CASE Dropped
  BY <1>1, <1>2 DEF Dropped, OneSlot
<1>3. ASSUME NEW fd, Reduced(fd) PROVE OneSlot(ft')
  BY <1>1, <1>3 DEF Reduced, OneSlot
<1>4. ASSUME NEW from, NEW to, Renumbered(from, to) PROVE OneSlot(ft')
  BY <1>1, <1>4 DEF Renumbered, OneSlot
<1>5. ASSUME NEW fd, NEW o, NEW kind, NEW base, NEW inheriting,
             Inserted(fd, o, kind, base, inheriting)
      PROVE  OneSlot(ft')
  BY <1>1, <1>5 DEF Inserted, OneSlot
<1> QED BY <1>1, <1>2, <1>3, <1>4, <1>5, StepSlots DEF NewSlot

(* No step gives a slot a right beyond its kind.                           *)
LEMMA RWithin == RInv /\ [Next]_vars => RightsWithinKind'
<1> SUFFICES ASSUME RInv, [Next]_vars PROVE RightsWithinKind'
  OBVIOUS
<1>1. /\ IInv /\ IInv'
      /\ \A f \in Occupied(ft) : ft.entries[f].object \in DOMAIN heap
      /\ \A f \in Occupied(ft) : Within(heap[ft.entries[f].object].kind,
                                      ft.entries[f].base, ft.entries[f].inheriting)
  BY NextInv DEF RInv, IInv, Counts, RightsWithinKind, Within
<1>2. Occupied(ft)' = Occupied(ft')
  BY DEF Occupied, Slots
<1>3. \A f \in Occupied(ft') : ft'.entries[f].object \in DOMAIN heap'
  BY <1>1, <1>2 DEF IInv, Counts
<1>4. SUFFICES \A f \in Occupied(ft') :
                 Within(heap'[ft'.entries[f].object].kind,
                        ft'.entries[f].base, ft'.entries[f].inheriting)
  BY <1>2, <1>4 DEF RightsWithinKind, Within
<1>5. CASE Dropped
  BY <1>1, <1>3, <1>5 DEF Dropped, Settled
<1>6. ASSUME NEW fd, Reduced(fd), NEW f \in Occupied(ft')
      PROVE  Within(heap'[ft'.entries[f].object].kind,
                    ft'.entries[f].base, ft'.entries[f].inheriting)
  <2>1. heap'[ft'.entries[f].object].kind = heap[ft.entries[f].object].kind
    BY <1>3, <1>6 DEF Reduced, Settled
  <2>2. /\ ft'.entries[f].base \subseteq ft.entries[f].base
        /\ ft'.entries[f].inheriting \subseteq ft.entries[f].inheriting
        /\ f \in Occupied(ft)
    BY <1>6 DEF Reduced
  <2> QED BY <1>1, <2>1, <2>2 DEF Within
<1>7. ASSUME NEW from, NEW to, Renumbered(from, to), NEW f \in Occupied(ft')
      PROVE  Within(heap'[ft'.entries[f].object].kind,
                    ft'.entries[f].base, ft'.entries[f].inheriting)
  <2>1. \E g \in Occupied(ft) : ft'.entries[f] = ft.entries[g]
    BY <1>7 DEF Renumbered
  <2> QED BY <1>1, <1>3, <1>7, <2>1 DEF Renumbered, Settled
<1>8. ASSUME NEW fd, NEW o, NEW kind, NEW base, NEW inheriting,
             Inserted(fd, o, kind, base, inheriting), Within(kind, base, inheriting),
             NEW f \in Occupied(ft')
      PROVE  Within(heap'[ft'.entries[f].object].kind,
                    ft'.entries[f].base, ft'.entries[f].inheriting)
  <2>1. CASE f = fd
    BY <1>8, <2>1 DEF Inserted
  <2>2. CASE f # fd
    BY <1>1, <1>8, <2>2 DEF Inserted
  <2> QED BY <2>1, <2>2
<1> QED BY <1>1, <1>5, <1>6, <1>7, <1>8, StepSlots DEF NewSlot

(* The invariant of the rights is inductive.                               *)
LEMMA RNext == RInv /\ [Next]_vars => RInv'
<1> SUFFICES ASSUME RInv, [Next]_vars PROVE RInv'
  OBVIOUS
<1>1. OneSlot(ft)'
  <2>1. OneSlot(ft')
    BY ROneSlot
  <2> QED BY <2>1 DEF OneSlot, Occupied, Slots
<1> QED BY <1>1, RWithin, NextInv DEF RInv

(* Whatever rights a program asks for, opens with and sets, no slot holds a *)
(* right that the kind of its object does not have, on itself or to pass   *)
(* on (fd_determine_type_rights, path_open, fd_fdstat_set_rights).         *)
THEOREM KindLimitsRights == Spec => []RightsWithinKind
<1>1. RInv => RightsWithinKind
  BY DEF RInv
<1> QED BY <1>1, RInit, RNext, PTL DEF Spec

(* No step gives a program more rights on an object that it can already    *)
(* name, whichever slots the object moves through (fd_fdstat_set_rights,   *)
(* fd_renumber): it needs that an object never has two slots.              *)
THEOREM RightsNeverGrow == Spec => RightsShrink
<1> DEFINE A == \A fd \in Occupied(ft) : \A to \in Occupied(ft)' :
                  /\ ft'.entries[to].object = ft.entries[fd].object
                  /\ ft.entries[fd].object \in DOMAIN heap'
                  => /\ ft'.entries[to].base \subseteq ft.entries[fd].base
                     /\ ft'.entries[to].inheriting \subseteq ft.entries[fd].inheriting
<1>1. ASSUME RInv, [Next]_vars, NEW fd \in Occupied(ft), NEW to \in Occupied(ft)',
             ft'.entries[to].object = ft.entries[fd].object
      PROVE  /\ ft'.entries[to].base \subseteq ft.entries[fd].base
             /\ ft'.entries[to].inheriting \subseteq ft.entries[fd].inheriting
  <2>1. /\ IInv /\ OneSlot(ft) /\ to \in Occupied(ft')
        /\ \A f \in Occupied(ft) : ft.entries[f].object \in DOMAIN heap
    BY <1>1 DEF RInv, IInv, Counts, Occupied, Slots
  <2>2. CASE Dropped
    <3>1. to = fd
      BY <1>1, <2>1, <2>2 DEF Dropped, OneSlot
    <3> QED BY <2>1, <2>2, <3>1 DEF Dropped
  <2>3. ASSUME NEW f, Reduced(f)
        PROVE  /\ ft'.entries[to].base \subseteq ft.entries[fd].base
               /\ ft'.entries[to].inheriting \subseteq ft.entries[fd].inheriting
    <3>1. to = fd
      BY <1>1, <2>1, <2>3 DEF Reduced, OneSlot
    <3> QED BY <2>1, <2>3, <3>1 DEF Reduced
  <2>4. ASSUME NEW from, NEW over, Renumbered(from, over)
        PROVE  /\ ft'.entries[to].base \subseteq ft.entries[fd].base
               /\ ft'.entries[to].inheriting \subseteq ft.entries[fd].inheriting
    <3>1. PICK g \in Occupied(ft) : ft'.entries[to] = ft.entries[g]
      BY <2>1, <2>4 DEF Renumbered
    <3>2. g = fd
      BY <1>1, <2>1, <3>1 DEF OneSlot
    <3> QED BY <3>1, <3>2
  <2>5. ASSUME NEW f, NEW o, NEW kind, NEW base, NEW inheriting,
               Inserted(f, o, kind, base, inheriting)
        PROVE  /\ ft'.entries[to].base \subseteq ft.entries[fd].base
               /\ ft'.entries[to].inheriting \subseteq ft.entries[fd].inheriting
    <3>1. to # f
      BY <1>1, <2>1, <2>5 DEF Inserted
    <3>2. to = fd
      BY <1>1, <2>1, <2>5, <3>1 DEF Inserted, OneSlot
    <3> QED BY <2>5, <3>2 DEF Inserted
  <2> QED BY <1>1, <2>1, <2>2, <2>3, <2>4, <2>5, StepSlots DEF NewSlot
<1>2. RInv /\ [Next]_vars => [A]_vars
  BY <1>1
<1> QED BY <1>2, RInit, RNext, PTL DEF Spec, RightsShrink

(* A file becomes writable for a program only through a directory it may   *)
(* open from and that passes on a right to modify (wasmtime_ssp_path_open, *)
(* which adds to a new file the rights of all files, and                   *)
(* fd_determine_type_rights, which takes FD_WRITE away again).             *)
THEOREM WritingIsGranted == Spec => WriteGranted
<1> DEFINE A == \A o \in DOMAIN heap' \ DOMAIN heap :
                  (status = "up" /\ heap'[o].kind = File) =>
                    \A fd \in SlotsOf(ft, o)' :
                      "FD_WRITE" \in ft'.entries[fd].base =>
                        \E dir \in Occupied(ft) :
                          /\ "PATH_OPEN" \in ft.entries[dir].base
                          /\ Writes(ft.entries[dir].inheriting)
<1>1. ASSUME IInv, [Next]_vars, NEW o \in DOMAIN heap' \ DOMAIN heap,
             status = "up", heap'[o].kind = File,
             NEW fd \in SlotsOf(ft, o)', "FD_WRITE" \in ft'.entries[fd].base
      PROVE  \E dir \in Occupied(ft) :
               /\ "PATH_OPEN" \in ft.entries[dir].base
               /\ Writes(ft.entries[dir].inheriting)
  <2>1. ~ Settled
    BY <1>1 DEF Settled
  <2>2. NewSlot
    BY <1>1, <2>1, StepSlots DEF Dropped, Reduced, Renumbered
  <2>3. PICK f, p, kind, base, inheriting :
          /\ Inserted(f, p, kind, base, inheriting) /\ Granted(kind, base)
    BY <2>2 DEF NewSlot
  <2>4. p = o /\ kind = File
    BY <1>1, <2>3 DEF Inserted
  <2>5. fd \in Occupied(ft') /\ ft'.entries[fd].object = o
    <3>1. o # NoObject
      <4>1. Heap(heap')
        BY <1>1, NextInv DEF IInv
      <4> QED BY <1>1, <4>1 DEF Heap, ObjectIds, NoObject
    <3> QED BY <1>1, <3>1 DEF SlotsOf, Occupied, Slots
  <2>6. fd = f
    BY <1>1, <2>3, <2>5 DEF Inserted, IInv, Counts
  <2>7. "FD_WRITE" \in base
    BY <1>1, <2>3, <2>6 DEF Inserted
  <2> QED BY <1>1, <2>3, <2>4, <2>7 DEF Granted
<1>2. IInv /\ [Next]_vars => [A]_vars
  BY <1>1
<1> QED BY <1>2, InitInv, NextInv, PTL DEF Spec, WriteGranted

----------------------------------------------------------------------------
(* Load *)

\* Equal numbers of size_t.
Congruent(a, b) == \E k \in Int : a = b + k * SizeT

(* Division with remainder.                                                *)
LEMMA Division ==
  ASSUME NEW n \in Int, NEW d \in Nat, d > 0
  PROVE  n = d * (n \div d) + (n % d) /\ n \div d \in Int /\ n % d \in Int
<1>1. n = d * (n \div d) + (n % d)
  BY SMT
<1>2. n \div d \in Int /\ n % d \in Int
  OBVIOUS
<1> QED BY <1>1, <1>2

(* Wrapping changes a number by a multiple of SizeT.                       *)
LEMMA WrapCongruent ==
  ASSUME NEW n \in Int
  PROVE  Congruent(Wrap(n), n)
<1>1. SizeT \in Nat /\ SizeT > 0
  BY FdTableAssumption
<1>2. PICK q \in Int, r \in Int : r = n % SizeT /\ n = SizeT * q + r
  BY <1>1, Division
<1>3. -q \in Int /\ (-q) * SizeT = - (SizeT * q) /\ SizeT * q \in Int
  BY <1>1
<1>4. PICK m \in Int : m = SizeT * q
  BY <1>3
<1>5. r = n + (-q) * SizeT
  BY <1>2, <1>3, <1>4
<1> QED BY <1>2, <1>3, <1>5 DEF Congruent, Wrap

(* Congruent numbers stay congruent in sums and when doubled.              *)
LEMMA CongruentSum ==
  ASSUME NEW a \in Int, NEW b \in Int, NEW c \in Int, Congruent(a, b)
  PROVE  Congruent(a + c, b + c) /\ Congruent(2 * a, 2 * b)
<1>1. PICK k \in Int : a = b + k * SizeT
  BY DEF Congruent
<1>2. SizeT \in Int /\ k * SizeT \in Int
  BY FdTableAssumption
<1>3. PICK m \in Int : m = k * SizeT
  BY <1>2
<1>4. a + c = b + c + k * SizeT
  BY <1>1, <1>3
<1>5. 2 * k \in Int /\ (2 * k) * SizeT = 2 * m
  BY <1>2, <1>3
<1>6. 2 * a = 2 * b + (2 * k) * SizeT
  BY <1>1, <1>3, <1>5
<1> QED BY <1>4, <1>5, <1>6 DEF Congruent

(* Congruence is transitive.                                               *)
LEMMA CongruentTrans ==
  ASSUME NEW a \in Int, NEW b \in Int, NEW c \in Int,
         Congruent(a, b), Congruent(b, c)
  PROVE  Congruent(a, c)
<1>1. PICK k \in Int : a = b + k * SizeT
  BY DEF Congruent
<1>2. PICK j \in Int : b = c + j * SizeT
  BY DEF Congruent
<1>3. SizeT \in Int
  BY FdTableAssumption
<1>4. k * SizeT \in Int /\ j * SizeT \in Int /\ (j + k) * SizeT = j * SizeT + k * SizeT
  BY <1>3
<1>5. a = c + (j + k) * SizeT
  BY <1>1, <1>2, <1>4
<1> QED BY <1>5 DEF Congruent

(* Congruent numbers of size_t are equal.                                  *)
LEMMA CongruentSmall ==
  ASSUME NEW a \in 0 .. SizeT - 1, NEW b \in 0 .. SizeT - 1, Congruent(a, b)
  PROVE  a = b
<1>1. PICK k \in Int : a = b + k * SizeT
  BY DEF Congruent
<1>2. SizeT \in Nat \ {0} /\ a \in Int /\ b \in Int
  BY FdTableAssumption
<1>3. PICK m \in Int : m = k * SizeT
  BY <1>2
<1>4. m < SizeT /\ m > -SizeT
  BY <1>1, <1>2, <1>3
<1>5. k >= 1 => m >= SizeT
  BY <1>2, <1>3
<1>6. k <= -1 => m <= -SizeT
  BY <1>2, <1>3
<1>7. k = 0
  BY <1>2, <1>4, <1>5, <1>6
<1>8. m = 0
  BY <1>2, <1>3, <1>7
<1> QED BY <1>1, <1>2, <1>3, <1>8

(* There are few objects.                                                  *)
LEMMA ObjectCount ==
  /\ IsFiniteSet(ObjectIds) /\ Cardinality(ObjectIds) \in Nat
  /\ 2 * Cardinality(ObjectIds) < SizeT
<1>1. 3 + Preopens + MaxOpens \in Nat /\ 1 \in Int
  BY FdTableAssumption
<1>2. PICK n \in Nat : n = 3 + Preopens + MaxOpens
  BY <1>1
<1>3. IsFiniteSet(1 .. n) /\ Cardinality(1 .. n) = n
  BY <1>2, FS_Interval
<1> QED BY <1>2, <1>3, RoomAssumption DEF ObjectIds

(* A table has finitely many slots.                                        *)
LEMMA OccupiedFinite ==
  ASSUME NEW t, Table(t)
  PROVE  IsFiniteSet(Occupied(t)) /\ Cardinality(Occupied(t)) \in Nat
<1>1. IsFiniteSet(Slots(t))
  <2>1. 0 \in Int /\ t.size - 1 \in Int
    BY FdTableAssumption DEF Table
  <2> QED BY <2>1, FS_Interval DEF Slots
<1>2. Occupied(t) \in SUBSET Slots(t)
  BY DEF Occupied
<1> QED BY <1>1, <1>2, FS_Subset, FS_CardinalityType

(* With one slot for each object, the table holds no more than there are.  *)
LEMMA OccupiedFew ==
  ASSUME NEW t, Table(t), OneSlot(t)
  PROVE  Cardinality(Occupied(t)) <= Cardinality(ObjectIds)
<1> DEFINE f == [fd \in Occupied(t) |-> t.entries[fd].object]
<1>1. \A fd \in Occupied(t) : t.entries[fd].object \in ObjectIds
  BY DEF Occupied, Table, Entry
<1>2. f \in Injection(Occupied(t), ObjectIds)
  BY <1>1 DEF OneSlot, Injection, IsInjective
<1> QED BY <1>2, ObjectCount, FS_Injection

(* What fd_table_grow makes of the size.                                   *)
LEMMA GrowFits ==
  ASSUME NEW t, Table(t), NEW min \in Nat, NEW incr \in Nat,
         Fitting(t, min, incr) # {}
  PROVE  /\ Grow(t, min, incr).size >= Wrap((t.used + incr) * 2)
         /\ Grow(t, min, incr).used = t.used
<1> DEFINE F == Fitting(t, min, incr)
           s == CHOOSE s \in F : \A r \in F : s <= r
<1>1. F \in SUBSET Nat
  BY FdTableAssumption DEF Fitting, Doublings, Table
<1>2. s \in F
  BY <1>1, Least
<1>3. s >= Wrap((t.used + incr) * 2)
  BY <1>2 DEF Fitting
<1>4. Grow(t, min, incr) = GrowTo(t, s)
  BY DEF Grow
<1> QED BY <1>3, <1>4 DEF GrowTo

Occupancy(t) == Cardinality(Occupied(t))

\* `used` is the number of occupied slots, less one for each renumbering.
Load(t, n) ==
  /\ Congruent(t.used, Occupancy(t) - n)
  /\ 2 * (Occupancy(t) - n) <= t.size

LInv ==
  /\ RInv /\ Load(ft, renumbers)
  /\ status = "init" => renumbers = 0

(* A new slot: if the count did not wrap, half of the table stays free; if *)
(* it did, there were more renumberings than slots.                        *)
LEMMA InsertLoad ==
  ASSUME LInv, DOMAIN heap # ObjectIds, NEW min \in Nat,
         Fitting(ft, min, 1) # {},
         NEW fd \in Slots(Grow(ft, min, 1)) \ Occupied(ft),
         NEW kind \in Kinds, NEW number \in Nat,
         NEW base \in SUBSET Rights, NEW inheriting \in SUBSET Rights,
         ft' = Attach(Grow(ft, min, 1), fd, NewObject, base, inheriting),
         OneSlot(ft')
  PROVE  Load(ft', renumbers)
<1> DEFINE g == Grow(ft, min, 1)
           u == ft.used
           c == Occupancy(ft)
           n == renumbers
<1>1. /\ IInv /\ Table(ft) /\ n \in Nat /\ u \in Int /\ u \in Nat
      /\ Congruent(u, c - n)
  BY FdTableAssumption DEF LInv, Load, RInv, IInv, Rest, Table
<1>2. /\ Table(ft') /\ Occupied(ft') = Occupied(ft) \cup {fd}
  BY <1>1, InsertKeeps
<1>3. /\ c \in Nat /\ Occupancy(ft') = c + 1
      /\ Occupancy(ft') <= Cardinality(ObjectIds)
  BY <1>1, <1>2, OccupiedFinite, OccupiedFew, FS_AddElement DEF Occupancy
<1>4. /\ g.size >= Wrap((u + 1) * 2) /\ g.used = u
  BY <1>1, GrowFits
<1>5. /\ ft'.size = g.size /\ ft'.used = Wrap(u + 1)
  BY <1>4 DEF Attach
<1>6. ft'.size \in 0 .. SizeT - 1 /\ ft'.used \in Int
  BY <1>2, FdTableAssumption DEF Table
<1> HIDE DEF g, u, c, n
<1>7. PICK r \in Int : r = c + 1 - n
  BY <1>1, <1>3
<1>8. Congruent(u + 1, r)
  <2>1. PICK x \in Int : x = c - n
    BY <1>1, <1>3
  <2>2. Congruent(u, x) /\ 1 \in Int
    BY <1>1, <2>1
  <2>3. Congruent(u + 1, x + 1)
    BY <1>1, <2>1, <2>2, CongruentSum
  <2>4. x + 1 = r
    BY <1>1, <1>3, <1>7, <2>1
  <2> QED BY <2>3, <2>4
<1>9. Congruent(ft'.used, r)
  <2>1. Congruent(Wrap(u + 1), u + 1) /\ u + 1 \in Int
    BY <1>1, WrapCongruent
  <2> QED BY <1>5, <1>6, <1>7, <1>8, <2>1, CongruentTrans
<1>11. 2 * r <= ft'.size
  <2>1. CASE r < 0
    BY <1>6, <1>7, <2>1, FdTableAssumption
  <2>2. CASE r >= 0
    <3>1. PICK w : w = Wrap((u + 1) * 2)
      OBVIOUS
    <3>2. (u + 1) * 2 \in Int /\ 2 * r \in Int /\ (u + 1) * 2 = 2 * (u + 1)
      BY <1>1, <1>7
    <3>3. Congruent((u + 1) * 2, 2 * r)
      <4>1. PICK y \in Int : y = u + 1
        BY <1>1
      <4>2. Congruent(y, r) /\ 0 \in Int
        BY <1>8, <4>1
      <4>3. Congruent(2 * y, 2 * r)
        BY <1>7, <4>1, <4>2, CongruentSum
      <4>4. 2 * y = (u + 1) * 2
        BY <1>1, <4>1
      <4> QED BY <4>3, <4>4
    <3>4. w \in 0 .. SizeT - 1 /\ Congruent(w, (u + 1) * 2) /\ w \in Int
      BY <3>1, <3>2, WrapType, WrapCongruent, FdTableAssumption
    <3>5. Congruent(w, 2 * r)
      BY <3>2, <3>3, <3>4, CongruentTrans
    <3>6. 2 * r \in 0 .. SizeT - 1
      <4>1. r <= Cardinality(ObjectIds)
        BY <1>1, <1>3, <1>7, ObjectCount
      <4> QED BY <1>7, <2>2, <4>1, ObjectCount, FdTableAssumption
    <3>7. w = 2 * r
      BY <3>4, <3>5, <3>6, CongruentSmall
    <3> QED BY <1>4, <1>5, <3>1, <3>7
  <2> QED BY <1>7, <2>1, <2>2
<1>12. Occupancy(ft') - n = r
  BY <1>1, <1>3, <1>7
<1> QED BY <1>9, <1>11, <1>12 DEF Load, n

(* `used` goes up by one, or down by one.                                  *)
LEMMA UsedSteps ==
  ASSUME NEW u \in Int, NEW x \in Int, Congruent(u, x)
  PROVE  /\ Congruent(Wrap(u + 1), x + 1) /\ Wrap(u + 1) \in Int
         /\ Congruent(Wrap(u + SizeT - 1), x - 1) /\ Wrap(u + SizeT - 1) \in Int
<1>1. SizeT \in Nat \ {0}
  BY FdTableAssumption
<1>2. ASSUME NEW c \in Int
      PROVE  Congruent(Wrap(u + c), x + c) /\ Wrap(u + c) \in Int
  <2>0. Congruent(u + c, x + c)
    BY <1>2, CongruentSum, Zenon
  <2>1. Congruent(u + c, x + c) /\ u + c \in Int /\ x + c \in Int
    BY <2>0
  <2>2. Congruent(Wrap(u + c), u + c) /\ Wrap(u + c) \in Int
    BY <1>1, <2>1, WrapCongruent, WrapType
  <2> QED BY <2>1, <2>2, CongruentTrans
<1>3. Congruent(Wrap(u + 1), x + 1) /\ Wrap(u + 1) \in Int
  BY <1>2
<1>4. PICK c \in Int : c = SizeT - 1
  BY <1>1
<1>5. u + c = u + SizeT - 1 /\ u + c \in Int
  BY <1>1, <1>4
<1>6. Congruent(Wrap(u + SizeT - 1), x + c) /\ Wrap(u + SizeT - 1) \in Int
  BY <1>2, <1>5
<1>7. Congruent(x + c, x - 1)
  <2>1. x + c = (x - 1) + 1 * SizeT /\ 1 \in Int
    BY <1>1, <1>4
  <2> QED BY <2>1 DEF Congruent
<1>8. Congruent(Wrap(u + SizeT - 1), x - 1)
  <2>1. x + c \in Int /\ x - 1 \in Int
    BY <1>4
  <2> QED BY <1>6, <1>7, <2>1, CongruentTrans
<1> QED BY <1>3, <1>6, <1>8

(* fd_close takes one from `used` and empties one slot.                    *)
LEMMA CloseLoad == ASSUME NEW fd PROVE LInv /\ Close(fd) => Load(ft', renumbers)
<1> SUFFICES ASSUME LInv, Close(fd) PROVE Load(ft', renumbers)
  OBVIOUS
<1> DEFINE u == ft.used
           c == Occupancy(ft)
           n == renumbers
<1>1. /\ Table(ft) /\ n \in Nat /\ u \in Int /\ Load(ft, n)
      /\ fd \in Occupied(ft) /\ ft' = Detach(ft, fd) /\ ft.size \in Int
  BY FdTableAssumption DEF LInv, RInv, IInv, Rest, Table, Close
<1>2. Occupied(ft') = Occupied(ft) \ {fd}
  BY <1>1, DetachSlots
<1>3. c \in Nat /\ Occupancy(ft') = c - 1
  BY <1>1, <1>2, OccupiedFinite, FS_RemoveElement DEF Occupancy
<1>4. ft'.size = ft.size /\ ft'.used = Wrap(u + SizeT - 1)
  BY <1>1 DEF Detach
<1>5. Congruent(u, c - n) /\ 2 * (c - n) <= ft.size
  BY <1>1 DEF Load
<1> HIDE DEF u, c, n
<1>6. PICK x \in Int : x = c - n
  BY <1>1, <1>3
<1>7. Congruent(ft'.used, x - 1)
  BY <1>1, <1>4, <1>5, <1>6, UsedSteps
<1>8. Occupancy(ft') - n = x - 1
  BY <1>1, <1>3, <1>6
<1>9. 2 * (x - 1) <= ft'.size
  BY <1>1, <1>4, <1>5, <1>6
<1> QED BY <1>7, <1>8, <1>9 DEF Load, n

(* fd_renumber takes two from `used` and empties one slot.                 *)
LEMMA RenumberLoad ==
  ASSUME NEW from, NEW to
  PROVE  LInv /\ Renumber(from, to) /\ from # to => Load(ft', renumbers')
<1> SUFFICES ASSUME LInv, Renumber(from, to), from # to
             PROVE  Load(ft', renumbers')
  OBVIOUS
<1> DEFINE u == ft.used
           c == Occupancy(ft)
           n == renumbers
           u1 == Wrap(u + SizeT - 1)
           u2 == Wrap(u1 + 1)
           u3 == Wrap(u2 + SizeT - 1)
           u4 == Wrap(u3 + SizeT - 1)
<1>1. /\ Table(ft) /\ n \in Nat /\ u \in Int /\ Load(ft, n) /\ ft.size \in Int
      /\ n' = n + 1 /\ ft' = Moved(from, to) /\ from \in Occupied(ft)
  BY FdTableAssumption DEF LInv, RInv, IInv, Rest, Table, Renumber
<1>2. Occupied(ft') = Occupied(ft) \ {from}
  BY RenumberSlots DEF Renumbered, LInv, RInv
<1>3. c \in Nat /\ Occupancy(ft') = c - 1
  BY <1>1, <1>2, OccupiedFinite, FS_RemoveElement DEF Occupancy
<1>4. ft'.size = ft.size /\ ft'.used = u4
  BY <1>1 DEF Moved, Detach, Attach
<1>5. Congruent(u, c - n) /\ 2 * (c - n) <= ft.size
  BY <1>1 DEF Load
<1>20. n' = renumbers'
  OBVIOUS
<1> HIDE DEF u, c, n
<1>6. PICK x \in Int : x = c - n
  BY <1>1, <1>3
<1>7. Congruent(u1, x - 1) /\ u1 \in Int
  BY <1>1, <1>5, <1>6, UsedSteps
<1> HIDE DEF u1
<1>8. Congruent(u2, x) /\ u2 \in Int
  <2>1. x - 1 \in Int /\ (x - 1) + 1 = x
    BY <1>6
  <2> QED BY <1>7, <2>1, UsedSteps
<1> HIDE DEF u2
<1>9. Congruent(u3, x - 1) /\ u3 \in Int
  BY <1>6, <1>8, UsedSteps
<1> HIDE DEF u3
<1>10. Congruent(u4, x - 2)
  <2>1. x - 1 \in Int /\ (x - 1) - 1 = x - 2
    BY <1>6
  <2> QED BY <1>9, <2>1, UsedSteps
<1> HIDE DEF u4
<1>11. PICK m : m = n + 1
  OBVIOUS
<1>12. Occupancy(ft') - m = x - 2
  BY <1>1, <1>3, <1>6, <1>11
<1>13. 2 * (x - 2) <= ft'.size
  BY <1>1, <1>4, <1>5, <1>6
<1>14. Load(ft', m)
  BY <1>4, <1>10, <1>12, <1>13 DEF Load
<1> QED BY <1>1, <1>11, <1>14, <1>20

(* fd_table_insert_existing                                                *)
LEMMA InsertExistingLoad ==
  ASSUME NEW kind \in Kinds, NEW mode, NEW number \in Nat, LInv,
         next \in Nat, status = "init", InsertExisting(next, kind, mode, number),
         OneSlot(ft')
  PROVE  Load(ft', renumbers)
<1>1. /\ MaxBase(kind, mode) \in SUBSET Rights
      /\ RightsInheriting[kind] \in SUBSET Rights
  BY MaxBaseType
<1>2. next \in Slots(Grow(ft, next, 1)) \ Occupied(ft)
  BY NextSlotFree DEF InsertExisting, LInv, RInv
<1> QED BY <1>1, <1>2, InsertLoad DEF InsertExisting

(* fd_table_insert_fd                                                      *)
LEMMA InsertFdLoad ==
  ASSUME NEW kind \in Kinds, NEW base \in SUBSET Rights,
         NEW inheriting \in SUBSET Rights, LInv,
         InsertFd(kind, base, inheriting), OneSlot(ft')
  PROVE  Load(ft', renumbers)
<1>1. CASE UNCHANGED ft
  BY <1>1 DEF LInv
<1>2. CASE /\ Insertable(ft) /\ DOMAIN heap # ObjectIds
           /\ \E fd \in Slots(Grow(ft, 0, 1)) \ Occupied(Grow(ft, 0, 1)) :
                ft' = Attach(Grow(ft, 0, 1), fd, NewObject, base, inheriting)
  <2>1. PICK fd \in Slots(Grow(ft, 0, 1)) \ Occupied(Grow(ft, 0, 1)) :
          ft' = Attach(Grow(ft, 0, 1), fd, NewObject, base, inheriting)
    BY <1>2
  <2>2. /\ Fitting(ft, 0, 1) # {} /\ 0 \in Nat /\ 1 \in Nat
        /\ Table(ft)
    BY <1>2 DEF Insertable, LInv, RInv, IInv
  <2>3. fd \in Slots(Grow(ft, 0, 1)) \ Occupied(ft)
    BY <2>1, <2>2, GrowKeeps
  <2> QED BY <1>2, <2>1, <2>2, <2>3, InsertLoad
<1> QED BY <1>1, <1>2 DEF InsertFd, InsertFailed

(* The calls that insert.                                                  *)
LEMMA OpenLoad ==
  ASSUME LInv, OneSlot(ft')
  PROVE  /\ SockOpen => Load(ft', renumbers)
         /\ \A fd : SockAccept(fd) => Load(ft', renumbers)
         /\ \A dir, base, inheriting, flags :
              PathOpen(dir, base, inheriting, flags) => Load(ft', renumbers)
<1>1. ASSUME NEW kind \in SocketKinds,
             InsertFd(kind, MaxBase(kind, "RDWR"), RightsInheriting[kind])
      PROVE  Load(ft', renumbers)
  <2>1. kind \in Kinds
    BY FdTableAssumption
  <2> QED BY <1>1, <2>1, MaxBaseType, InsertFdLoad
<1>2. ASSUME NEW dir, NEW base, NEW inheriting, NEW flags,
             PathOpen(dir, base, inheriting, flags)
      PROVE  Load(ft', renumbers)
  <2>1. PICK kind \in Kinds : InsertFd(kind, OpenedBase(kind, base),
                                       inheriting \cap RightsInheriting[kind])
    BY <1>2 DEF PathOpen
  <2>2. /\ OpenedBase(kind, base) \in SUBSET Rights
        /\ inheriting \cap RightsInheriting[kind] \in SUBSET Rights
    BY MaxBaseType DEF OpenedBase
  <2> QED BY <2>1, <2>2, InsertFdLoad
<1> QED BY <1>1, <1>2 DEF SockOpen, SockAccept

(* An empty table.                                                         *)
LEMMA EmptyLoad == ASSUME NEW t, Empty(t) PROVE Load(t, 0)
<1>1. Occupancy(t) = 0
  BY EmptyTable, FS_EmptySet DEF Occupancy
<1>2. 0 - 0 = 0 + 0 * SizeT /\ 0 \in Int /\ 2 * (0 - 0) <= 0 /\ 0 = (0 - 0) + 0 * SizeT
  BY FdTableAssumption
<1>3. t.used = 0 /\ t.size = 0
  BY DEF Empty
<1> QED BY <1>1, <1>2, <1>3 DEF Load, Congruent

(* The invariant of the load holds initially.                              *)
LEMMA LInit == Init => LInv
<1> SUFFICES ASSUME Init PROVE LInv
  OBVIOUS
<1>1. Load(ft, 0) /\ renumbers = 0
  BY EmptyLoad DEF Init, Empty
<1> QED BY <1>1, RInit DEF LInv

(* The invariant of the load is inductive.                                 *)
LEMMA LNext == LInv /\ [Next]_vars => LInv'
<1> SUFFICES ASSUME LInv, [Next]_vars PROVE LInv'
  OBVIOUS
<1>1. RInv' /\ OneSlot(ft')
  BY RNext, ROneSlot DEF LInv
<1>2. status' = "init" => renumbers' = 0
  <2>1. CASE Setup
    BY <2>1 DEF LInv, Setup, InsertStd, InsertPreopen, InitDone, InitFail
  <2>2. CASE Call
    <3>1. status' # "init"
      BY <2>2 DEF Call, SockOpen, Close, SockAccept, FdReaddir, PathSymlinkRefused, Renumber,
         PathLinkRefused, SetRights, PathOpen, InsertFd, InsertFailed
    <3> QED BY <3>1
  <2>3. CASE UNCHANGED vars
    BY <2>3 DEF LInv, vars
  <2> QED BY <2>1, <2>2, <2>3 DEF Next
<1>3. Load(ft', renumbers')
  <2>1. CASE UNCHANGED <<ft, renumbers>>
    BY <2>1 DEF LInv
  <2>2. CASE Setup
    <3>1. CASE InsertStd
      <4>1. PICK kind \in StdKinds[next], mode \in StdModes :
              InsertExisting(next, kind, mode, next)
        BY <3>1 DEF InsertStd
      <4>2. /\ kind \in Kinds /\ next \in Nat /\ status = "init"
            /\ renumbers' = renumbers
        BY <3>1, FdTableAssumption DEF InsertStd, Std
      <4> QED BY <1>1, <4>1, <4>2, InsertExistingLoad
    <3>2. CASE InsertPreopen
      <4>1. /\ Directory \in Kinds /\ next \in Nat /\ status = "init"
            /\ renumbers' = renumbers /\ Unused(1) \subseteq Nat
        BY <3>2, FdTableAssumption, UnusedNat DEF InsertPreopen, LInv, RInv
      <4> QED BY <1>1, <2>1, <3>2, <4>1, InsertExistingLoad DEF InsertPreopen
    <3>3. CASE InitFail
      <4>1. Load(ft', 0) /\ renumbers' = 0
        BY <3>3, EmptyLoad DEF InitFail, Empty, LInv
      <4> QED BY <4>1
    <3> QED BY <2>1, <2>2, <3>1, <3>2, <3>3 DEF Setup, InitDone
  <2>3. CASE Call
    <3>1. ASSUME NEW fd, Close(fd) PROVE Load(ft', renumbers')
      BY <3>1, CloseLoad DEF Close
    <3>2. ASSUME NEW from, NEW to, Renumber(from, to) PROVE Load(ft', renumbers')
      <4>1. CASE from = to
        BY <2>1, <3>2, <4>1 DEF Renumber
      <4>2. CASE from # to
        BY <3>2, <4>2, RenumberLoad
      <4> QED BY <4>1, <4>2
    <3>3. ASSUME NEW fd, NEW base, NEW inheriting, SetRights(fd, base, inheriting)
          PROVE  Load(ft', renumbers')
      <4>1. Occupied(ft') = Occupied(ft)
        BY <3>3, SetRightsSlots DEF Reduced, LInv, RInv
      <4>2. /\ ft'.size = ft.size /\ ft'.used = ft.used /\ renumbers' = renumbers
        BY <3>3 DEF SetRights, Assigned
      <4> QED BY <4>1, <4>2 DEF LInv, Load, Occupancy
    <3>4. CASE \/ SockOpen \/ \E fd : SockAccept(fd)
               \/ \E dir, base, inheriting, flags : PathOpen(dir, base, inheriting, flags)
      <4>1. Load(ft', renumbers)
        BY <1>1, <3>4, OpenLoad
      <4>2. renumbers' = renumbers
        BY <3>4 DEF SockOpen, SockAccept, PathOpen, InsertFd
      <4> QED BY <4>1, <4>2
    <3>5. CASE \/ \E fd : FdReaddir(fd) \/ PathSymlinkRefused(fd)
               \/ \E old, new : PathLinkRefused(old, new)
      BY <2>1, <3>5 DEF FdReaddir, PathSymlinkRefused, PathLinkRefused
    <3> QED BY <2>3, <3>1, <3>2, <3>3, <3>4, <3>5 DEF Call
  <2>4. CASE UNCHANGED vars
    BY <2>1, <2>4 DEF vars
  <2> QED BY <2>2, <2>3, <2>4 DEF Next
<1>4. Load(ft, renumbers)'
  BY <1>3 DEF Load, Occupancy, Occupied, Slots, Congruent
<1> QED BY <1>1, <1>2, <1>4 DEF LInv

(* A table is never more than half full, but for the slots that            *)
(* fd_renumber no longer counts, although the counter it is grown by wraps *)
(* (fd_table_grow, fd_table_attach, fd_table_detach).                      *)
THEOREM HalfFree == Spec => []LoadBounded
<1>1. LInv => LoadBounded
  BY DEF LInv, Load, Occupancy, LoadBounded
<1> QED BY <1>1, LInit, LNext, PTL DEF Spec

===============================================================================
