------------------------------ MODULE FdTable ------------------------------
(***************************************************************************)
(* The descriptor table of the WASI layer (sandboxed-system-primitives,    *)
(* posix.c) and its set-up by wasm_runtime_wasi_init.                      *)
(*                                                                         *)
(* A WebAssembly program names a descriptor by its slot in the table.  An  *)
(* occupied slot points to a reference-counted object, which owns a        *)
(* descriptor of the host, and carries the rights of that slot.  The       *)
(* runtime makes one call at a time, so a WASI call is one action.  Calls  *)
(* that take a reference, call the host and give the reference back        *)
(* (fd_read, fd_seek, poll_oneoff, path_unlink_file, ...) leave this state *)
(* as it was and are no actions.  The directories on the way of a path are *)
(* open only while it is looked up, but for those of a lease that is lost. *)
(***************************************************************************)
EXTENDS Integers, FiniteSets, FiniteSetsExt

CONSTANTS
  Kinds,            \* the rows of fd_determine_type_rights
  SocketKinds,      \* the kinds a new socket may have
  StdKinds,         \* the kinds each of descriptors 0, 1 and 2 may have ...
  StdModes,         \* ... and their access modes
  Rights,
  RightsBase,       \* maximal rights of a kind: on itself ...
  RightsInheriting, \* ... and on what is opened through it (rights.h)
  RightsArgs,       \* sets of rights a program asks for
  OpenFlags,        \* flags a program passes to path_open
  Preopens,         \* number of directories given on the command line
  SizeBits,         \* width of size_t ...
  SizeT,            \* ... and the number of its values
  MaxOpens,         \* bound: objects the program creates
  MaxRenumbers,     \* bound: successful calls of fd_renumber
  MaxLost,          \* bound: references never given back
  MaxHandles        \* bound: directories with an open handle

Std == 0..2

Directory == "directory"
File == "regular_file"

ASSUME FdTableAssumption ==
  /\ {Directory, File} \cup SocketKinds \subseteq Kinds
  /\ StdKinds \in [Std -> SUBSET Kinds]
  /\ File \notin SocketKinds
  /\ StdModes \subseteq {"RDONLY", "WRONLY", "RDWR"}
  /\ RightsBase \in [Kinds -> SUBSET Rights]
  /\ RightsInheriting \in [Kinds -> SUBSET Rights]
  /\ RightsArgs \subseteq SUBSET Rights
  /\ {Preopens, MaxOpens, MaxRenumbers, MaxLost, MaxHandles} \subseteq Nat
  /\ SizeBits \in Nat \ {0}
  /\ SizeT \in Nat \ {0} /\ SizeT = 2 ^ SizeBits

\* Every object takes memory, so they number less than half of size_t.
ASSUME RoomAssumption == 2 * (3 + Preopens + MaxOpens) < SizeT

VARIABLES
  status,    \* "init", "up", or how it ended: "failed", "crashed", "hung"
  next,      \* wasm_fd of wasm_runtime_wasi_init, and the slot before it
  ft,        \* struct fd_table: entries, size, used
  prestats,  \* the slots struct fd_prestats names a directory for
  heap,      \* the fd_objects that are allocated
  host,      \* the descriptors of the process that are open
  strays,    \* history: open host descriptors nobody closes any more
  opens,     \* history: objects the program created
  renumbers, \* history: successful calls of fd_renumber
  lost       \* history: for each object, references never given back

vars == <<status, next, ft, prestats, heap, host, strays, opens, renumbers, lost>>

----------------------------------------------------------------------------
(* Objects, references and host descriptors *)

ObjectIds == 1 .. 3 + Preopens + MaxOpens
NoObject == 0
Free == [object |-> NoObject, base |-> {}, inheriting |-> {}]

Slots(t) == 0 .. t.size - 1
Occupied(t) == {fd \in Slots(t) : t.entries[fd].object # NoObject}
SlotsOf(t, o) == {fd \in Slots(t) : t.entries[fd].object = o}

\* malloc yields what is not in use; nothing depends on which.
NewObject == CHOOSE o \in ObjectIds : o \notin DOMAIN heap

\* What n calls of open may answer: the free numbers of standard descriptors
\* and the n lowest others, which directories of a path may push it to.
Unused(n) ==
  {m \in (0 .. Cardinality(host) + n + 2) \ host :
     Cardinality((3 .. m - 1) \ host) < n}

Alloc(h, o, kind, number) ==
  [p \in DOMAIN h \cup {o} |->
     IF p = o
     THEN [kind |-> kind, number |-> number, refs |-> 1, handle |-> FALSE]
     ELSE h[p]]

Acquire(h, o) == [h EXCEPT ![o].refs = @ + 1]

\* Mutant: the last reference does not free the object.
MutantRelease(h, o) == [h EXCEPT ![o].refs = @ - 1]

\* fd_object_release on the heap: the last reference frees the object ...
Release(h, o) ==
  IF h[o].refs = 1
  THEN [p \in DOMAIN h \ {o} |-> h[p]]
  ELSE [h EXCEPT ![o].refs = @ - 1]

\* ... and on the host, where the numbers of the standard descriptors stay
\* open (CLOSE_NON_STD_FD), except that closedir closes any number.
Closed(h, o) ==
  IF h[o].refs # 1 THEN {} ELSE
  IF h[o].handle THEN {h[o].number} ELSE {h[o].number} \ Std

----------------------------------------------------------------------------
(* struct fd_table *)

\* Arithmetic of size_t.
Wrap(n) == n % SizeT

\* The sizes that doubling passes through before it wraps to zero.
Doublings(n) ==
  LET first == IF n = 0 THEN 1 ELSE n
  IN {s \in {first * 2 ^ k : k \in 0..SizeBits} : s \in first .. SizeT - 1}

\* Mutant: the free half is not asked for.
MutantFitting(t, min, incr) ==
  {s \in Doublings(t.size) : s > min /\ s >= Wrap(t.used + incr)}

\* What fd_table_grow accepts; without any, it doubles zero for ever.
Fitting(t, min, incr) ==
  {s \in Doublings(t.size) : s > min /\ s >= Wrap((t.used + incr) * 2)}

GrowTo(t, s) ==
  [entries |-> [fd \in 0 .. s - 1 |->
                  IF fd < t.size THEN t.entries[fd] ELSE Free],
   size |-> s,
   used |-> t.used]

Grow(t, min, incr) ==
  GrowTo(t, CHOOSE s \in Fitting(t, min, incr) :
              \A r \in Fitting(t, min, incr) : s <= r)

Attach(t, fd, o, base, inheriting) ==
  [entries |-> [t.entries EXCEPT ![fd] =
                  [object |-> o, base |-> base, inheriting |-> inheriting]],
   size |-> t.size,
   used |-> Wrap(t.used + 1)]

Detach(t, fd) ==
  [entries |-> [t.entries EXCEPT ![fd] = Free],
   size |-> t.size,
   used |-> Wrap(t.used + SizeT - 1)]

\* fd_table_get_entry
Has(fd, base, inheriting) ==
  /\ fd \in Occupied(ft)
  /\ base \subseteq ft.entries[fd].base
  /\ inheriting \subseteq ft.entries[fd].inheriting

\* Mutant: the access mode takes nothing away.
MutantMaxBase(kind, mode) == RightsBase[kind]

\* fd_determine_type_rights: the access mode takes rights away.
MaxBase(kind, mode) ==
  RightsBase[kind] \ (IF mode = "RDONLY" THEN {"FD_WRITE"} ELSE
                      IF mode = "WRONLY" THEN {"FD_READ"} ELSE {})

----------------------------------------------------------------------------
(* Set-up: wasm_runtime_wasi_init *)

Init ==
  /\ status = "init"
  /\ next = 0
  /\ ft = [entries |-> [fd \in {} |-> Free], size |-> 0, used |-> 0]
  /\ prestats = {}
  /\ heap = [o \in {} |-> [kind |-> Directory, number |-> 0, refs |-> 0,
                            handle |-> FALSE]]
  /\ host = Std
  /\ strays = {}
  /\ opens = 0
  /\ renumbers = 0
  /\ lost = [o \in ObjectIds |-> 0]

\* fd_table_insert_existing, when nothing fails.
InsertExisting(slot, kind, mode, number) ==
  /\ DOMAIN heap # ObjectIds
  /\ Fitting(ft, slot, 1) # {}
  /\ ft' = Attach(Grow(ft, slot, 1), slot, NewObject,
                  MaxBase(kind, mode), RightsInheriting[kind])
  /\ heap' = Alloc(heap, NewObject, kind, number)

InsertStd ==
  /\ status = "init" /\ next \in Std
  /\ \E kind \in StdKinds[next], mode \in StdModes :
       InsertExisting(next, kind, mode, next)
  /\ next' = next + 1
  /\ UNCHANGED <<status, prestats, host, strays, opens, renumbers, lost>>

\* A directory of the command line is opened and inserted.  The results of
\* both insertions are ignored.  What fails before the object owns the
\* descriptor leaves the descriptor open; a failed growth closes it.
InsertPreopen ==
  /\ status = "init" /\ next \in 3 .. 2 + Preopens
  /\ \/ \E number \in Unused(1) :
          /\ host' = host \cup {number}
          /\ \/ /\ InsertExisting(next, Directory, "RDONLY", number)
                /\ UNCHANGED strays
             \/ /\ strays' = strays \cup {number}
                /\ UNCHANGED <<ft, heap>>
     \/ UNCHANGED <<ft, heap, host, strays>>
  /\ prestats' \in {prestats, prestats \cup {next}}
  /\ next' = next + 1
  /\ UNCHANGED <<status, opens, renumbers, lost>>

InitDone ==
  /\ status = "init" /\ next = 3 + Preopens
  /\ status' = "up"
  /\ UNCHANGED <<next, ft, prestats, heap, host, strays, opens, renumbers, lost>>

\* A failure of any other step: fd_prestats_destroy and fd_table_destroy.
\* No directory has been listed yet.
InitFail ==
  LET kept == {o \in DOMAIN heap :
                 heap[o].refs > Cardinality(SlotsOf(ft, o))}
      freed == DOMAIN heap \ kept
  IN /\ status = "init"
     /\ status' = "failed"
     /\ heap' = [o \in kept |-> [heap[o] EXCEPT !.refs =
                                   @ - Cardinality(SlotsOf(ft, o))]]
     /\ host' = host \ ({heap[o].number : o \in freed} \ Std)
     /\ ft' = [entries |-> [fd \in {} |-> Free], size |-> 0, used |-> 0]
     /\ prestats' = {}
     /\ UNCHANGED <<next, strays, opens, renumbers, lost>>

----------------------------------------------------------------------------
(* The calls of a program *)

\* wasmtime_ssp_fd_close
Close(fd) ==
  /\ status = "up"
  /\ fd \notin prestats /\ fd \in Occupied(ft)
  /\ LET o == ft.entries[fd].object
     IN /\ ft' = Detach(ft, fd)
        /\ heap' = Release(heap, o)
        /\ host' = host \ Closed(heap, o)
  /\ UNCHANGED <<status, next, prestats, strays, opens, renumbers, lost>>

\* The table after fd_renumber; it lowers `used` twice for `from`.
Moved(from, to) ==
  LET e == ft.entries[from]
      t == Detach(Attach(Detach(ft, to), to, e.object, e.base, e.inheriting),
                  from)
  IN [entries |-> t.entries, size |-> t.size, used |-> Wrap(t.used + SizeT - 1)]

\* Mutant: no reference is taken for the new slot.
MutantMovedHeap(from, to) ==
  Release(Release(heap, ft.entries[to].object), ft.entries[from].object)

\* The objects after fd_renumber: a reference for `to`, the old object of
\* `to` released, and then the reference of `from`.
MovedHeap(from, to) ==
  Release(Release(Acquire(heap, ft.entries[from].object),
                  ft.entries[to].object),
          ft.entries[from].object)

\* Mutant: a preopened directory may be renumbered from.
MutantMovable(from, to) == to \notin prestats

\* fd_prestats_get_entry is asked for `to`, then for `from`.
Movable(from, to) == to \notin prestats /\ from \notin prestats

\* wasmtime_ssp_fd_renumber
Renumber(from, to) ==
  /\ status = "up" /\ renumbers < MaxRenumbers
  /\ Movable(from, to)
  /\ {from, to} \subseteq Occupied(ft)
  /\ \/ /\ from # to
        /\ ft' = Moved(from, to)
        /\ heap' = MovedHeap(from, to)
        /\ host' = host \ Closed(heap, ft.entries[to].object)
        /\ renumbers' = renumbers + 1
        /\ UNCHANGED status
     \/ \* The entry was detached before its object is used.
        /\ from = to
        /\ status' = "crashed"
        /\ UNCHANGED <<ft, heap, host, renumbers>>
  /\ UNCHANGED <<next, prestats, strays, opens, lost>>

\* The table after an assignment to the rights of a slot.
Assigned(fd, base, inheriting) ==
  [entries |-> [ft.entries EXCEPT ![fd] =
                  [object |-> @.object, base |-> base,
                   inheriting |-> inheriting]],
   size |-> ft.size,
   used |-> ft.used]

\* Mutant: the rights to pass on are not checked.
MutantSetRights(fd, base, inheriting) ==
  /\ status = "up"
  /\ Has(fd, base, {})
  /\ ft' = Assigned(fd, base, inheriting)
  /\ UNCHANGED <<status, next, prestats, heap, host, strays, opens, renumbers, lost>>

\* wasmtime_ssp_fd_fdstat_set_rights
SetRights(fd, base, inheriting) ==
  /\ status = "up"
  /\ Has(fd, base, inheriting)
  /\ ft' = Assigned(fd, base, inheriting)
  /\ UNCHANGED <<status, next, prestats, heap, host, strays, opens, renumbers, lost>>

\* Mutant: the host descriptor is not closed again.
MutantInsertFailed(number) ==
  /\ host' = host \cup {number}
  /\ UNCHANGED <<status, ft, heap, strays>>

\* A failed insertion closes the new host descriptor again, but for the
\* number of a standard descriptor, which fd_object_release keeps open.
InsertFailed(number) ==
  /\ \/ UNCHANGED <<host, strays>>
     \/ /\ number \in Std
        /\ host' = host \cup {number} /\ strays' = strays \cup {number}
  /\ UNCHANGED <<status, ft, heap>>

\* fd_table_insert ends: fd_table_grow finds a size, and fd_table_unused,
\* which draws random slots until one is free, has a free slot to find.
Insertable(t) ==
  /\ Fitting(t, 0, 1) # {}
  /\ Slots(Grow(t, 0, 1)) # Occupied(Grow(t, 0, 1))

\* fd_table_insert_fd of a host descriptor that was just opened.
InsertFd(kind, base, inheriting) ==
  /\ opens < MaxOpens
  /\ \/ /\ \E number \in Unused(1) : InsertFailed(number)
        /\ UNCHANGED opens
     \/ LET t == Grow(ft, 0, 1)
        IN /\ Insertable(ft) /\ DOMAIN heap # ObjectIds
           /\ \E fd \in Slots(t) \ Occupied(t) :
                ft' = Attach(t, fd, NewObject, base, inheriting)
           /\ \E number \in Unused(1) :
                /\ heap' = Alloc(heap, NewObject, kind, number)
                /\ host' = host \cup {number}
           /\ opens' = opens + 1
           /\ UNCHANGED <<status, strays>>
     \/ /\ ~Insertable(ft)
        /\ status' = "hung"
        /\ UNCHANGED <<ft, heap, host, strays, opens>>
  /\ UNCHANGED <<next, prestats, renumbers, lost>>

Reads(base) == base \cap {"FD_READ", "FD_READDIR"} # {}

WriteClass == {"FD_DATASYNC", "FD_WRITE", "FD_ALLOCATE", "FD_FILESTAT_SET_SIZE"}
Writes(base) == base \cap WriteClass # {}

\* noflags of path_open: without any right that needs more, read only.
Mode(base) == IF ~Writes(base) THEN "RDONLY" ELSE
              IF Reads(base) THEN "RDWR" ELSE "WRONLY"

\* Rights path_open needs on the directory.
NeededBase(flags) ==
  {"PATH_OPEN"}
    \cup (IF "CREAT" \in flags THEN {"PATH_CREATE_FILE"} ELSE {})
    \cup (IF "TRUNC" \in flags THEN {"PATH_FILESTAT_SET_SIZE"} ELSE {})

NeededInheriting(base, inheriting, flags) ==
  base \cup inheriting
    \cup (IF "DSYNC" \in flags THEN {"FD_DATASYNC"} ELSE {})
    \cup (IF flags \cap {"RSYNC", "SYNC"} # {} THEN {"FD_SYNC"} ELSE {})
    \cup (IF Writes(base) /\ flags \cap {"APPEND", "TRUNC"} = {}
          THEN {"FD_SEEK"} ELSE {})

\* What the host may find: it opens directories for reading only, and with
\* the DIRECTORY flag nothing else.
Opens(kind, base, flags) ==
  /\ kind = Directory => ~Writes(base)
  /\ "DIRECTORY" \in flags => kind = Directory

\* Rights path_open adds for directories and regular files.
Added(kind) == IF kind \in {Directory, File} THEN RightsBase[kind] ELSE {}

\* Mutant: the limits of the kind are not applied.
MutantOpenedBase(kind, base) == base \cup Added(kind)

\* Rights of the new descriptor on itself.
OpenedBase(kind, base) == (base \cup Added(kind)) \cap MaxBase(kind, Mode(base))

\* wasmtime_ssp_path_open
PathOpen(dir, base, inheriting, flags) ==
  /\ status = "up"
  /\ Has(dir, NeededBase(flags), NeededInheriting(base, inheriting, flags))
  /\ \E kind \in Kinds :
       /\ Opens(kind, base, flags)
       /\ InsertFd(kind, OpenedBase(kind, base),
                   inheriting \cap RightsInheriting[kind])

\* wasi_ssp_sock_open
SockOpen ==
  /\ status = "up"
  /\ \E kind \in SocketKinds :
       InsertFd(kind, MaxBase(kind, "RDWR"), RightsInheriting[kind])

\* wasi_ssp_sock_accept
SockAccept(fd) ==
  /\ status = "up"
  /\ Has(fd, {"SOCK_ACCEPT"}, {})
  /\ \E kind \in SocketKinds :
       InsertFd(kind, MaxBase(kind, "RDWR"), RightsInheriting[kind])

\* The table and the host after wasmtime_ssp_fd_readdir, which opens a
\* handle for the directory once.  Devices have the right too, and their
\* objects hold no handle: it locks and follows what malloc left there.
FdReaddir(fd) ==
  /\ status = "up"
  /\ Has(fd, {"FD_READDIR"}, {})
  /\ LET o == ft.entries[fd].object
     IN \/ /\ heap[o].kind = Directory
           /\ Cardinality({p \in DOMAIN heap : heap[p].handle}) < MaxHandles
           /\ heap' = [heap EXCEPT ![o].handle = TRUE]
           /\ UNCHANGED status
        \/ /\ heap[o].kind # Directory
           /\ status' = "crashed"
           /\ UNCHANGED heap
  /\ UNCHANGED <<next, ft, prestats, host, strays, opens, renumbers, lost>>

\* One more reference to an object that nobody gives back.
Lose(l, o) == [l EXCEPT ![o] = @ + 1]

Lost == MapThenSumSet(LAMBDA o : lost[o], ObjectIds)

\* The leases of up to n paths are never given back.  A path with a directory
\* on its way had that directory opened by path_get.
LoseLeases(n) ==
  \E dirs \in {d \in SUBSET Unused(n) : Cardinality(d) <= n} :
    host' = host \cup dirs /\ strays' = strays \cup dirs

\* wasmtime_ssp_path_link whose paths validate_path refuses: it returns with
\* both leases.
PathLinkRefused(old, new) ==
  /\ status = "up"
  /\ Has(old, {"PATH_LINK_SOURCE"}, {})
  /\ Has(new, {"PATH_LINK_TARGET"}, {})
  /\ LET o == ft.entries[old].object
         n == ft.entries[new].object
     IN /\ Lost < MaxLost
        /\ heap' = Acquire(Acquire(heap, o), n)
        /\ lost' = Lose(Lose(lost, o), n)
  /\ LoseLeases(2)
  /\ UNCHANGED <<status, next, ft, prestats, opens, renumbers>>

\* wasmtime_ssp_path_symlink refused in the same way.
PathSymlinkRefused(fd) ==
  /\ status = "up"
  /\ Has(fd, {"PATH_SYMLINK"}, {})
  /\ LET o == ft.entries[fd].object
     IN /\ Lost < MaxLost
        /\ heap' = Acquire(heap, o)
        /\ lost' = Lose(lost, o)
  /\ LoseLeases(1)
  /\ UNCHANGED <<status, next, ft, prestats, opens, renumbers>>

Setup == InsertStd \/ InsertPreopen \/ InitDone \/ InitFail

Call ==
  \/ SockOpen
  \/ \E fd \in Occupied(ft) :
       \/ Close(fd) \/ SockAccept(fd) \/ FdReaddir(fd)
       \/ PathSymlinkRefused(fd)
       \/ \E to \in Occupied(ft) : Renumber(fd, to) \/ PathLinkRefused(fd, to)
       \/ \E base, inheriting \in RightsArgs :
            \/ SetRights(fd, base, inheriting)
            \/ \E flags \in SUBSET OpenFlags :
                 PathOpen(fd, base, inheriting, flags)

Next == Setup \/ Call

Spec == Init /\ [][Next]_vars

----------------------------------------------------------------------------
(* Properties *)

Entry == [object : ObjectIds \cup {NoObject}, base : SUBSET Rights,
          inheriting : SUBSET Rights]

FdObject == [kind : Kinds, number : Nat, refs : Nat \ {0}, handle : BOOLEAN]

\* The type invariant.  No object stays allocated without a reference.
TypeOK ==
  /\ status \in {"init", "up", "failed", "crashed", "hung"}
  /\ next \in 0 .. 3 + Preopens
  /\ ft.size \in 0 .. SizeT - 1 /\ ft.used \in 0 .. SizeT - 1
  /\ ft.entries \in [Slots(ft) -> Entry]
  /\ prestats \subseteq 3 .. 2 + Preopens
  /\ DOMAIN heap \subseteq ObjectIds
  /\ heap \in [DOMAIN heap -> FdObject]
  /\ host \subseteq Nat /\ strays \subseteq Nat
  /\ opens \in 0 .. MaxOpens
  /\ renumbers \in 0 .. MaxRenumbers
  /\ lost \in [ObjectIds -> Nat]

\* A slot points to an allocated object, and between two calls the count of
\* an object is its slots and the references lost on error paths: no call
\* frees an object that a slot still names, and none keeps one alive that
\* nothing names (fd_object_get, fd_object_release).
RefsExact ==
  /\ \A fd \in Occupied(ft) : ft.entries[fd].object \in DOMAIN heap
  /\ \A o \in DOMAIN heap :
       heap[o].refs = Cardinality(SlotsOf(ft, o)) + lost[o]

\* Host descriptors: every object owns one that is open, no two own the same,
\* and above the standard ones whatever else is open was lost by wasi_init or
\* with the leases of a refused path_link or path_symlink.  So no call closes
\* a descriptor that is in use, closes one twice or leaves another behind.  A
\* standard descriptor stays open unless it may be a directory, which closedir
\* closes when it was listed.
HostOwned ==
  LET owned == {heap[o].number : o \in DOMAIN heap}
  IN /\ owned \cup strays \subseteq host
     /\ host \subseteq Std \cup owned \cup strays
     /\ owned \cap strays = {}
     /\ \A o \in DOMAIN heap : \A p \in DOMAIN heap \ {o} :
          heap[p].number # heap[o].number
     /\ \A n \in Std \ host : Directory \in StdKinds[n]

\* fd_table_grow keeps half of the slots free, but for those that
\* fd_renumber no longer counts.
LoadBounded == 2 * (Cardinality(Occupied(ft)) - renumbers) <= ft.size

\* Whatever the program asked for, a slot never carries a right that its
\* object's kind does not have (fd_determine_type_rights).
RightsWithinKind ==
  \A fd \in Occupied(ft) :
    LET e == ft.entries[fd]
    IN /\ e.base \subseteq RightsBase[heap[e.object].kind]
       /\ e.inheriting \subseteq RightsInheriting[heap[e.object].kind]

\* The slot of a preopened directory keeps its object as long as the program
\* runs: it is neither closed nor renumbered from or over.
PreopenStable ==
  [][\A fd \in prestats \cap Occupied(ft) :
       status = "up" => ft'.entries[fd].object = ft.entries[fd].object]_vars

\* The rights on an object that is in the table never grow, whichever slots
\* it moves through (fd_fdstat_set_rights, fd_renumber).
RightsShrink ==
  [][\A fd \in Occupied(ft) : \A to \in Occupied(ft)' :
       /\ ft'.entries[to].object = ft.entries[fd].object
       /\ ft.entries[fd].object \in DOMAIN heap'
       => /\ ft'.entries[to].base \subseteq ft.entries[fd].base
          /\ ft'.entries[to].inheriting \subseteq ft.entries[fd].inheriting]_vars

\* A file that path_open makes writable was opened through a directory that
\* passes on a right to modify, even though path_open adds to a new file the
\* rights of all files: the access mode takes FD_WRITE away again.
WriteGranted ==
  [][\A o \in DOMAIN heap' \ DOMAIN heap :
       (status = "up" /\ heap'[o].kind = File) =>
         \A fd \in SlotsOf(ft, o)' :
           "FD_WRITE" \in ft'.entries[fd].base =>
             \E dir \in Occupied(ft) :
               /\ "PATH_OPEN" \in ft.entries[dir].base
               /\ Writes(ft.entries[dir].inheriting)]_vars

\* What the comment on fd_table_grow promises (posix.c:477): however often
\* the program was called back, a table that is asked for one more slot has
\* or gets a minimum number of free entries, so that inserting ends.
FreeSlot == status = "up" => Insertable(ft)

=============================================================================
