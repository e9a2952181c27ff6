----------------------------- MODULE PathLookup -----------------------------
(***************************************************************************)
(* path_get and path_put (posix.c): the walk over a path with a stack of   *)
(* directory descriptors and a stack of partly read path strings, one      *)
(* action per turn of the loop, and one more where a link is read after    *)
(* the directory could not be opened.  Between two actions another process *)
(* may change the file system.                                             *)
(*                                                                         *)
(* A path string is the sequence of its components (see PathResolution).   *)
(* The sizes of the stacks and the limit on expansions are constants.      *)
(***************************************************************************)
EXTENDS Integers, SequencesExt

CONSTANTS
  FileSystems,    \* each gives the node that a name of a directory stands for
  Root,           \* the directory of the descriptor a path starts from
  Paths,          \* paths a program passes to a call
  MaxDirs,        \* entries of fds[] (128)
  MaxPaths,       \* entries of paths[] (32)
  MaxExpansions,  \* the expansion of a link that is refused (128)
  MaxChanges      \* bound: changes of the file system during a call

Directories == UNION {DOMAIN f : f \in FileSystems}
Names == UNION {UNION {DOMAIN f[d] : d \in DOMAIN f} : f \in FileSystems}

(* A name, and whether a slash follows it; "" stands for the root.         *)
Components == [name : Names \cup {"", ".", ".."}, slash : BOOLEAN]

Nodes ==
  [kind : {"file", "absent"}] \cup [kind : {"directory"}, id : Directories]
    \cup [kind : {"link"}, target : Seq(Components)]

(* The file systems differ in what a name stands for, never in the         *)
(* directories there are: a directory that is open can still be searched.  *)
ASSUME PathLookupAssumption ==
  /\ {MaxDirs, MaxPaths, MaxExpansions} \subseteq Nat \ {0}
  /\ MaxChanges \in Nat
  /\ FileSystems \subseteq [Directories -> [Names -> Nodes]]
  /\ Paths \subseteq Seq(Components)
  /\ Root \in Directories /\ "none" \notin Directories

VARIABLES
  fs,       \* the file system of the host
  changes,  \* history: changes during this call
  lk,       \* the locals of path_get
  held      \* what a call has and must give back, by kind

lookupVars == <<fs, changes, lk, held>>

Kinds == {"blocks", "dirs", "references", "locks", "fds"}
Nothing == [k \in Kinds |-> 0]

Plus(h, kind, n) == [h EXCEPT ![kind] = @ + n]
Minus(h, kind, n) == [h EXCEPT ![kind] = @ - n]

Dot == [name |-> ".", slash |-> FALSE]

(* pc: "idle", "loop", "readlink", or the label "success" or "fail".       *)
NoLookup ==
  [pc |-> "idle", follow |-> FALSE, needsFinal |-> FALSE,
   fds |-> <<>>, paths |-> <<>>, expansions |-> 0, file |-> Dot]

LookupOf(path, follow, needsFinal) ==
  [pc |-> "loop", follow |-> follow, needsFinal |-> needsFinal,
   fds |-> <<Root>>, paths |-> <<path>>, expansions |-> 0, file |-> Dot]

----------------------------------------------------------------------------
(* The top of paths[] (its last element) and the component to be read *)

Top == lk.paths[Len(lk.paths)]
File == Head(Top)
CurrentDir == lk.fds[Len(lk.fds)]
Entry(name) == fs[CurrentDir][name]

Butlast(s) == SubSeq(s, 1, Len(s) - 1)

(* The component is taken from the top string.                             *)
Taken == Append(Butlast(lk.paths), Tail(Top))

Looping == lk.pc = "loop" /\ Top # <<>>
NamedFile == Looping /\ File.name \notin {"", ".", ".."}

(* It must be a directory: more components follow, or a slash does.        *)
Inner ==
  \/ Len(lk.paths) > 1 \/ Tail(Top) # <<>>
  \/ File.slash /\ ~lk.needsFinal

(* The end of a turn: a string without further components is freed; when   *)
(* it is the path itself the lookup is done, and its result is ".".        *)
EndOfTurn(l, h) ==
  LET finished == l.paths[Len(l.paths)] = <<>>
  IN  /\ held' = IF finished THEN Minus(h, "blocks", 1) ELSE h
      /\ lk' = IF ~finished THEN l
               ELSE IF Len(l.paths) = 1 THEN [l EXCEPT !.pc = "success", !.paths = <<>>]
                                        ELSE [l EXCEPT !.paths = Butlast(@)]

Failed(l, h) == lk' = [l EXCEPT !.pc = "fail"] /\ held' = h

Otherwise == UNCHANGED <<fs, changes>>

----------------------------------------------------------------------------
(* The turns of the loop *)

(* An empty path, and an absolute one.                                     *)
Unresolvable ==
  /\ lk.pc = "loop" /\ ~(Looping /\ File.name # "")
  /\ Failed(lk, held) /\ Otherwise

Skip ==
  /\ Looping /\ File.name = "."
  /\ EndOfTurn([lk EXCEPT !.paths = Taken, !.file = Dot], held) /\ Otherwise

(* Mutant: ".." is entered like any other name.                            *)
PoppedFds(fds) == Append(fds, fs[CurrentDir][".."].id)

(* ".." takes the last directory off the stack.                            *)
Popped(fds) == Butlast(fds)

Parent ==
  /\ Looping /\ File.name = ".."
  /\ IF Len(lk.fds) = 1 THEN Failed([lk EXCEPT !.paths = Taken], held)
     ELSE EndOfTurn([lk EXCEPT !.paths = Taken, !.fds = Popped(@)], Minus(held, "dirs", 1))
  /\ Otherwise

(* openat with O_NOFOLLOW: a link, and what is no directory, may still be  *)
(* expanded; any other error of the host ends the lookup.                  *)
EnterDirectory ==
  LET l == [lk EXCEPT !.paths = Taken]
      entry == Entry(File.name)
  IN  /\ NamedFile /\ Inner
      /\ \/ Failed(l, held)
         \/ /\ entry.kind = "directory"
            /\ IF Len(lk.fds) = MaxDirs THEN Failed(l, held)
               ELSE EndOfTurn([l EXCEPT !.fds = Append(@, entry.id)], Plus(held, "dirs", 1))
         \/ /\ entry.kind \in {"link", "file"}
            /\ lk' = [l EXCEPT !.pc = "readlink", !.file = File] /\ UNCHANGED held
      /\ Otherwise

(* The final component: a link is followed if a slash follows, or on       *)
(* demand, and otherwise is the result.                                    *)
FinalComponent ==
  LET l == [lk EXCEPT !.paths = Taken, !.file = File]
  IN  /\ NamedFile /\ ~Inner
      /\ lk' = [l EXCEPT !.pc = IF File.slash \/ lk.follow THEN "readlink" ELSE "success"]
      /\ UNCHANGED held /\ Otherwise

----------------------------------------------------------------------------
(* Links: readlinkat_dup, then the label push_symlink *)

(* The component in file was inner: with its string, others or a slash.    *)
WasInner == Len(lk.paths) > 1 \/ Top # <<>> \/ (lk.file.slash /\ ~lk.needsFinal)

(* Mutant: the slash that followed the link is forgotten.                  *)
Bare(target, slash) == target

Slashed(target, slash) ==
  [i \in DOMAIN target |->
     [target[i] EXCEPT !.slash = @ \/ (slash /\ i = Len(target))]]

(* Mutant: expansions are not counted.                                     *)
Uncounted(n) == n

(* ++expansions                                                            *)
Counted(n) == n + 1

(* The buffer with the target is a new block; a string that was finished   *)
(* is freed and replaced, one that was not stays below.                    *)
PushSymlink(target) ==
  LET l == [lk EXCEPT !.expansions = Counted(@), !.pc = "loop", !.file = Dot]
      string == Slashed(target, lk.file.slash)
  IN  IF l.expansions = MaxExpansions \/ (Top # <<>> /\ Len(lk.paths) = MaxPaths)
      THEN Failed(l, held)
      ELSE IF Top = <<>>
      THEN lk' = [l EXCEPT !.paths = Append(Butlast(@), string)] /\ UNCHANGED held
      ELSE lk' = [l EXCEPT !.paths = Append(@, string)] /\ held' = Plus(held, "blocks", 1)

ReadLink ==
  LET entry == Entry(lk.file.name)
  IN  /\ lk.pc = "readlink"
      /\ \/ Failed(lk, held)
         \/ entry.kind = "link" /\ PushSymlink(entry.target)
         \/ /\ entry.kind # "link" /\ ~WasInner
            /\ lk' = [lk EXCEPT !.pc = "success"] /\ UNCHANGED held
      /\ Otherwise

----------------------------------------------------------------------------
(* The labels success and fail, and path_put *)

NoLease == [dir |-> "none", name |-> Dot, start |-> FALSE, opened |-> FALSE]

(* pa: what the caller gets.                                               *)
Lease ==
  [dir |-> CurrentDir, name |-> lk.file,
   start |-> lk.paths # <<>>, opened |-> Len(lk.fds) > 1]

(* On failure every directory is closed, every string is freed, and the    *)
(* reference to the base is given back.                                    *)
HeldAfterFail ==
  Minus(Minus(Minus(held, "dirs", Len(lk.fds) - 1), "blocks", Len(lk.paths)), "references", 1)

(* On success the directories between the base and the last are closed.    *)
Between(fds) == IF Len(fds) > 2 THEN Len(fds) - 2 ELSE 0

HeldAfterSuccess == Minus(held, "dirs", Between(lk.fds))

(* path_put gives back what pa has.                                        *)
Put(h, lease) ==
  LET one(b) == IF b THEN 1 ELSE 0
  IN  Minus(Minus(Minus(h, "blocks", one(lease.start)),
                  "dirs", one(lease.opened)), "references", 1)

(* Another process changes a directory.                                    *)
ChangeFileSystem ==
  /\ lk.pc \in {"loop", "readlink"} /\ changes < MaxChanges
  /\ fs' \in FileSystems \ {fs} /\ changes' = changes + 1
  /\ UNCHANGED <<lk, held>>

LookupStep ==
  \/ Unresolvable \/ Skip \/ Parent \/ EnterDirectory \/ FinalComponent \/ ReadLink

----------------------------------------------------------------------------
(* The walk of PathResolution that path_get implements *)

State == CASE lk.pc = "idle" -> "idle" [] lk.pc = "success" -> "found"
           [] lk.pc = "fail" -> "failed" [] OTHER -> "walking"

Rest == IF lk.pc = "readlink" THEN <<lk.file>> \o FlattenSeq(Reverse(lk.paths)) ELSE
        IF lk.pc = "loop" THEN FlattenSeq(Reverse(lk.paths)) ELSE <<>>

=============================================================================
