--------------------------- MODULE PathResolution ---------------------------
(***************************************************************************)
(* What a path of a WASI call means: the directory and the name that       *)
(* path_get (posix.c) may hand to the host, as one path that is walked     *)
(* component by component, without buffers, descriptors or limits.  Module *)
(* PathLookup, the code, implements it.                                    *)
(*                                                                         *)
(* A component is a name with the slash that follows it, or not; of an     *)
(* absolute path the first component has the empty name.  The file system  *)
(* may change under the walk, and the walk may fail at any step.           *)
(***************************************************************************)
EXTENDS Integers, Sequences

CONSTANTS
  FileSystems,  \* each gives the node that a name of a directory stands for
  Root,         \* the directory the path starts from
  Requests      \* paths with their lookup flags

VARIABLES
  fs,      \* the file system as it is now
  state,   \* "idle", "walking", "found" or "failed"
  request, \* flags of the walk: follow and needsFinal
  dirs,    \* directories entered and not left, the first is Root
  rest,    \* the components still to be walked
  name     \* when found: the component to be used in the last of dirs

resolutionVars == <<fs, state, request, dirs, rest, name>>

Dot == [name |-> ".", slash |-> FALSE]
NoRequest == [follow |-> FALSE, needsFinal |-> FALSE]

Here == dirs[Len(dirs)]
Component == Head(rest)
Node == fs[Here][Component.name]

(* A component that is only passed through, and must be a directory.       *)
Passed == Len(rest) > 1 \/ (Component.slash /\ ~request.needsFinal)

(* Links are followed in the last component on demand, or before a slash.  *)
Followed == Passed \/ Component.slash \/ request.follow

(* A link stands for its target; a slash after the link stays behind it.   *)
Slashed(target, slash) ==
  [i \in DOMAIN target |->
     [target[i] EXCEPT !.slash = @ \/ (slash /\ i = Len(target))]]

----------------------------------------------------------------------------

Init ==
  /\ fs \in FileSystems
  /\ state = "idle" /\ request = NoRequest
  /\ dirs = <<>> /\ rest = <<>> /\ name = Dot

Begin ==
  /\ state = "idle" /\ state' = "walking"
  /\ \E r \in Requests :
       /\ rest' = r.path
       /\ request' = [follow |-> r.follow, needsFinal |-> r.needsFinal]
  /\ dirs' = <<Root>>
  /\ UNCHANGED <<fs, name>>

(* The walk goes on, or ends in the directory it has reached.              *)
GoOn(ds, components) ==
  /\ dirs' = ds /\ rest' = components
  /\ IF components = <<>> THEN state' = "found" /\ name' = Dot
                          ELSE UNCHANGED <<state, name>>
  /\ UNCHANGED <<fs, request>>

Walking == state = "walking" /\ rest # <<>>

Stay == Walking /\ Component.name = "." /\ GoOn(dirs, Tail(rest))

Ascend ==
  /\ Walking /\ Component.name = ".." /\ Len(dirs) > 1
  /\ GoOn(SubSeq(dirs, 1, Len(dirs) - 1), Tail(rest))

Named == Walking /\ Component.name \notin {"", ".", ".."}

Enter ==
  /\ Named /\ Passed /\ Node.kind = "directory"
  /\ GoOn(Append(dirs, Node.id), Tail(rest))

Expand ==
  /\ Named /\ Followed /\ Node.kind = "link"
  /\ rest' = Slashed(Node.target, Component.slash) \o Tail(rest)
  /\ UNCHANGED <<fs, state, request, dirs, name>>

Find ==
  /\ Named /\ ~Passed /\ (Followed => Node.kind # "link")
  /\ state' = "found" /\ name' = Component /\ rest' = <<>>
  /\ UNCHANGED <<fs, request, dirs>>

Fail ==
  /\ state = "walking" /\ state' = "failed" /\ rest' = <<>>
  /\ UNCHANGED <<fs, request, dirs, name>>

(* The result is used, and another walk may follow.                        *)
Return ==
  /\ state \in {"found", "failed"} /\ state' = "idle"
  /\ request' = NoRequest /\ dirs' = <<>> /\ rest' = <<>> /\ name' = Dot
  /\ UNCHANGED fs

Change ==
  /\ fs' \in FileSystems
  /\ UNCHANGED <<state, request, dirs, rest, name>>

Next == Begin \/ Stay \/ Ascend \/ Enter \/ Expand \/ Find \/ Fail \/ Return \/ Change

Resolution == Init /\ [][Next]_resolutionVars
=============================================================================
