------------------------------ MODULE WasiCalls ------------------------------
(***************************************************************************)
(* A program that makes WASI calls, one after the other: the programs of   *)
(* module WasiWrapper run step by step, with the lookup of module          *)
(* PathLookup for a path, and with the loops of poll_oneoff and fd_readdir *)
(* here.  Every step that can fail may fail.                               *)
(***************************************************************************)
EXTENDS PathLookup, WasiWrapper, FiniteSets

CONSTANTS
  Subscriptions,  \* the lists of subscriptions a program polls
  DirSize,        \* entries of the directory that is listed
  EntrySize,      \* room an entry takes in the buffer ...
  Rooms           \* ... and the sizes of buffers a program has

ASSUME WasiCallsAssumption ==
  /\ Subscriptions \subseteq Seq({"good", "bad", "clock", "long", "absolute", "other"})
  /\ DirSize \in Nat /\ EntrySize \in Nat \ {0} /\ Rooms \subseteq Nat

VARIABLES
  status,     \* "running", or how the program ended: "trapped", "aborted"
  exception,  \* the exception of the module is set
  call,       \* the call that runs, with its flags, or NoCall
  at,         \* the step of its program that is next ...
  back,       \* ... or, if not 0, that of the cleanup of step at
  ret,        \* the result of the last system call: "ok" or "failed"
  failed,     \* history: a system call of this call has failed
  pa,         \* the path leases of the call
  granted,    \* history: the rights its references were got with
  poll,       \* the locals of poll_oneoff
  dir,        \* of a directory's object: handle, offset; the host's position
  list        \* the locals of fd_readdir

callVars == <<status, exception, call, at, back, ret, failed, pa, granted, poll, dir, list>>
vars == <<lookupVars, callVars>>
result == <<ret, failed>>

NoCall == [name |-> "none", flags |-> {}]
Slots == {"fd", "pa", "old", "new"}

Prog == native_symbols_libc_wasi[call.name][call.flags]
NoPoll == [pc |-> "idle", subs |-> <<>>, next |-> 0, clock |-> 0, good |-> {}, events |-> <<>>]
NoList == [cookie |-> 0, room |-> 0, used |-> 0, entries |-> <<>>]

Init ==
  /\ fs \in FileSystems /\ changes = 0 /\ lk = NoLookup /\ held = Nothing
  /\ status = "running" /\ exception = FALSE
  /\ call = NoCall /\ at = 0 /\ back = 0 /\ ret = "ok" /\ failed = FALSE
  /\ pa = [s \in Slots |-> NoLease] /\ granted = [s \in Slots |-> {}]
  /\ poll = NoPoll /\ list = NoList
  /\ dir = [open |-> FALSE, offset |-> 0, pos |-> 0]

----------------------------------------------------------------------------
(* Calls and their steps *)

(* A bound: after a call that kept something no other is made, and while a *)
(* directory has a handle it is listed; other calls do not use the handle. *)
Begin ==
  /\ status = "running" /\ call = NoCall /\ held = Nothing
  /\ \E name \in Calls :
       /\ dir.open => name = "fd_readdir"
       /\ \E flags \in DOMAIN native_symbols_libc_wasi[name] :
            call' = [name |-> name, flags |-> flags]
  /\ at' = 1
  /\ UNCHANGED <<lookupVars, status, exception, back, result, pa, granted, poll, dir, list>>

Running == call # NoCall /\ status = "running"
Finished == Running /\ IF back = 0 THEN at > Len(Prog) ELSE back > Len(Prog[at].undo)

(* wasm_runtime_invoke_native: an exception ends the program.              *)
Return ==
  /\ Finished
  /\ status' = IF exception THEN "trapped" ELSE status
  /\ call' = NoCall /\ at' = 0 /\ back' = 0 /\ changes' = 0
  /\ ret' = "ok" /\ failed' = FALSE
  /\ pa' = [s \in Slots |-> NoLease] /\ granted' = [s \in Slots |-> {}]
  /\ poll' = NoPoll /\ list' = NoList
  /\ UNCHANGED <<fs, lk, held, exception, dir>>

Current == IF back = 0 THEN Prog[at] ELSE Prog[at].undo[back]
At(op) == Running /\ ~Finished /\ Current.op = op

Move == IF back = 0 THEN at' = at + 1 /\ UNCHANGED back
                    ELSE back' = back + 1 /\ UNCHANGED at
Error == back' = 1 /\ UNCHANGED at

Lookup == UNCHANGED lookupVars
Locals == UNCHANGED <<pa, granted, poll, dir, list>>
Hold(h) == held' = h /\ UNCHANGED <<fs, changes, lk>>

(* An address outside of the memory sets the exception.                    *)
CheckAddress ==
  /\ At("address")
  /\ \/ Move /\ UNCHANGED exception
     \/ Error /\ exception' = TRUE
  /\ UNCHANGED <<status, call, result>> /\ Lookup /\ Locals

CheckArgument ==
  /\ \/ At("argument") /\ (Move \/ Error)
     \/ At("refuse") /\ Error
  /\ UNCHANGED <<status, exception, call, result>> /\ Lookup /\ Locals

Take ==
  /\ \/ At("allocate") /\ Move /\ Hold(Plus(held, "blocks", 1))
     \/ At("allocate") /\ Error /\ Lookup
     \/ At("lock") /\ Move /\ Hold(Plus(held, "locks", 1))
  /\ UNCHANGED <<status, exception, call, result>> /\ Locals

Give ==
  /\ \/ At("free") /\ Hold(Minus(held, "blocks", 1))
     \/ At("unlock") /\ Hold(Minus(held, "locks", 1))
     \/ At("close") /\ Hold(Minus(held, "fds", 1))
  /\ Move
  /\ UNCHANGED <<status, exception, call, result>> /\ Locals

(* fd_object_get: the slot may be empty, or lack rights.                   *)
GetReference ==
  /\ At("reference")
  /\ \/ /\ Move /\ Hold(Plus(held, "references", 1))
        /\ granted' = [granted EXCEPT !["fd"] = Current.arg]
     \/ Error /\ Lookup /\ UNCHANGED granted
  /\ UNCHANGED <<status, exception, call, result, pa, poll, dir, list>>

ReleaseReference ==
  /\ At("release") /\ Move /\ Hold(Minus(held, "references", 1))
  /\ granted' = [granted EXCEPT !["fd"] = {}]
  /\ UNCHANGED <<status, exception, call, result, pa, poll, dir, list>>

(* A system call, on Linux; it may fail for any reason.                    *)
SystemCall ==
  /\ \/ /\ At("host") /\ Move /\ ret' = "ok" /\ UNCHANGED failed
        /\ IF Current.arg = "nothing" THEN Lookup ELSE Hold(Plus(held, Current.arg, 1))
     \/ /\ At("host") \/ At("refused")
        /\ Move /\ ret' = "failed" /\ failed' = TRUE /\ Lookup
     \/ At("ignored") /\ Move /\ ret' = "ok" /\ UNCHANGED failed /\ Lookup
     \/ /\ At("if_succeeded") /\ back = 0 /\ Lookup /\ UNCHANGED <<back, result>>
        /\ at' = IF ret = "ok" THEN at + 1 ELSE at + 1 + Current.arg
  /\ UNCHANGED <<status, exception, call>> /\ Locals

(* if (ret < 0) return convert_errno(errno): convert_errno never gives 0.  *)
ReportResult ==
  /\ At("report") /\ IF ret = "ok" THEN Move ELSE Error
  /\ UNCHANGED <<status, exception, call, result>> /\ Lookup /\ Locals

(* fd_table_insert_fd closes what it does not insert.                      *)
InsertDescriptor ==
  /\ At("insert") /\ (Move \/ Error) /\ Hold(Minus(held, "fds", 1))
  /\ UNCHANGED <<status, exception, call, result>> /\ Locals

(* linkat failed with ENOTSUP and the target could be read, or not.        *)
UnlessUnsupported ==
  /\ At("unless_unsupported")
  /\ \/ ret = "failed" /\ Move /\ Hold(Plus(held, "blocks", 1))
     \/ at' = at + 1 + Current.arg /\ UNCHANGED back /\ Lookup
  /\ UNCHANGED <<status, exception, call, result>> /\ Locals

Throw ==
  /\ At("throw") /\ Move /\ exception' = TRUE
  /\ UNCHANGED <<status, call, result>> /\ Lookup /\ Locals

(* random_buf aborts the process when the host has no randomness.          *)
Randomness ==
  /\ At("random") /\ Move /\ status' \in {"running", "aborted"}
  /\ UNCHANGED <<exception, call, result>> /\ Lookup /\ Locals

----------------------------------------------------------------------------
(* Paths: path_get around the loop of PathLookup, and path_put *)

(* A copy of the path, and the reference; a path with a NUL is refused.    *)
StartPath ==
  /\ At("path_get") /\ lk.pc = "idle"
  /\ \/ /\ \E path \in Paths :
             lk' = LookupOf(path, Current.arg.follow, Current.arg.needsFinal)
        /\ held' = Plus(Plus(held, "blocks", 1), "references", 1)
        /\ granted' = [granted EXCEPT ![Current.arg.slot] = Current.arg.rights]
        /\ UNCHANGED <<fs, changes, at, back>>
     \/ Error /\ Lookup /\ UNCHANGED granted
  /\ UNCHANGED <<status, exception, call, result, pa, poll, dir, list>>

StepPath == LookupStep /\ UNCHANGED callVars

Interfere == ChangeFileSystem /\ UNCHANGED callVars

PathFound ==
  /\ lk.pc = "success" /\ lk' = NoLookup /\ held' = HeldAfterSuccess
  /\ pa' = [pa EXCEPT ![Current.arg.slot] = Lease]
  /\ Move
  /\ UNCHANGED <<fs, changes, status, exception, call, result, granted, poll, dir, list>>

PathRefused ==
  /\ lk.pc = "fail" /\ lk' = NoLookup /\ held' = HeldAfterFail
  /\ granted' = [granted EXCEPT ![Current.arg.slot] = {}]
  /\ Error
  /\ UNCHANGED <<fs, changes, status, exception, call, result, pa, poll, dir, list>>

PutPath ==
  /\ At("path_put") /\ Move /\ Hold(Put(held, pa[Current.arg]))
  /\ pa' = [pa EXCEPT ![Current.arg] = NoLease]
  /\ granted' = [granted EXCEPT ![Current.arg] = {}]
  /\ UNCHANGED <<status, exception, call, result, poll, dir, list>>

----------------------------------------------------------------------------
(* poll_oneoff *)

Clocks == {"clock", "long", "absolute"}
Event(i, kind) == <<[sub |-> i, kind |-> kind]>>

PollOnly == UNCHANGED <<fs, changes, lk, status, exception, call, pa, granted, dir, list>>

(* A single clock is slept on.  Otherwise two arrays are allocated, and    *)
(* the table is locked.                                                    *)
StartPoll ==
  /\ At("poll") /\ poll.pc = "idle" /\ PollOnly /\ UNCHANGED result
  /\ \E subs \in Subscriptions :
       LET p == [NoPoll EXCEPT !.subs = subs, !.next = 1]
       IN  IF Len(subs) = 1 /\ subs[1] \in Clocks
           THEN poll' = [p EXCEPT !.pc = "sleep"] /\ UNCHANGED <<held, at, back>>
           ELSE \/ /\ poll' = [p EXCEPT !.pc = "subscribe"]
                   /\ held' = Plus(Plus(held, "blocks", 2), "locks", 1)
                   /\ UNCHANGED <<at, back>>
                \/ Error /\ UNCHANGED <<held, poll>>

(* An error of the clock is part of the event.                             *)
Sleep ==
  /\ poll.pc = "sleep"
  /\ \E kind \in {"clock", "error"} :
       poll' = [poll EXCEPT !.pc = "done", !.events = Event(1, kind)]
  /\ PollOnly /\ UNCHANGED <<held, at, back, result>>

(* One turn of the loop over the subscriptions, and its end.               *)
Subscribe ==
  LET i == poll.next
      p == [poll EXCEPT !.next = i + 1]
  IN  /\ poll.pc = "subscribe" /\ PollOnly /\ UNCHANGED <<at, back, result>>
      /\ IF i > Len(poll.subs)
         THEN poll' = [poll EXCEPT !.pc = "wait"] /\ held' = Minus(held, "locks", 1)
         ELSE IF poll.subs[i] = "good"
         THEN poll' = [p EXCEPT !.good = @ \cup {i}] /\ held' = Plus(held, "references", 1)
         ELSE IF poll.subs[i] \in {"clock", "long"} /\ poll.clock = 0
         THEN poll' = [p EXCEPT !.clock = i] /\ UNCHANGED held
         ELSE poll' = [p EXCEPT !.events = @ \o Event(i, "error")] /\ UNCHANGED held

(* poll gets no timeout: there are no events yet, and no clock that the    *)
(* milliseconds of an int can hold.                                        *)
Forever ==
  /\ poll.events = <<>>
  /\ poll.clock = 0 \/ poll.subs[poll.clock] = "long"

(* Mutant: the clock fires though there are events.                        *)
ClockFiresAnyway == poll.clock # 0

(* Only when nothing else is there to report.                              *)
ClockFires == poll.events = <<>> /\ poll.clock # 0

(* The descriptors that answered, in the order of the subscriptions.       *)
InOrder(answered) ==
  LET is == CHOOSE s \in [1 .. Cardinality(answered) -> answered] :
              \A i, j \in DOMAIN s : i < j => s[i] < s[j]
  IN  [k \in DOMAIN is |-> [sub |-> is[k], kind |-> "descriptor"]]

(* poll, and the events: at most one for each descriptor that answered.    *)
Wait ==
  LET released(events) == [poll EXCEPT !.pc = "release", !.events = events]
  IN  /\ poll.pc = "wait" /\ PollOnly /\ UNCHANGED <<held, at, back>>
      /\ \/ ret' = "failed" /\ failed' = TRUE /\ poll' = released(poll.events)
         \/ /\ ret' = "ok" /\ UNCHANGED failed /\ ~Forever
            /\ poll' = released(poll.events \o IF ClockFires THEN Event(poll.clock, "clock") ELSE <<>>)
         \/ /\ ret' = "ok" /\ UNCHANGED failed
            /\ \E answered \in (SUBSET poll.good) \ {{}} :
                 poll' = released(poll.events \o InOrder(answered))

EndPoll ==
  /\ PollOnly /\ UNCHANGED result
  /\ \/ /\ poll.pc = "release" /\ poll' = [poll EXCEPT !.pc = "done"]
        /\ held' = Minus(Minus(held, "references", Cardinality(poll.good)), "blocks", 2)
        /\ UNCHANGED <<at, back>>
     \/ /\ poll.pc = "done" /\ At("poll") /\ Move /\ UNCHANGED <<held, poll>>

----------------------------------------------------------------------------
(* fd_readdir: the handle of the directory stays with its object *)

ListOnly == UNCHANGED <<lookupVars, status, exception, call, pa, granted, poll>>

OpenDirectory ==
  /\ At("opendir") /\ ListOnly /\ UNCHANGED <<result, list>>
  /\ \/ dir.open /\ Move /\ UNCHANGED dir
     \/ ~dir.open /\ Move /\ dir' = [open |-> TRUE, offset |-> 0, pos |-> 0]
     \/ ~dir.open /\ Error /\ UNCHANGED dir

(* The program may ask for any position it was told.                       *)
SeekDirectory ==
  /\ At("seekdir") /\ Move /\ ListOnly /\ UNCHANGED result
  /\ \E cookie \in 0..DirSize, room \in Rooms :
       /\ list' = [NoList EXCEPT !.cookie = cookie, !.room = room]
       /\ dir' = IF dir.offset = cookie THEN dir
                 ELSE [dir EXCEPT !.offset = cookie, !.pos = cookie]

(* Mutant: the position is only stored by a seek.                          *)
UntoldOffset(offset, pos) == offset

(* telldir                                                                 *)
ToldOffset(offset, pos) == pos

ReadEntry ==
  LET pos == dir.pos + 1
      used == list.used + EntrySize
  IN  /\ At("readdir") /\ list.used < list.room /\ pos <= DirSize
      /\ dir' = [dir EXCEPT !.pos = pos, !.offset = ToldOffset(@, pos)]
      /\ list' = [list EXCEPT !.used = IF used > list.room THEN list.room ELSE used,
                              !.entries = Append(@, pos)]
      /\ ListOnly /\ UNCHANGED <<at, back, result>>

(* The buffer is full, the directory is at its end, or the host fails;     *)
(* a failure after the first entry is left for the next call.              *)
EndListing ==
  /\ At("readdir") /\ Move /\ ListOnly /\ UNCHANGED <<dir, list>>
  /\ \/ (list.used = list.room \/ dir.pos = DirSize) /\ ret' = "ok" /\ UNCHANGED failed
     \/ /\ list.used < list.room /\ failed' = TRUE
        /\ ret' = IF list.used > 0 THEN "ok" ELSE "failed"

----------------------------------------------------------------------------

(* What the runtime and the host do by themselves once a call is made.     *)
Progress ==
  \/ Return \/ CheckAddress \/ CheckArgument \/ Take \/ Give
  \/ GetReference \/ ReleaseReference \/ SystemCall \/ ReportResult
  \/ InsertDescriptor \/ UnlessUnsupported \/ Throw \/ Randomness
  \/ StartPath \/ StepPath \/ PathFound \/ PathRefused \/ PutPath
  \/ StartPoll \/ Subscribe \/ EndPoll
  \/ OpenDirectory \/ SeekDirectory \/ ReadEntry \/ EndListing

Next == Begin \/ Progress \/ Interfere \/ Sleep \/ Wait

(* A wait for a descriptor or a clock may last for ever.                   *)
Spec == Init /\ [][Next]_vars /\ WF_vars(Progress)
=============================================================================
