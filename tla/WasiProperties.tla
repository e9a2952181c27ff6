--------------------------- MODULE WasiProperties ---------------------------
(***************************************************************************)
(* What the WASI calls promise.                                            *)
(***************************************************************************)
EXTENDS WasiCalls

CONSTANT Outside  \* the directories that are not below the preopened one

(* A directory below the preopened one has only such directories in it,    *)
(* but for its parent.  Which directories these are is settled: that one   *)
(* which is open is itself moved to a place outside is not covered.        *)
ASSUME OutsideAssumption ==
  /\ Root \notin Outside
  /\ \A f \in FileSystems : \A d \in Directories \ Outside : \A n \in Names \ {"", ".", ".."} :
       f[d][n].kind = "directory" => f[d][n].id \notin Outside

----------------------------------------------------------------------------
(* Resources *)

Leased == {s \in Slots : pa[s] # NoLease}

(* The leases with something of a kind to give back.                       *)
LeasesOf(kind) ==
  {s \in Leased : \/ kind = "references"
                  \/ kind = "blocks" /\ pa[s].start
                  \/ kind = "dirs" /\ pa[s].opened}

(* Every call, whichever of its steps fails, gives back the references,    *)
(* locks, buffers, descriptors and directories it got, each exactly once.  *)
(* Only a refusal by validate_path in path_link and path_symlink keeps the *)
(* leases of its paths, and nothing else.                                  *)
Owned ==
  Finished => /\ \A kind \in Kinds : held[kind] = Cardinality(LeasesOf(kind))
              /\ Leased # {} => call.name \in {"path_link", "path_symlink"} /\ back > 0

----------------------------------------------------------------------------
(* Rights *)

(* The right that bears the name of the call.                              *)
NamedRights ==
  [fd_datasync |-> {"FD_DATASYNC"}, fd_read |-> {"FD_READ"}, fd_write |-> {"FD_WRITE"},
   fd_sync |-> {"FD_SYNC"}, fd_tell |-> {"FD_TELL"}, fd_advise |-> {"FD_ADVISE"},
   fd_allocate |-> {"FD_ALLOCATE"}, fd_fdstat_set_flags |-> {"FD_FDSTAT_SET_FLAGS"},
   fd_filestat_get |-> {"FD_FILESTAT_GET"},
   fd_filestat_set_size |-> {"FD_FILESTAT_SET_SIZE"},
   fd_filestat_set_times |-> {"FD_FILESTAT_SET_TIMES"},
   path_create_directory |-> {"PATH_CREATE_DIRECTORY"}, path_open |-> {"PATH_OPEN"},
   path_link |-> {"PATH_LINK_SOURCE", "PATH_LINK_TARGET"},
   path_rename |-> {"PATH_RENAME_SOURCE", "PATH_RENAME_TARGET"},
   path_readlink |-> {"PATH_READLINK"}, path_symlink |-> {"PATH_SYMLINK"},
   path_filestat_get |-> {"PATH_FILESTAT_GET"},
   path_filestat_set_times |-> {"PATH_FILESTAT_SET_TIMES"},
   path_unlink_file |-> {"PATH_UNLINK_FILE"},
   path_remove_directory |-> {"PATH_REMOVE_DIRECTORY"},
   sock_accept |-> {"SOCK_ACCEPT"}, sock_bind |-> {"SOCK_BIND"},
   sock_listen |-> {"SOCK_LISTEN"}, sock_addr_local |-> {"SOCK_ADDR_LOCAL"}]

(* Where posix.c asks for another right than the one that bears the name.  *)
OtherRights ==
  [sock_connect |-> {"SOCK_BIND"}, sock_addr_remote |-> {"SOCK_ADDR_LOCAL"},
   sock_recv |-> {"FD_READ"}, sock_recv_from |-> {"FD_READ"},
   sock_send |-> {"FD_WRITE"}, sock_send_to |-> {"FD_WRITE"}]

RightsOf(name) ==
  IF name \in DOMAIN NamedRights THEN NamedRights[name] ELSE
  IF name \in DOMAIN OtherRights THEN OtherRights[name] ELSE {}

WithoutDescriptor ==
  {"clock_res_get", "clock_time_get", "sched_yield", "sock_open", "sock_addr_resolve"}

(* The host is asked to act on a descriptor only while the call keeps its  *)
(* object alive, by a reference or by the lock of the table, and only by   *)
(* references that were got with the right that the call is named after.   *)
RightExercised ==
  At("host") =>
    /\ RightsOf(call.name) \subseteq UNION {granted[s] : s \in Slots}
    /\ \/ held["references"] > 0 \/ held["locks"] > 0
       \/ call.name \in WithoutDescriptor

----------------------------------------------------------------------------
(* Results *)

(* A call of which a system call failed never reports success, with three  *)
(* exceptions: sock_shutdown; path_link, when the link that replaces the   *)
(* one the host does not support was made; and fd_readdir, when it has     *)
(* entries to report first.  And no exception of the module is hidden      *)
(* behind a success but that of proc_exit and proc_raise.                  *)
ErrorReported ==
  Finished /\ back = 0 =>
    /\ ret = "ok"
    /\ failed => \/ call.name \in {"sock_shutdown", "path_link"}
                 \/ call.name = "fd_readdir" /\ list.entries # <<>>
    /\ exception => call.name \in {"proc_exit", "proc_raise"}

(* poll_oneoff that succeeds has something to say: at least one event, no  *)
(* two for one subscription, one for each subscription it could not serve, *)
(* and that of the clock only if there is no other.                        *)
PollAnswers ==
  LET of(kind) == {i \in DOMAIN poll.events : poll.events[i].kind = kind}
  IN  poll.pc = "done" /\ ret = "ok" =>
        /\ poll.events # <<>>
        /\ \A i, j \in DOMAIN poll.events : poll.events[i].sub = poll.events[j].sub => i = j
        /\ of("clock") # {} => Len(poll.events) = 1
        /\ \A s \in DOMAIN poll.subs :
             poll.subs[s] \in {"bad", "other"} => s \in {poll.events[i].sub : i \in of("error")}

(* The entries of a directory come from the cookie on, none twice and none *)
(* left out, over any number of calls: the stored offset, with which a     *)
(* cookie is compared, is where the host stands.                           *)
ListingInOrder ==
  /\ dir.offset = dir.pos
  /\ \A i \in DOMAIN list.entries : list.entries[i] = list.cookie + i

----------------------------------------------------------------------------
(* Paths *)

(* However a path and the links in it are written, and however the file    *)
(* system changes meanwhile, no directory is entered and none is handed to *)
(* the host that is not below the preopened one; nor is the name "..".     *)
Inside ==
  /\ \A i \in DOMAIN lk.fds : lk.fds[i] \notin Outside
  /\ \A s \in Leased : pa[s].dir \notin Outside /\ pa[s].name.name \notin {"..", ""}

Resolution == INSTANCE PathResolution WITH
  Requests <- [path : Paths, follow : BOOLEAN, needsFinal : BOOLEAN],
  state <- State,
  request <- [follow |-> lk.follow, needsFinal |-> lk.needsFinal],
  dirs <- lk.fds,
  rest <- Rest,
  name <- IF lk.pc = "success" THEN lk.file ELSE Dot

(* The two stacks of path_get, its buffers and its limits implement the    *)
(* walk over one path.                                                     *)
RefinesResolution == Resolution!Resolution

----------------------------------------------------------------------------
(* Progress *)

Waiting == poll.pc \in {"sleep", "wait"}

(* Every call returns, ends the program or waits in the host: the loops    *)
(* over components, links, subscriptions and entries come to an end.       *)
CallReturns == Running ~> (~Running \/ Waiting)
=============================================================================
