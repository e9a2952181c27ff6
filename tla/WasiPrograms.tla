---------------------------- MODULE WasiPrograms ----------------------------
(***************************************************************************)
(* The WASI calls below the wrapper: what each function of posix.c does,   *)
(* step by step and in that order.  ssp_ stands for the prefixes           *)
(* wasmtime_ssp_ and wasi_ssp_.                                            *)
(***************************************************************************)
EXTENDS HostSockets

(* Mutant: the reference is given back before the host is asked.           *)
WithReferenceReleased(rights, prog) == Reference(rights) \o Release \o prog \o Report

(* The shape of most calls.                                                *)
WithReference(rights, prog) == Reference(rights) \o prog \o Release \o Report
OnReference(rights) == WithReference(rights, Host)

OnPath(rights, follow, needsFinal) ==
  PathGet("pa", rights, follow, needsFinal) \o Host \o PathPut("pa") \o Report

----------------------------------------------------------------------------
(* posix.c: clocks, preopened directories *)

ssp_clock_res_get == Argument \o Host \o Report
ssp_clock_time_get == Argument \o Host \o Report
ssp_fd_prestat_get == Lock \o Within(Unlock, Argument) \o Unlock

(* The slot, and then the length of the name.                              *)
ssp_fd_prestat_dir_name == Lock \o Within(Unlock, Argument \o Argument) \o Unlock

(* posix.c: descriptors.  What fd_close, fd_renumber and                   *)
(* fd_fdstat_set_rights do to the table is module FdTable.                 *)
ssp_fd_close == Lock \o Unlock \o Argument \o Lock \o Within(Unlock, Argument) \o Unlock
ssp_fd_datasync == OnReference({"FD_DATASYNC"})
ssp_fd_pread == Argument \o OnReference({"FD_READ"})
ssp_fd_pwrite == Argument \o OnReference({"FD_WRITE"})
ssp_fd_read == OnReference({"FD_READ"})
ssp_fd_renumber ==
  Lock \o Unlock \o Argument \o Lock \o Within(Unlock, Argument \o Argument) \o Unlock
ssp_fd_seek(moves) ==
  Argument \o OnReference(IF moves THEN {"FD_SEEK", "FD_TELL"} ELSE {"FD_TELL"})
ssp_fd_tell == OnReference({"FD_TELL"})

(* Under the lock of the table instead of a reference.                     *)
ssp_fd_fdstat_get == Lock \o Within(Unlock, Argument) \o Host \o Unlock \o Report
ssp_fd_fdstat_set_flags == OnReference({"FD_FDSTAT_SET_FLAGS"})
ssp_fd_fdstat_set_rights == Lock \o Within(Unlock, Argument) \o Unlock
ssp_fd_sync == OnReference({"FD_SYNC"})
ssp_fd_write == OnReference({"FD_WRITE"})
ssp_fd_advise == Argument \o OnReference({"FD_ADVISE"})
ssp_fd_allocate == OnReference({"FD_ALLOCATE"})
ssp_fd_filestat_get == OnReference({"FD_FILESTAT_GET"})
ssp_fd_filestat_set_size == OnReference({"FD_FILESTAT_SET_SIZE"})
ssp_fd_filestat_set_times == Argument \o OnReference({"FD_FILESTAT_SET_TIMES"})

ssp_fd_readdir ==
  Reference({"FD_READDIR"}) \o Lock \o Within(Unlock \o Release, Step("opendir", {}))
    \o Step("seekdir", {}) \o Step("readdir", {}) \o Unlock \o Release \o Report

----------------------------------------------------------------------------
(* posix.c: paths *)

ssp_path_create_directory == OnPath({"PATH_CREATE_DIRECTORY"}, FALSE, TRUE)
ssp_path_readlink == OnPath({"PATH_READLINK"}, FALSE, FALSE)
ssp_path_filestat_get(follow) == OnPath({"PATH_FILESTAT_GET"}, follow, FALSE)
ssp_path_filestat_set_times(follow) ==
  Argument \o OnPath({"PATH_FILESTAT_SET_TIMES"}, follow, FALSE)
ssp_path_unlink_file == OnPath({"PATH_UNLINK_FILE"}, FALSE, TRUE)
ssp_path_remove_directory == OnPath({"PATH_REMOVE_DIRECTORY"}, FALSE, TRUE)

validate_path == Argument

(* Mutant: the first path is not put when the second one is refused.       *)
ssp_path_rename_keeping ==
  PathGet("old", {"PATH_RENAME_SOURCE"}, FALSE, TRUE)
    \o PathGet("new", {"PATH_RENAME_TARGET"}, FALSE, TRUE)
    \o Host \o PathPut("old") \o PathPut("new") \o Report

ssp_path_rename ==
  PathGet("old", {"PATH_RENAME_SOURCE"}, FALSE, TRUE)
    \o Within(PathPut("old"), PathGet("new", {"PATH_RENAME_TARGET"}, FALSE, TRUE))
    \o Host \o PathPut("old") \o PathPut("new") \o Report

(* Where the host has no links to links, the link is made anew.  Neither   *)
(* refusal puts the paths.                                                 *)
LinkAnew ==
  Lock \o Within(Unlock \o Free, validate_path) \o Unlock \o Host \o Free

ssp_path_link(follow) ==
  PathGet("old", {"PATH_LINK_SOURCE"}, follow, FALSE)
    \o Within(PathPut("old"), PathGet("new", {"PATH_LINK_TARGET"}, FALSE, TRUE))
    \o Lock \o Within(Unlock, validate_path \o validate_path) \o Unlock
    \o Host \o Step("unless_unsupported", Len(LinkAnew)) \o LinkAnew
    \o PathPut("old") \o PathPut("new") \o Report

(* The refusal does not put the path.                                      *)
ssp_path_symlink ==
  Allocate \o Within(Free, PathGet("pa", {"PATH_SYMLINK"}, FALSE, TRUE))
    \o Lock \o Within(Unlock \o Free, validate_path) \o Unlock
    \o Host \o PathPut("pa") \o Free \o Report

NewDescriptor(checks) == Within(Close, checks) \o Insert

ssp_path_open(flags) ==
  PathGet("pa", {"PATH_OPEN"} \cup (IF "create" \in flags THEN {"PATH_CREATE_FILE"} ELSE {})
                  \cup (IF "truncate" \in flags THEN {"PATH_FILESTAT_SET_SIZE"} ELSE {}),
          "follow" \in flags, "create" \in flags)
    \o Make("fds") \o PathPut("pa") \o Report \o NewDescriptor(Argument \o Argument)

----------------------------------------------------------------------------
(* Sockets *)

ssp_sock_accept ==
  Reference({"SOCK_ACCEPT"}) \o os_socket_accept \o Release \o Report \o NewDescriptor(Argument)
ssp_sock_addr_local == WithReference({"SOCK_ADDR_LOCAL"}, os_socket_addr_local)
ssp_sock_addr_remote == WithReference({"SOCK_ADDR_LOCAL"}, os_socket_addr_remote)
wasi_addr_to_string == Argument

(* The address is parsed again, and compared with the pool.                *)
addr_pool_search == Argument
ssp_sock_bind ==
  wasi_addr_to_string \o addr_pool_search \o WithReference({"SOCK_BIND"}, os_socket_bind)
ssp_sock_connect ==
  wasi_addr_to_string \o addr_pool_search \o WithReference({"SOCK_BIND"}, os_socket_connect)
ns_lookup_list_search == Argument
ssp_sock_addr_resolve ==
  Allocate \o Within(Free, ns_lookup_list_search \o os_socket_addr_resolve \o Report) \o Free
ssp_sock_listen == WithReference({"SOCK_LISTEN"}, os_socket_listen)
ssp_sock_open == os_socket_create \o Report \o NewDescriptor(Argument)
ssp_sock_recv_from == WithReference({"FD_READ"}, os_socket_recv_from)
ssp_sock_send == WithReference({"FD_WRITE"}, os_socket_send)
ssp_sock_send_to ==
  wasi_addr_to_string \o addr_pool_search \o WithReference({"FD_WRITE"}, os_socket_send_to)
ssp_sock_shutdown == WithReference({}, os_socket_shutdown)

(* WASMTIME_SSP_PASSTHROUGH_SOCKET_OPTION                                  *)
ssp_sock_option(os_socket_option) == WithReference({}, os_socket_option)
ssp_sock_linger == WithReference({}, os_socket_linger)
ssp_sock_set_ip_membership == WithReference({}, os_socket_set_ip_membership)
ssp_sock_ip_multicast_loop == WithReference({}, os_socket_ip_multicast_loop)

----------------------------------------------------------------------------
(* The rest *)

(* Mutant: the result of the host is dropped.                              *)
ssp_sched_yield_silent == Host

ssp_sched_yield == Host \o Report
ssp_args_environ == <<>>
=============================================================================
