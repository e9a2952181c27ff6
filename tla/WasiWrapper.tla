----------------------------- MODULE WasiWrapper -----------------------------
(***************************************************************************)
(* The functions of libc_wasi_wrapper.c that a program imports, over those *)
(* of posix.c in module WasiPrograms: they check the addresses they get,   *)
(* and keep buffers while posix.c works.  The WASI context is never NULL   *)
(* when a program runs (module ModuleLifecycle), so its check is left out. *)
(***************************************************************************)
EXTENDS WasiPrograms

(* Two arrays of the program, and one of native pointers.                  *)
wasi_args_get == Address \o Address \o Allocate \o ssp_args_environ \o Free
wasi_args_sizes_get == Address \o Address \o ssp_args_environ
wasi_environ_get == Address \o Address \o Allocate \o ssp_args_environ \o Free
wasi_environ_sizes_get == Address \o Address \o ssp_args_environ
wasi_clock_res_get == Address \o ssp_clock_res_get
wasi_clock_time_get == Address \o ssp_clock_time_get

(* The result and the vector, a native copy of the vector, its buffers.    *)
WithVector(prog) ==
  Address \o Address \o Allocate \o Within(Free, Address \o prog) \o Free

wasi_fd_prestat_get == Address \o ssp_fd_prestat_get
wasi_fd_prestat_dir_name == ssp_fd_prestat_dir_name
wasi_fd_close == ssp_fd_close
wasi_fd_datasync == ssp_fd_datasync
wasi_fd_pread == WithVector(ssp_fd_pread)
wasi_fd_pwrite == WithVector(ssp_fd_pwrite)
wasi_fd_read == WithVector(ssp_fd_read)
wasi_fd_write == WithVector(ssp_fd_write)
wasi_fd_renumber == ssp_fd_renumber
wasi_fd_seek(moves) == Address \o ssp_fd_seek(moves)
wasi_fd_tell == Address \o ssp_fd_tell
wasi_fd_fdstat_get == Address \o ssp_fd_fdstat_get
wasi_fd_fdstat_set_flags == ssp_fd_fdstat_set_flags
wasi_fd_fdstat_set_rights == ssp_fd_fdstat_set_rights
wasi_fd_sync == ssp_fd_sync
wasi_fd_advise == ssp_fd_advise
wasi_fd_allocate == ssp_fd_allocate
wasi_fd_readdir == Address \o ssp_fd_readdir
wasi_fd_filestat_get == Address \o ssp_fd_filestat_get
wasi_fd_filestat_set_times == ssp_fd_filestat_set_times
wasi_fd_filestat_set_size == ssp_fd_filestat_set_size

wasi_path_create_directory == ssp_path_create_directory
wasi_path_link(follow) == ssp_path_link(follow)
wasi_path_open(flags) == Address \o ssp_path_open(flags)
wasi_path_readlink == Address \o ssp_path_readlink
wasi_path_rename == ssp_path_rename
wasi_path_filestat_get(follow) == Address \o ssp_path_filestat_get(follow)
wasi_path_filestat_set_times(follow) == ssp_path_filestat_set_times(follow)
wasi_path_symlink == ssp_path_symlink
wasi_path_unlink_file == ssp_path_unlink_file
wasi_path_remove_directory == ssp_path_remove_directory

wasi_poll_oneoff == Address \o Address \o Address \o Step("poll", {}) \o Report

(* They end the program by an exception, and are no failures.              *)
wasi_proc_exit == Step("throw", {})
wasi_proc_raise == Step("throw", {})
wasi_random_get == Step("random", {})
wasi_sched_yield == ssp_sched_yield

----------------------------------------------------------------------------
(* Sockets *)

wasi_sock_accept == ssp_sock_accept
wasi_sock_addr_local == Address \o ssp_sock_addr_local
wasi_sock_addr_remote == Address \o ssp_sock_addr_remote
wasi_sock_addr_resolve == ssp_sock_addr_resolve
wasi_sock_bind == ssp_sock_bind
wasi_sock_connect == ssp_sock_connect
wasi_sock_listen == ssp_sock_listen
wasi_sock_open == ssp_sock_open
wasi_sock_shutdown == ssp_sock_shutdown

(* __WASI_ENOSYS: there is no step that succeeds.                          *)
wasi_sock_close == Step("refuse", {})

(* No vector or an empty one, its address, and its size.                   *)
allocate_iovec_app_buffer == Argument \o Address \o Argument \o Allocate

(* The addresses are checked while the data is already being copied.       *)
copy_buffer_to_iovec_app == Argument \o Address

convert_iovec_app_to_buffer == allocate_iovec_app_buffer \o Within(Free, Address)

wasi_sock_recv_from ==
  Address \o allocate_iovec_app_buffer
    \o Within(Free, ssp_sock_recv_from \o copy_buffer_to_iovec_app) \o Free
wasi_sock_recv == Address \o wasi_sock_recv_from
wasi_sock_send ==
  Address \o convert_iovec_app_to_buffer \o Within(Free, ssp_sock_send) \o Free
wasi_sock_send_to ==
  Address \o convert_iovec_app_to_buffer \o Within(Free, ssp_sock_send_to) \o Free

(* The options, grouped as in the file, where a name stands for the        *)
(* options of its kind.  A getter has an address.                          *)
wasi_sock_get_flag == Address \o ssp_sock_option(os_socket_getbooloption)
wasi_sock_get_linger == Address \o Address \o ssp_sock_linger

SocketOptions ==
  [size |-> os_socket_buf_size, timeout |-> os_socket_timeout,
   reuse_addr |-> os_socket_getbooloption, reuse_port |-> os_socket_reuse_port]
wasi_sock_get_socket_option(option) == Address \o ssp_sock_option(SocketOptions[option])

TcpOptions == [flag |-> os_socket_getbooloption, keep |-> os_socket_tcp_keep]
wasi_sock_get_tcp_option(option) == Address \o ssp_sock_option(TcpOptions[option])
wasi_sock_get_ip_multicast_loop == Address \o ssp_sock_ip_multicast_loop

IpOptions == [ttl |-> os_socket_ip_ttl, ipv6_only |-> os_socket_getbooloption]
wasi_sock_get_ip_option(option) == Address \o ssp_sock_option(IpOptions[option])

wasi_sock_set_flag == ssp_sock_option(os_socket_setbooloption)
wasi_sock_set_linger == ssp_sock_linger
wasi_sock_set_socket_option(option) == ssp_sock_option(SocketOptions[option])
wasi_sock_set_tcp_option(option) == ssp_sock_option(TcpOptions[option])
wasi_sock_set_ip_multicast_loop == ssp_sock_ip_multicast_loop
wasi_sock_set_ip_membership == Address \o ssp_sock_set_ip_membership
wasi_sock_set_ip_option(option) == ssp_sock_option(IpOptions[option])

----------------------------------------------------------------------------
(* The table of native symbols: for each call, the program for each set of *)
(* the flags that choose one.                                              *)

Plain(prog) == [flags \in {{}} |-> prog]
Following(prog(_)) == [flags \in SUBSET {"follow"} |-> prog("follow" \in flags)]
Moving(prog(_)) == [flags \in SUBSET {"move"} |-> prog("move" \in flags)]
Option(prog(_), options) ==
  [flags \in {{o} : o \in DOMAIN options} |-> prog(CHOOSE o \in flags : TRUE)]

native_symbols_libc_wasi ==
  [args_get |-> Plain(wasi_args_get),
   args_sizes_get |-> Plain(wasi_args_sizes_get),
   clock_res_get |-> Plain(wasi_clock_res_get),
   clock_time_get |-> Plain(wasi_clock_time_get),
   environ_get |-> Plain(wasi_environ_get),
   environ_sizes_get |-> Plain(wasi_environ_sizes_get),
   fd_prestat_get |-> Plain(wasi_fd_prestat_get),
   fd_prestat_dir_name |-> Plain(wasi_fd_prestat_dir_name),
   fd_close |-> Plain(wasi_fd_close),
   fd_datasync |-> Plain(wasi_fd_datasync),
   fd_pread |-> Plain(wasi_fd_pread),
   fd_pwrite |-> Plain(wasi_fd_pwrite),
   fd_read |-> Plain(wasi_fd_read),
   fd_renumber |-> Plain(wasi_fd_renumber),
   fd_seek |-> Moving(wasi_fd_seek),
   fd_tell |-> Plain(wasi_fd_tell),
   fd_fdstat_get |-> Plain(wasi_fd_fdstat_get),
   fd_fdstat_set_flags |-> Plain(wasi_fd_fdstat_set_flags),
   fd_fdstat_set_rights |-> Plain(wasi_fd_fdstat_set_rights),
   fd_sync |-> Plain(wasi_fd_sync),
   fd_write |-> Plain(wasi_fd_write),
   fd_advise |-> Plain(wasi_fd_advise),
   fd_allocate |-> Plain(wasi_fd_allocate),
   fd_readdir |-> Plain(wasi_fd_readdir),
   fd_filestat_get |-> Plain(wasi_fd_filestat_get),
   fd_filestat_set_times |-> Plain(wasi_fd_filestat_set_times),
   fd_filestat_set_size |-> Plain(wasi_fd_filestat_set_size),
   path_create_directory |-> Plain(wasi_path_create_directory),
   path_link |-> Following(wasi_path_link),
   path_open |-> [flags \in SUBSET {"follow", "create", "truncate"} |-> wasi_path_open(flags)],
   path_readlink |-> Plain(wasi_path_readlink),
   path_rename |-> Plain(wasi_path_rename),
   path_filestat_get |-> Following(wasi_path_filestat_get),
   path_filestat_set_times |-> Following(wasi_path_filestat_set_times),
   path_symlink |-> Plain(wasi_path_symlink),
   path_unlink_file |-> Plain(wasi_path_unlink_file),
   path_remove_directory |-> Plain(wasi_path_remove_directory),
   poll_oneoff |-> Plain(wasi_poll_oneoff),
   proc_exit |-> Plain(wasi_proc_exit),
   proc_raise |-> Plain(wasi_proc_raise),
   random_get |-> Plain(wasi_random_get),
   sock_accept |-> Plain(wasi_sock_accept),
   sock_addr_local |-> Plain(wasi_sock_addr_local),
   sock_addr_remote |-> Plain(wasi_sock_addr_remote),
   sock_addr_resolve |-> Plain(wasi_sock_addr_resolve),
   sock_bind |-> Plain(wasi_sock_bind),
   sock_close |-> Plain(wasi_sock_close),
   sock_connect |-> Plain(wasi_sock_connect),
   sock_get_flag |-> Plain(wasi_sock_get_flag),
   sock_get_linger |-> Plain(wasi_sock_get_linger),
   sock_get_socket_option |-> Option(wasi_sock_get_socket_option, SocketOptions),
   sock_get_tcp_option |-> Option(wasi_sock_get_tcp_option, TcpOptions),
   sock_get_ip_multicast_loop |-> Plain(wasi_sock_get_ip_multicast_loop),
   sock_get_ip_option |-> Option(wasi_sock_get_ip_option, IpOptions),
   sock_listen |-> Plain(wasi_sock_listen),
   sock_open |-> Plain(wasi_sock_open),
   sock_recv |-> Plain(wasi_sock_recv),
   sock_recv_from |-> Plain(wasi_sock_recv_from),
   sock_send |-> Plain(wasi_sock_send),
   sock_send_to |-> Plain(wasi_sock_send_to),
   sock_set_flag |-> Plain(wasi_sock_set_flag),
   sock_set_linger |-> Plain(wasi_sock_set_linger),
   sock_set_socket_option |-> Option(wasi_sock_set_socket_option, SocketOptions),
   sock_set_tcp_option |-> Option(wasi_sock_set_tcp_option, TcpOptions),
   sock_set_ip_multicast_loop |-> Plain(wasi_sock_set_ip_multicast_loop),
   sock_set_ip_membership |-> Plain(wasi_sock_set_ip_membership),
   sock_set_ip_option |-> Option(wasi_sock_set_ip_option, IpOptions),
   sock_shutdown |-> Plain(wasi_sock_shutdown),
   sched_yield |-> Plain(wasi_sched_yield)]

Calls == DOMAIN native_symbols_libc_wasi
=============================================================================
