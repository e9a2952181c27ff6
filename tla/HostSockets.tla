----------------------------- MODULE HostSockets -----------------------------
(***************************************************************************)
(* posix_socket.c: the sockets of the platform layer, as programs.  Each   *)
(* leaves its result, BHT_OK or BHT_ERROR, for its caller.                 *)
(***************************************************************************)
EXTENDS Steps

(* No IPv4 address and no IPv6 address.                                    *)
textual_addr_to_sockaddr == Host

(* Neither AF_INET nor AF_INET6.                                           *)
sockaddr_to_bh_sockaddr == Host

os_socket_create == Make("fds")

(* The address, fcntl, the option SO_LINGER, bind, getsockname.            *)
os_socket_bind ==
  Then(textual_addr_to_sockaddr, Then(Host, Then(Host, Then(Host, Host))))

os_socket_listen == Host
os_socket_accept == Make("fds")
os_socket_connect == Then(textual_addr_to_sockaddr, Host)
os_socket_recv_from == Then(Host, sockaddr_to_bh_sockaddr)
os_socket_send == Host
os_socket_send_to == Host

(* Whatever shutdown says, the result is BHT_OK.                           *)
os_socket_shutdown == Host \o Ignored

(* The list of getaddrinfo is freed after its addresses are converted.     *)
os_socket_addr_resolve == Then(Make("blocks"), sockaddr_to_bh_sockaddr \o Free)

----------------------------------------------------------------------------
(* Options: one call of getsockopt or setsockopt each *)

os_socket_setbooloption == Host
os_socket_getbooloption == Host
os_socket_buf_size == Host
os_socket_reuse_port == Refused
os_socket_linger == Host
os_socket_tcp_keep == Host
os_socket_ip_multicast_loop == Host
os_socket_set_ip_membership == Host
os_socket_ip_ttl == Host
os_socket_timeout == Host

os_socket_addr_local == Then(Host, sockaddr_to_bh_sockaddr)
os_socket_addr_remote == Then(Host, sockaddr_to_bh_sockaddr)
=============================================================================
