----------------------------- MODULE MCFdTable -----------------------------
(* Constants of FdTable for TLC: rights.h with one right for each purpose. *)
EXTENDS FdTable, TLC

FileRights == {"FD_READ", "FD_WRITE", "FD_SEEK"}
DirRights == {"PATH_OPEN", "PATH_FILESTAT_SET_SIZE", "PATH_LINK_SOURCE",
              "PATH_LINK_TARGET", "PATH_SYMLINK", "FD_READDIR"}
SocketRights == {"FD_READ", "FD_WRITE", "SOCK_ACCEPT"}

AllRights == FileRights \cup DirRights \cup SocketRights

MCBase == (Directory :> DirRights) @@ (File :> FileRights)
            @@ ("socket" :> SocketRights) @@ ("device" :> AllRights)

MCInheriting == (Directory :> DirRights \cup FileRights) @@ (File :> {})
                  @@ ("socket" :> AllRights) @@ ("device" :> AllRights)

\* One standard descriptor is a directory; every one is a directory or a file.
OneDirectory == [n \in Std |-> IF n = 0 THEN {Directory} ELSE {"socket"}]
AllDirectories == [n \in Std |-> {Directory}]
AllFiles == [n \in Std |-> {File}]

\* Opening, and opening for writing.
MCArgs == {{"PATH_OPEN", "FD_READDIR"}, {"FD_WRITE", "FD_SEEK", "PATH_OPEN"}}

=============================================================================
