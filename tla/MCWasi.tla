------------------------------- MODULE MCWasi -------------------------------
(***************************************************************************)
(* A small instance of the WASI calls for TLC.                             *)
(***************************************************************************)
EXTENDS WasiProperties

----------------------------------------------------------------------------
(* Paths: the last component of a path has no slash unless it is written. *)

Plainly(n) == [name |-> n, slash |-> FALSE]
Before(n) == [name |-> n, slash |-> TRUE]
PathOf(names) ==
  [i \in DOMAIN names |-> IF i = Len(names) THEN Plainly(names[i]) ELSE Before(names[i])]

(* "a", "l", "l/", "a/b", "a/l/", "l/b", "a/../l", "a/b/b/a", "./a",       *)
(* "../a", "/a" and the empty path.                                        *)
MCPaths ==
  {PathOf(<<"a">>), PathOf(<<"l">>), <<Before("l")>>, PathOf(<<"a", "b">>),
   <<Before("a"), Before("l")>>, PathOf(<<"l", "b">>), PathOf(<<"a", "..", "l">>),
   PathOf(<<"a", "b", "b", "a">>), PathOf(<<".", "a">>),
   PathOf(<<"..", "a">>), PathOf(<<"", "a">>), <<>>}

----------------------------------------------------------------------------
(* File systems: names a, l and b in the base and in its directory "sub";  *)
(* "outer" is above the base.                                              *)

MCOutside == {"outer"}

PlainFile == [kind |-> "file"]
Absent == [kind |-> "absent"]
Directory(d) == [kind |-> "directory", id |-> d]
LinkTo(target) == [kind |-> "link", target |-> target]

In(above, a, l, b) ==
  ("a" :> a) @@ ("l" :> l) @@ ("b" :> b) @@ (".." :> Directory(above))

FileSystem(a, l, b) ==
  [base |-> In("outer", a, l, Absent),
   sub |-> In("base", PlainFile, LinkTo(PathOf(<<"..", "l">>)), b),
   outer |-> In("outer", PlainFile, Absent, PlainFile)]

(* A directory and a link into it; a link out of the base; a link to       *)
(* itself; a link in place of the directory; an absolute link.             *)
MCFileSystems ==
  {FileSystem(Directory("sub"), LinkTo(PathOf(<<"a", "b">>)), PlainFile),
   FileSystem(Directory("sub"), LinkTo(PathOf(<<"a", "..", "..", "a">>)), Directory("sub")),
   FileSystem(LinkTo(PathOf(<<"l">>)), LinkTo(PathOf(<<"a">>)), Absent),
   FileSystem(PlainFile, LinkTo(PathOf(<<"", "a">>)), Absent)}

----------------------------------------------------------------------------

MCSubscriptions ==
  {<<"clock">>, <<"absolute">>, <<"good">>, <<"other">>, <<"bad", "clock">>,
   <<"good", "clock">>, <<"clock", "good">>, <<"good", "long">>, <<"clock", "clock">>,
   <<"good", "good", "clock">>, <<"good", "bad", "good">>, <<"absolute", "good", "clock">>}

MCRooms == 0..5
=============================================================================
