-------------------------------- MODULE Steps --------------------------------
(***************************************************************************)
(* The steps from which the programs of the WASI calls are built.  What a  *)
(* step does to the state is said in module WasiCalls.                     *)
(*                                                                         *)
(* A step that may fail has in its field undo the steps by which the code  *)
(* cleans up before it returns the error.  Within(cleanup, prog) is prog   *)
(* where every error passes through the cleanup.  Values that are only     *)
(* copied or converted are left out; of the branches for other platforms,  *)
(* only those of Linux are here.                                           *)
(***************************************************************************)
EXTENDS Naturals, Sequences

Step(op, arg) == <<[op |-> op, arg |-> arg, undo |-> <<>>]>>
Within(cleanup, prog) == [i \in DOMAIN prog |-> [prog[i] EXCEPT !.undo = @ \o cleanup]]

Address == Step("address", {})         \* validate_native_addr, validate_app_addr
Argument == Step("argument", {})       \* a check that refuses the call
Allocate == Step("allocate", {})
Free == Step("free", {})
Lock == Step("lock", {})
Unlock == Step("unlock", {})
Reference(rights) == Step("reference", rights)    \* fd_object_get
Release == Step("release", {})                    \* fd_object_release
PathGet(slot, rights, follow, needsFinal) ==
  Step("path_get", [slot |-> slot, rights |-> rights, follow |-> follow, needsFinal |-> needsFinal])
PathPut(slot) == Step("path_put", slot)

(* The host is asked; the result is kept, and later is that of the call.   *)
Host == Step("host", "nothing")
Make(kind) == Step("host", kind)       \* success comes with something to own
Refused == Step("refused", {})         \* no host is asked: errno is set
Ignored == Step("ignored", {})         \* a failure is forgotten
Report == Step("report", {})
Close == Step("close", {})

(* The second only if the first has succeeded.                             *)
Then(first, second) == first \o Step("if_succeeded", Len(second)) \o second

(* fd_table_insert_fd: the descriptor is in the table, or closed.          *)
Insert == Step("insert", {})
=============================================================================
