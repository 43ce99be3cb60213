------------------------------ MODULE WholeFile ------------------------------
(***************************************************************************)
(* What pipeline::download promises its callers: the destination appears   *)
(* in one step, and what appears is one object a server really published,  *)
(* whole.  The caller may throw it away again.                             *)
(***************************************************************************)
CONSTANTS Object, None

VARIABLE file   \* the object at the destination path, or None

Init == file = None

Deliver == file = None /\ file' \in Object

Discard == file # None /\ file' = None

Spec == Init /\ [][Deliver \/ Discard]_file

=============================================================================
