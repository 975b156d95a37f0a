------------------------------- MODULE MCLive -------------------------------
(***************************************************************************)
(* Instances of Live: one process, or two that share the session file.     *)
(***************************************************************************)
EXTENDS Live

CONSTANTS p1, p2

OneProc == {p1}
TwoProcs == {p1, p2}
=============================================================================
