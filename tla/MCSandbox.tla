----------------------------- MODULE MCSandbox -----------------------------
(* A small instance of Sandbox for TLC. *)
EXTENDS Sandbox, TLC

CONSTANTS t1, t2

TwoTasks == {t1, t2}
TwoAndOne == t1 :> 2 @@ t2 :> 1
=============================================================================
