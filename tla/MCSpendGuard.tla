----------------------------- MODULE MCSpendGuard -----------------------------
(* SpendGuard for TLC.  Liveness is checked, so jobs are not made interchangeable. *)
EXTENDS SpendGuard
=============================================================================
