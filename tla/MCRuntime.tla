----------------------------- MODULE MCRuntime ------------------------------
(***************************************************************************)
(* Instances of ControlRuntime for TLC; thresholds as in MCControl.        *)
(***************************************************************************)
EXTENDS ControlRuntime

OnlyLow == {[start_x10 |-> 4, stop_x10 |-> 2, critical_x10 |-> 7]}
=============================================================================
