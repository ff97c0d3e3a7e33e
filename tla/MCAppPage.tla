------------------------------ MODULE MCAppPage -----------------------------
(***************************************************************************)
(* Instances of Device and AppPage for TLC; thresholds as in MCControl.    *)
(***************************************************************************)
EXTENDS AppPage

Low == [start_x10 |-> 4, stop_x10 |-> 2, critical_x10 |-> 7]

SomeEvents == 1 .. MaxEvents + 3
=============================================================================
