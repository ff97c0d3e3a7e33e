----------------------------- MODULE MCControl ------------------------------
(***************************************************************************)
(* Instances of Control for TLC.  Temperatures and times are scaled down:  *)
(* under Low (start 4, stop 2, critical 7) the readings 1, 3, 5, 8 are     *)
(* cold, between the thresholds, hot and critical; under High (6, 4, 9)    *)
(* they are cold, cold, between and hot.                                   *)
(***************************************************************************)
EXTENDS Control

Low  == [start_x10 |-> 4, stop_x10 |-> 2, critical_x10 |-> 7]
High == [start_x10 |-> 6, stop_x10 |-> 4, critical_x10 |-> 9]

OnlyLow == {Low}
LowHigh == {Low, High}
=============================================================================
