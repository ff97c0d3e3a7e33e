---------------------------- MODULE MCTempSensor ----------------------------
(***************************************************************************)
(* Instance of TempSensor for TLC with the numbers of the build: two       *)
(* sensors, readings at both ends of the range, outside it, at the         *)
(* power-on value and on both sides of the default thresholds.             *)
(***************************************************************************)
EXTENDS TempSensor

Defaults == [start_x10 |-> 300, stop_x10 |-> 250, critical_x10 |-> 450]

Min        == -550
SomeValues == {-551, -550, 270, 500, 850, 1250, 1251}
=============================================================================
