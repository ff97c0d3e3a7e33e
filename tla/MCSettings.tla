----------------------------- MODULE MCSettings -----------------------------
(***************************************************************************)
(* Instance of Settings for TLC with the bounds of config.h: requests on   *)
(* both sides of them, and a blob that breaks every bound and margin.      *)
(***************************************************************************)
EXTENDS Settings

JsonMin == -10000

\* In 0.01 C: not accepted, a negative half, a half that rounds up to START_MAX_X10,
\* above every bound.
SomeNumbers == {20000, -1005, 5995, 9000}

SomeStored == {[start_x10 |-> 0, stop_x10 |-> 900, critical_x10 |-> 1000]}
=============================================================================
