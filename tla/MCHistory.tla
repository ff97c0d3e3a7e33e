------------------------------ MODULE MCHistory -----------------------------
(***************************************************************************)
(* Instances of HistoryPace for TLC.  Two samples that differ in both      *)
(* parts show a temperature and a pump bit that are out of step.           *)
(***************************************************************************)
EXTENDS HistoryPace

CONSTANT HISTORY_NO_READING

TwoSamples ==
  {[temp |-> 1, on |-> TRUE], [temp |-> HISTORY_NO_READING, on |-> FALSE]}
=============================================================================
