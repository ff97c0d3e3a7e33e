----------------------------- MODULE Thresholds -----------------------------
(***************************************************************************)
(* What settings.c promises its callers: thresholds that change in one     *)
(* step, and a restart that comes back with thresholds that were current   *)
(* at some time, the confirmed ones if nothing was changed since.  A       *)
(* restart that cannot read them runs with the defaults and forgets        *)
(* nothing: only an erased flash does.                                     *)
(***************************************************************************)
CONSTANTS
  Safe,        \* the thresholds the controller may run with
  Default      \* used when nothing is stored, one of them

VARIABLES
  current,     \* in force now
  durable      \* a restart that can read them comes back with one of these

tvars == <<current, durable>>

TInit == \E d \in Safe : durable = {d} /\ current \in {d, Default}

Change == current' \in Safe /\ UNCHANGED durable

\* current begins to be saved, and is known to be.
BeginSave == durable' = durable \union {current} /\ UNCHANGED current
Confirm   == durable' = {current} /\ UNCHANGED current

Restart == current' \in durable /\ durable' = {current'}

\* The flash could not be read.
Unread == current' = Default /\ \E d \in durable : durable' = {d}

\* The flash had to be erased.
Forget == current' = Default /\ durable' = {Default}

TNext == Change \/ BeginSave \/ Confirm \/ Restart \/ Unread \/ Forget

TSpec == TInit /\ [][TNext]_tvars
=============================================================================
