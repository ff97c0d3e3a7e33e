----------------------------- MODULE RecentLog ------------------------------
(***************************************************************************)
(* What events.c and history.c promise their readers: the last Capacity    *)
(* entries, and to each reader all of them as of one instant.              *)
(***************************************************************************)
EXTENDS Naturals, Sequences

CONSTANTS
  Capacity,    \* entries kept
  Entries      \* what is logged

VARIABLES
  given,       \* the last entry somebody logged since boot, if any
  log,         \* the entries kept, newest first
  shown        \* what the last reader since boot got

lvars == <<given, log, shown>>

Newest(s) == SubSeq(s, 1, IF Capacity < Len(s) THEN Capacity ELSE Len(s))

LInit == given = <<>> /\ log = <<>> /\ shown = <<>>

Add(e) == given' = <<e>> /\ log' = Newest(given' \o log) /\ UNCHANGED shown
Show   == shown' = log /\ UNCHANGED <<given, log>>
Clear  == given' = <<>> /\ log' = <<>> /\ shown' = <<>>

LNext ==
  \/ \E e \in Entries : Add(e)
  \/ Show
  \/ Clear

LSpec == LInit /\ [][LNext]_lvars
=============================================================================
