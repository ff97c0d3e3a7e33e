-------------------------------- MODULE Pump --------------------------------
(***************************************************************************)
(* What control.h promises whoever looks at the pump while nobody decides: *)
(* one state that changes in one step, by a command, by a pass of the      *)
(* control task or by a restart; a pump that obeys, in this order, the     *)
(* overheat, the command and the dead sensor; and a command that lasts as  *)
(* long as it was given for.                                               *)
(***************************************************************************)
EXTENDS Integers

CONSTANTS
  MANUAL_MIN_S, MANUAL_MAX_S,
  Slack            \* seconds after its time by which a command has ended

VARIABLES
  clock,
  stuck,           \* the control task hangs
  overheat,
  dead,            \* the sensor is taken for dead
  manual,
  until,           \* when the command ends
  on

pumpVars == <<clock, stuck, overheat, dead, manual, until, on>>

\* With none of the three, temperature and maintenance decide.
Obeys ==
  /\ overheat => on /\ manual # "stop"
  /\ manual = "start" => on
  /\ manual = "stop" => ~on
  /\ dead /\ manual = "none" => on

Rest ==
  /\ clock = 0 /\ until = 0
  /\ stuck = FALSE /\ overheat = FALSE /\ dead = FALSE /\ on = FALSE
  /\ manual = "none"

\* A client's; it can be neither refused nor shortened later, but for a stop.
Command ==
  /\ manual' \in {"none", "start", "stop"}
  /\ manual' = "stop" => ~overheat
  /\ IF manual' = "none" THEN until' = 0
     ELSE until' \in clock + MANUAL_MIN_S .. clock + MANUAL_MAX_S
  /\ on' \in BOOLEAN /\ Obeys'
  /\ UNCHANGED <<clock, stuck, overheat, dead>>

\* Only a good reading changes the overheat, and it shows that the sensor lives.  A pass
\* may have looked at the clock a second ago.
Pass ==
  /\ ~stuck
  /\ overheat' \in BOOLEAN /\ dead' \in BOOLEAN
  /\ overheat' # overheat => ~dead'
  /\ \/ manual' = manual /\ (manual = "none" \/ clock <= until)
     \/ manual' = "none" /\ (clock >= until \/ (manual = "stop" /\ overheat'))
  /\ on' \in BOOLEAN /\ Obeys'
  /\ UNCHANGED <<clock, stuck, until>>

Tick ==
  /\ stuck \/ manual = "none" \/ clock < until + Slack
  /\ clock' = clock + 1
  /\ UNCHANGED <<stuck, overheat, dead, manual, until, on>>

\* Commands are still taken.
Hang == stuck' = TRUE /\ UNCHANGED <<clock, overheat, dead, manual, until, on>>

Restart == Rest'

PumpNext == Command \/ Pass \/ Tick \/ Hang \/ Restart

PumpSpec == Rest /\ [][PumpNext]_pumpVars
=============================================================================
