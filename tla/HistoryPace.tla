----------------------------- MODULE HistoryPace ----------------------------
(***************************************************************************)
(* The rings of module History, fed by the control task: at most one       *)
(* sample per HISTORY_PERIOD_S, but only from a pass that read the sensor, *)
(* and with three samples of the clock in that pass.  Module Control has   *)
(* the other things a pass does.                                           *)
(***************************************************************************)
EXTENDS History

CONSTANTS
  HISTORY_PERIOD_S,
  CONTROL_READ_PERIOD_S,
  MaxTime                  \* bound on the clock of one power cycle

ASSUME PaceAssumption ==
  /\ HISTORY_PERIOD_S \in Nat \ {0}
  /\ CONTROL_READ_PERIOD_S \in Nat \ {0}
  /\ MaxTime \in Nat

VARIABLES
  clock,
  pc,                   \* where a pass that reads the sensor is
  now_s,                \* its copy of the clock
  due,                  \* the second by which the present activity is over
  next_read_s, next_history_s,
  taken                 \* s_newest_mono_s of each sample in the ring, oldest first

passVars == <<pc, now_s, due, next_read_s, next_history_s, taken>>
paceVars == <<vars, clock, passVars>>

PaceInit ==
  /\ Init
  /\ clock = 0
  /\ pc = "waiting"
  /\ now_s = 0
  /\ due = 1
  /\ next_read_s = 0
  /\ next_history_s = 0
  /\ taken = <<>>

\* A pass finds the read due.
StartRead ==
  /\ pc = "waiting"
  /\ clock >= next_read_s
  /\ next_read_s' = clock + CONTROL_READ_PERIOD_S
  /\ pc' = "reading"
  /\ due' = clock + 1
  /\ UNCHANGED <<vars, clock, now_s, next_history_s, taken>>

\* The conversion is over, the clock sampled again and the locked section passed.
Converted ==
  /\ pc = "reading"
  /\ now_s' = clock
  /\ pc' = "decided"
  /\ due' = clock + 1
  /\ UNCHANGED <<vars, clock, next_read_s, next_history_s, taken>>

\* Bug: every read postpones the next sample.
NextHistoryPostponed == now_s + HISTORY_PERIOD_S

\* Bug: the next sample is due a period after this one was, however late it was.
NextHistoryFromDue ==
  IF now_s >= next_history_s THEN next_history_s + HISTORY_PERIOD_S ELSE next_history_s

NextHistory == IF now_s >= next_history_s THEN now_s + HISTORY_PERIOD_S ELSE next_history_s

\* The newest HISTORY_SAMPLES of the times of the samples.
Timed(times, t) ==
  Append(IF Len(times) < HISTORY_SAMPLES THEN times ELSE Tail(times), t)

\* r is what was read and the pump's state in the locked section; history_add samples
\* the clock itself.  The task then looks every second whether a
\* read is due.
EndRead(r) ==
  /\ pc = "decided"
  /\ next_history_s' = NextHistory
  /\ IF now_s >= next_history_s
     THEN history_add(r.temp, r.on) /\ taken' = Timed(taken, clock)
     ELSE UNCHANGED <<vars, taken>>
  /\ pc' = "waiting"
  /\ due' = (IF clock > next_read_s THEN clock ELSE next_read_s) + 2
  /\ UNCHANGED <<clock, now_s, next_read_s>>

PaceTick ==
  /\ clock < MaxTime
  /\ clock < due
  /\ clock' = clock + 1
  /\ UNCHANGED <<vars, passVars>>

ReadHistory == history_handler /\ UNCHANGED <<clock, passVars>>

PowerCycle ==
  /\ Reboot
  /\ clock' = 0
  /\ pc' = "waiting"
  /\ now_s' = 0
  /\ due' = 1
  /\ next_read_s' = 0
  /\ next_history_s' = 0
  /\ taken' = <<>>

PaceNext ==
  \/ StartRead
  \/ Converted
  \/ \E r \in SampleSet : EndRead(r)
  \/ ReadHistory
  \/ PaceTick
  \/ PowerCycle

PaceSpec == PaceInit /\ [][PaceNext]_paceVars

-----------------------------------------------------------------------------
(***************************************************************************)
(* Properties                                                              *)
(***************************************************************************)

\* The history does not starve: once there is a sample there is a new one after the
\* period, the wait for the next read and what that read and the lock take.
HistoryKeepsUp ==
  Len(taken) > 0 =>
    clock - Last(taken) <= HISTORY_PERIOD_S + CONTROL_READ_PERIOD_S + 3

\* Late samples are never made up for by early ones: the ring covers at least the span
\* it claims, but for the one second by which history_add's own clock sample is late.
RingCoversItsSpan ==
  Len(taken) > 0 => Last(taken) - taken[1] >= (Len(taken) - 1) * HISTORY_PERIOD_S - 1
=============================================================================
