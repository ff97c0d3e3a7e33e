------------------------------- MODULE Device -------------------------------
(***************************************************************************)
(* The controller as its clients see it: the web page through the HTTP     *)
(* task, the followers of the two notification topics.  Whoever reads the  *)
(* control state takes s_lock, so a locked section is one step here        *)
(* (module Control has its inside); events_recent does not take s_lock, so *)
(* the events the section publishes are steps of their own and the lock is *)
(* free again after the last of them.  An entry of the ring is the number  *)
(* of the event, which tells any two apart.                                *)
(***************************************************************************)
EXTENDS ControlLogic, EventLog

CONSTANTS
  cfg,            \* the thresholds
  Temps,          \* temperatures read
  Duration,       \* of a manual command
  MaxTime,        \* bounds: on the clock of one boot,
  MaxEvents       \* and on the events published and the boots

ASSUME DeviceAssumption ==
  /\ cfg \in CtlConfig
  /\ Temps \subseteq Int
  /\ Duration \in Nat /\ MaxTime \in Nat /\ MaxEvents \in Nat
  /\ Events = 1 .. MaxEvents + 3

VARIABLES
  clock,
  s_state,
  s_starts_boot,
  outbox,         \* what the locked section in progress has yet to publish
  told,           \* the pump's state in the last message that mentions it
  numbered        \* history: events and boots so far

deviceVars == <<vars, clock, s_state, s_starts_boot, outbox, told, numbered>>

DInit ==
  /\ Init
  /\ clock = 0
  /\ s_state = ctl_init(0)
  /\ s_starts_boot = 0
  /\ outbox = <<>>
  /\ told = FALSE
  /\ numbered = 0

LockFree == outbox = <<>>

-----------------------------------------------------------------------------
(***************************************************************************)
(* The locked section: what decide_locked publishes, in its order.         *)
(***************************************************************************)

Event(type, on, reason, prev_reason) ==
  [type |-> type, on |-> on, reason |-> reason, prev_reason |-> prev_reason]

SensorEvents(r, s) ==
  IF r.sensor_failed \/ r.sensor_recovered
  THEN <<Event("sensor", r.sensor_failed, s.reason, s.reason)>> ELSE <<>>

\* Bug: one event of the sensor per reading.
OverheatEventsAlone(r, s) ==
  IF (r.overheat_started \/ r.overheat_ended) /\ SensorEvents(r, s) = <<>>
  THEN <<Event("overheat", r.overheat_started, s.reason, s.reason)>> ELSE <<>>

OverheatEvents(r, s) ==
  IF r.overheat_started \/ r.overheat_ended
  THEN <<Event("overheat", r.overheat_started, s.reason, s.reason)>> ELSE <<>>

\* A change of the pump, or the end of an override that did not change it.
PumpEvents(before, after) ==
  IF before.on # after.on
  THEN <<Event("pump", after.on, after.reason, before.reason)>>
  ELSE IF ManualExpired(before, clock) \/ ManualCancelled(before, clock)
  THEN <<Event("manual_end", after.on, after.reason, before.reason)>> ELSE <<>>

\* From the state s with the command or the reading in it, and what the reading changed.
Decided(s, r) ==
  LET after == ctl_decide(s, cfg, clock)
  IN /\ LockFree
     /\ s_state' = after
     /\ s_starts_boot' = IF after.on /\ ~s.on THEN s_starts_boot + 1 ELSE s_starts_boot
     /\ outbox' = SensorEvents(r, after) \o OverheatEvents(r, after) \o PumpEvents(s, after)
     /\ UNCHANGED <<vars, clock, told, numbered>>

\* A pass of the control task, with or without a read.
Pass ==
  /\ numbered < MaxEvents
  /\ \/ Decided(s_state, NoSensorResult)
     \/ \E valid \in BOOLEAN, temp \in Temps :
          LET s == ctl_sensor(s_state, cfg, clock, valid, temp)
          IN Decided(s, SensorResult(s_state, s))

\* control_manual, from the HTTP task; a refused one changes nothing.
Command(manual) ==
  /\ numbered < MaxEvents
  /\ ~ManualRefused(s_state, manual)
  /\ Decided(ctl_manual(s_state, manual, Duration, clock), NoSensorResult)

\* notify: which messages mention the pump, and what they say of it.
ToldAfter(e) ==
  CASE e.type = "pump" /\ e.reason \in {"auto_hot", "manual_on", "maintenance"} -> TRUE
    [] e.type = "pump" /\ e.reason = "manual_off" -> FALSE
    [] e.type = "pump" /\ e.reason = "auto_cold" /\ e.prev_reason # "maintenance" -> FALSE
    [] e.type \in {"overheat", "sensor"} /\ e.on -> TRUE
    [] OTHER -> told

\* events_publish stores the event and hands its message over.
Publish ==
  /\ outbox # <<>>
  /\ numbered' = numbered + 1
  /\ events_publish(numbered')
  /\ told' = ToldAfter(Head(outbox))
  /\ outbox' = Tail(outbox)
  /\ UNCHANGED <<clock, s_state, s_starts_boot>>

-----------------------------------------------------------------------------

ListEvents == events_handler /\ UNCHANGED <<clock, s_state, s_starts_boot, outbox, told, numbered>>

DTick ==
  /\ clock < MaxTime
  /\ clock' = clock + 1
  /\ UNCHANGED <<vars, s_state, s_starts_boot, outbox, told, numbered>>

\* A reset loses the log and the state; a message handed over is not taken back.
DReboot ==
  /\ numbered < MaxEvents
  /\ Reboot
  /\ clock' = 0
  /\ s_state' = ctl_init(0)
  /\ s_starts_boot' = 0
  /\ outbox' = <<>>
  /\ UNCHANGED told
  /\ numbered' = numbered + 1

DNext ==
  \/ Pass
  \/ \E manual \in Manual : Command(manual)
  \/ Publish
  \/ ListEvents
  \/ DTick
  \/ DReboot

DSpec == DInit /\ [][DNext]_deviceVars

-----------------------------------------------------------------------------
(***************************************************************************)
(* Properties                                                              *)
(***************************************************************************)

\* "An alert goes out": while it is overheated nobody who follows the topics believes
\* that the pump stands still, whatever was announced before and after.
OverheatIsTold == LockFree /\ s_state.overheat => told

\* README.md:32, "pump start and stop on one topic, overheat, sensor failure and every
\* error line on another", and events.c:78, "the error topic already has it": a pump
\* that the fail-safe runs was announced to run.
FailSafeIsTold ==
  LockFree /\ s_state.on /\ s_state.reason \in {"sensor_fail", "overheat"} => told
=============================================================================
