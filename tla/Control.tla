------------------------------ MODULE Control -------------------------------
(***************************************************************************)
(* The control task of control.c, the HTTP task that calls into it, the    *)
(* relay, the task watchdog and the clock.                                 *)
(*                                                                         *)
(* One pass of the task is cut where another task can run between two      *)
(* statements: it samples the clock BEFORE it takes s_lock, reads the      *)
(* sensor outside the lock, and copies the thresholds twice under the lock *)
(* (settings_set does not take s_lock).  control_manual samples the clock  *)
(* under the lock and is one step.  The clock runs while the task does:    *)
(* "due" is the second by which the task's current activity is over.       *)
(*                                                                         *)
(* count_runtime_locked, called by the same locked section, is added by    *)
(* module ControlRuntime; its counters are read by no decision.            *)
(***************************************************************************)
EXTENDS ControlLogic

CONSTANTS
  CONTROL_READ_PERIOD_S,   \* seconds between sensor reads
  MANUAL_MIN_S,            \* bounds of a manual override
  MANUAL_MAX_S,
  TASK_WDT_TIMEOUT_S,      \* a task silent this long resets the device
  API_START_S,             \* no request before this second of a boot (WiFi, api_start)
  Temps,                   \* temperatures the sensor can return
  SettingsValues,          \* sanitized thresholds, see module Settings
  Durations,               \* durations a client may ask for
  MaxTime                  \* bound on the clock of one power cycle

ASSUME ControlAssumption ==
  /\ CONTROL_READ_PERIOD_S \in Nat \ {0}
  /\ MANUAL_MIN_S \in Nat \ {0}
  /\ MANUAL_MAX_S \in Nat
  /\ MANUAL_MIN_S <= MANUAL_MAX_S
  /\ TASK_WDT_TIMEOUT_S \in Nat \ {0}
  /\ API_START_S \in Nat
  /\ Temps \subseteq Int
  /\ SettingsValues \subseteq CtlConfig
  /\ SettingsValues # {}
  /\ Durations \subseteq Nat
  /\ MaxTime \in Nat

\* What the modules downstream of sanitize() rely on: ordered thresholds, and an
\* overheat that clears only above the start threshold.
ASSUME ThresholdsOrdered ==
  \A c \in SettingsValues :
    /\ c.stop_x10 < c.start_x10
    /\ c.start_x10 < c.critical_x10 - OVERHEAT_CLEAR_X10

\* The watchdog outlasts a pass and the sleep after it, and shadows control_alive().
ASSUME WatchdogAssumption ==
  4 < TASK_WDT_TIMEOUT_S /\ TASK_WDT_TIMEOUT_S < 3 * CONTROL_READ_PERIOD_S

VARIABLES
  clock,          \* esp_timer, in seconds since boot
  s_state,        \* ctl_state_t, written only under s_lock
  relay,          \* level of GPIO_PUMP
  s_lock,         \* holder of the mutex
  s_heartbeat_s,
  s_settings,     \* thresholds in RAM (settings.c)
  pc,             \* where the control task is
  now_s,          \* its copy of the clock
  read,           \* this pass reads the sensor
  reading,        \* what temp_sensor_read returned
  r,              \* its ctl_result_t, the part ctl_sensor fills
  next_read_s,
  due,            \* the task's current activity ends by this second
  wdt,            \* last esp_task_wdt_reset
  notified,       \* the task's notification value is not zero
  http,           \* where the HTTP task is
  reported,       \* what the event log says last of pump, overheat, sensor; repeats
  lastOff         \* history: when the relay was last switched off, or boot

taskVars == <<pc, now_s, read, reading, r, next_read_s, due>>
vars == <<clock, s_state, relay, s_lock, s_heartbeat_s, s_settings, taskVars,
          wdt, notified, http, reported, lastOff>>

NoReading == [valid |-> FALSE, temp |-> 0]
Readings  == {NoReading} \union [valid : {TRUE}, temp : Temps]

NothingReported ==
  [pump |-> FALSE, overheat |-> FALSE, sensor |-> FALSE, repeated |-> FALSE]

ClampDuration(d) ==
  IF d < MANUAL_MIN_S THEN MANUAL_MIN_S
  ELSE IF d > MANUAL_MAX_S THEN MANUAL_MAX_S
  ELSE d

-----------------------------------------------------------------------------
(***************************************************************************)
(* What decide_locked does after ctl_decide: the relay, the events.  The   *)
(* log keeps, per kind, the last value published, and whether any event so *)
(* far only said again what the last one of its kind had said.             *)
(***************************************************************************)

\* pump_set is called for a change, and by the control task also when the level it
\* reads back after the decision is not the decided one.
DriveRelay(was, on, caller) ==
  /\ relay' = IF on # was \/ caller = "control" THEN on ELSE relay
  /\ lastOff' = IF relay /\ ~relay' THEN clock ELSE lastOff

\* Events of the given kinds go into the log.
Publish(sensor, after, pumpEvent, overheatEvent, sensorEvent) ==
  reported' =
    [ pump     |-> IF pumpEvent THEN after.on ELSE reported.pump,
      overheat |-> IF overheatEvent THEN sensor.overheat_started ELSE reported.overheat,
      sensor   |-> IF sensorEvent THEN sensor.sensor_failed ELSE reported.sensor,
      repeated |-> \/ reported.repeated
                   \/ pumpEvent /\ after.on = reported.pump
                   \/ overheatEvent /\ sensor.overheat_started = reported.overheat
                   \/ sensorEvent /\ sensor.sensor_failed = reported.sensor ]

\* Bug: an overheat event is published only when there is no sensor event.
PublishOneEvent(sensor, before, after) ==
  Publish(sensor, after, after.on # before.on,
          /\ sensor.overheat_started \/ sensor.overheat_ended
          /\ ~sensor.sensor_failed /\ ~sensor.sensor_recovered,
          sensor.sensor_failed \/ sensor.sensor_recovered)

PublishEvents(sensor, before, after) ==
  Publish(sensor, after, after.on # before.on,
          sensor.overheat_started \/ sensor.overheat_ended,
          sensor.sensor_failed \/ sensor.sensor_recovered)

decide_locked(before, now, sensor, caller) ==
  LET after == ctl_decide(before, s_settings, now)
  IN /\ s_state' = after
     /\ DriveRelay(before.on, after.on, caller)
     /\ PublishEvents(sensor, s_state, after)

-----------------------------------------------------------------------------
(***************************************************************************)
(* The control task.  settings_init has loaded some sanitized thresholds   *)
(* and control_start has driven the relay low when the task starts.        *)
(***************************************************************************)

Init ==
  /\ clock = 0
  /\ s_state = ctl_init(0)
  /\ relay = FALSE
  /\ s_lock = "free"
  /\ s_heartbeat_s = 0
  /\ s_settings \in SettingsValues
  /\ pc = "sleep"
  /\ now_s = 0
  /\ read = FALSE
  /\ reading = NoReading
  /\ r = NoSensorResult
  /\ next_read_s = 0
  /\ due = 1
  /\ wdt = 0
  /\ notified = FALSE
  /\ http = "idle"
  /\ reported = NothingReported
  /\ lastOff = 0

\* Bug: every pass postpones the next sensor read.
NextReadPostponed(reads) == clock + CONTROL_READ_PERIOD_S

NextRead(reads) == IF reads THEN clock + CONTROL_READ_PERIOD_S ELSE next_read_s

\* ulTaskNotifyTake returns (notified, or 1 s over) and the loop starts again.
BeginPass ==
  /\ pc = "sleep"
  /\ notified \/ clock >= due - 1
  /\ notified' = FALSE
  /\ now_s' = clock
  /\ read' = (clock >= next_read_s)
  /\ next_read_s' = NextRead(read')
  /\ pc' = IF read' THEN "reading" ELSE "locking"
  /\ due' = clock + 1
  /\ UNCHANGED <<clock, s_state, relay, s_lock, s_heartbeat_s, s_settings,
                 reading, r, wdt, http, reported, lastOff>>

\* temp_sensor_read returns, then the clock is sampled again.
ReadSensor(rd) ==
  /\ pc = "reading"
  /\ reading' = rd
  /\ now_s' = clock
  /\ pc' = "locking"
  /\ due' = clock + 1
  /\ UNCHANGED <<clock, s_state, relay, s_lock, s_heartbeat_s, s_settings, read,
                 r, next_read_s, wdt, notified, http, reported, lastOff>>

\* temp_sensor_read never returns.
Hang ==
  /\ pc = "reading"
  /\ pc' = "hung"
  /\ UNCHANGED <<clock, s_state, relay, s_lock, s_heartbeat_s, s_settings, now_s,
                 read, reading, r, next_read_s, due, wdt, notified, http,
                 reported, lastOff>>

\* The lock is taken and a reading goes into the state.
TakeReading ==
  /\ pc = "locking"
  /\ s_lock = "free"
  /\ s_lock' = "control"
  /\ s_state' = IF read THEN ctl_sensor(s_state, s_settings, now_s, reading.valid, reading.temp)
                        ELSE s_state
  /\ r' = SensorResult(s_state, s_state')
  /\ pc' = "deciding"
  /\ UNCHANGED <<clock, relay, s_heartbeat_s, s_settings, now_s, read, reading,
                 next_read_s, due, wdt, notified, http, reported, lastOff>>

\* Bug: the heartbeat beats only for a pass with a good reading.
DecideBeatsOnReading ==
  /\ pc = "deciding"
  /\ decide_locked(s_state, now_s, r, "control")
  /\ s_heartbeat_s' = IF reading.valid THEN now_s ELSE s_heartbeat_s
  /\ s_lock' = "free"
  /\ r' = NoSensorResult
  /\ pc' = "finishing"
  /\ UNCHANGED <<clock, s_settings, now_s, read, reading, next_read_s, due, wdt,
                 notified, http>>

Decide ==
  /\ pc = "deciding"
  /\ decide_locked(s_state, now_s, r, "control")
  /\ s_heartbeat_s' = now_s
  /\ s_lock' = "free"
  /\ r' = NoSensorResult
  /\ pc' = "finishing"
  /\ UNCHANGED <<clock, s_settings, now_s, read, reading, next_read_s, due, wdt,
                 notified, http>>

\* Bug: only a pass that read the sensor feeds the watchdog.
EndPassFedOnRead ==
  /\ pc = "finishing"
  /\ wdt' = IF read THEN clock ELSE wdt
  /\ pc' = "sleep"
  /\ due' = clock + 2
  /\ read' = FALSE
  /\ reading' = NoReading
  /\ UNCHANGED <<clock, s_state, relay, s_lock, s_heartbeat_s, s_settings, now_s,
                 r, next_read_s, notified, http, reported, lastOff>>

\* After the lock: the watchdog is fed and the task sleeps.
EndPass ==
  /\ pc = "finishing"
  /\ wdt' = clock
  /\ pc' = "sleep"
  /\ due' = clock + 2
  /\ read' = FALSE
  /\ reading' = NoReading
  /\ UNCHANGED <<clock, s_state, relay, s_lock, s_heartbeat_s, s_settings, now_s,
                 r, next_read_s, notified, http, reported, lastOff>>

-----------------------------------------------------------------------------
(***************************************************************************)
(* The HTTP task: one handler at a time.  A handler that changed something *)
(* notifies the control task only after it released the lock.              *)
(***************************************************************************)

HandlerStarts == http = "idle" /\ clock >= API_START_S

\* Bug: the command is stored and the decision left to the task.
ManualUndecided(manual, duration_s) ==
  /\ HandlerStarts
  /\ s_lock = "free"
  /\ ~ManualRefused(s_state, manual)
  /\ s_state' = ctl_manual(s_state, manual, ClampDuration(duration_s), clock)
  /\ http' = "notifying"
  /\ UNCHANGED <<clock, relay, s_lock, s_heartbeat_s, s_settings, taskVars, wdt,
                 notified, reported, lastOff>>

control_manual(manual, duration_s) ==
  /\ HandlerStarts
  /\ s_lock = "free"
  /\ ~ManualRefused(s_state, manual)
  /\ decide_locked(ctl_manual(s_state, manual, ClampDuration(duration_s), clock),
                   clock, NoSensorResult, "http")
  /\ http' = "notifying"
  /\ UNCHANGED <<clock, s_lock, s_heartbeat_s, s_settings, taskVars, wdt, notified>>

RequestedDuration(state, asked_s) ==
  IF state = "none" THEN 0 ELSE IF asked_s > MANUAL_MAX_S THEN MANUAL_MAX_S ELSE asked_s

\* A well-formed request; any other is answered 400 and changes nothing.
pump_command(state, asked_s) == control_manual(state, RequestedDuration(state, asked_s))

\* settings_set applies at once, without s_lock; module Settings has the rest of it.
settings_set(c) ==
  /\ HandlerStarts
  /\ s_settings' = c
  /\ http' = "notifying"
  /\ UNCHANGED <<clock, s_state, relay, s_lock, s_heartbeat_s, taskVars, wdt,
                 notified, reported, lastOff>>

\* xTaskNotifyGive, of control_manual and of control_settings_changed.
NotifyTask ==
  /\ http = "notifying"
  /\ notified' = TRUE
  /\ http' = "idle"
  /\ UNCHANGED <<clock, s_state, relay, s_lock, s_heartbeat_s, s_settings, taskVars,
                 wdt, reported, lastOff>>

-----------------------------------------------------------------------------
(***************************************************************************)
(* Time, the watchdog and resets.                                          *)
(***************************************************************************)

\* A second passes (up to MaxTime, or until a hung task is reset).  It cannot pass
\* over the end of what the task is doing (the highest priority on its core), unless
\* the sensor driver hangs, nor over the second in which the watchdog fires.
Tick ==
  /\ clock < MaxTime \/ pc = "hung"
  /\ pc = "hung" \/ clock < due
  /\ clock < wdt + TASK_WDT_TIMEOUT_S
  /\ clock' = clock + 1
  /\ UNCHANGED <<s_state, relay, s_lock, s_heartbeat_s, s_settings, taskVars, wdt,
                 notified, http, reported, lastOff>>

\* Everything in RAM is lost; settings_init loads what NVS holds.
Reboot(c) ==
  /\ clock' = 0
  /\ s_state' = ctl_init(0)
  /\ relay' = FALSE
  /\ s_lock' = "free"
  /\ s_heartbeat_s' = 0
  /\ s_settings' = c
  /\ pc' = "sleep"
  /\ now_s' = 0
  /\ read' = FALSE
  /\ reading' = NoReading
  /\ r' = NoSensorResult
  /\ next_read_s' = 0
  /\ due' = 1
  /\ wdt' = 0
  /\ notified' = FALSE
  /\ http' = "idle"
  /\ reported' = NothingReported
  /\ lastOff' = 0

\* Bug: the control task is not registered with the watchdog.
WatchdogDeaf == FALSE

WatchdogFires == clock >= wdt + TASK_WDT_TIMEOUT_S

WatchdogReset == WatchdogFires /\ \E c \in SettingsValues : Reboot(c)

\* A power cut, /api/reboot or an update, at any point.
PowerCycle == \E c \in SettingsValues : Reboot(c)

ControlTask ==
  \/ BeginPass
  \/ \E rd \in Readings : ReadSensor(rd)
  \/ TakeReading
  \/ Decide
  \/ EndPass

HttpTask ==
  \/ \E m \in Manual, d \in Durations : pump_command(m, d)
  \/ \E c \in SettingsValues : settings_set(c)
  \/ NotifyTask

Next == ControlTask \/ HttpTask \/ Tick \/ Hang \/ WatchdogReset \/ PowerCycle

Spec == Init /\ [][Next]_vars

\* The task runs, time passes and the watchdog interrupt is served; nothing obliges
\* a client to call, a driver to hang or the power to fail.
Fairness == WF_vars(ControlTask) /\ WF_vars(Tick) /\ WF_vars(WatchdogReset)

FairSpec == Spec /\ Fairness

-----------------------------------------------------------------------------
(***************************************************************************)
(* Properties                                                              *)
(***************************************************************************)

Pcs == {"sleep", "reading", "locking", "deciding", "finishing", "hung"}

SensorResults == [ sensor_failed : BOOLEAN, sensor_recovered : BOOLEAN,
                   overheat_started : BOOLEAN, overheat_ended : BOOLEAN ]

\* Every variable has its type, and the lock is held exactly while the task decides.
TypeOK ==
  /\ clock \in Nat
  /\ s_state \in CtlState
  /\ relay \in BOOLEAN
  /\ s_lock = (IF pc = "deciding" THEN "control" ELSE "free")
  /\ s_heartbeat_s \in Nat
  /\ s_settings \in SettingsValues
  /\ pc \in Pcs
  /\ now_s \in Nat
  /\ read \in BOOLEAN
  /\ reading \in [valid : BOOLEAN, temp : Int]
  /\ r \in SensorResults
  /\ next_read_s \in Nat
  /\ due \in Nat
  /\ wdt \in Nat
  /\ notified \in BOOLEAN
  /\ http \in {"idle", "notifying"}
  /\ reported \in [ pump : BOOLEAN, overheat : BOOLEAN, sensor : BOOLEAN,
                     repeated : BOOLEAN ]
  /\ lastOff \in Nat

\* Nobody leaves the lock with a stale decision: whatever fields a handler or the
\* task changed, the published reason, the published pump state and the relay are
\* the ones the control rules give for the fields as they are now.
DecisionIsCurrent ==
  s_lock = "free" =>
    /\ s_state.reason = ReasonFor(s_state.overheat, s_state.manual,
                                  s_state.sensor_failed, s_state.hot, s_state.maintenance)
    /\ s_state.on = (s_state.reason \in OnReason)
    /\ relay = s_state.on

\* Overheat wins over everything: while it lasts the relay is on and no manual stop
\* is pending that could switch it off later.
OverheatForcesPump ==
  s_lock = "free" /\ s_state.overheat => relay /\ s_state.manual # "stop"

\* A manual stop never coexists with a running pump, not even between a reading and
\* its decision.  So dropping it because of overheat always switches the pump, and
\* the EV_MANUAL_END "overheat" event of decide_locked is never published.
StoppedByHandIsOff == s_state.manual = "stop" => ~s_state.on

\* Enough bad reads in a row and the pump runs, whatever the thresholds, the
\* hysteresis or a maintenance run were about to do; only a manual stop holds it.
DeadSensorRunsPump ==
  s_lock = "free" /\ s_state.failures >= SENSOR_FAIL_READS /\ s_state.manual # "stop"
    => relay

\* Water last measured above every start threshold in use does not stand still
\* unless somebody stopped the pump by hand, through failing and recovering sensors
\* and threshold changes.
HotWaterNeverStands ==
  /\ s_lock = "free"
  /\ s_state.have_temp
  /\ \A c \in SettingsValues : s_state.temp_x10 > c.start_x10
  /\ s_state.manual # "stop"
  => relay

\* Water last measured below every stop threshold in use is not pumped through the
\* floor, except by hand, by the fail-safe or by the maintenance run.
ColdWaterNotPumped ==
  /\ s_lock = "free"
  /\ s_state.have_temp /\ ~s_state.sensor_failed
  /\ \A c \in SettingsValues : s_state.temp_x10 < c.stop_x10
  /\ s_state.manual # "start" /\ ~s_state.maintenance
  => ~relay

\* Whoever replays the event log knows the pump, the overheat and the sensor state: no
\* change goes unreported or is reversed, and no event ever repeats the one before it of
\* its kind, however long a sensor stays dead or the water critical.
LogMatchesState ==
  s_lock = "free" =>
    reported = [ pump |-> s_state.on, overheat |-> s_state.overheat,
                 sensor |-> s_state.sensor_failed, repeated |-> FALSE ]

-----------------------------------------------------------------------------
(* Bounds in real time.  A pass and the sleep after it take at most 4 s. *)

Running == pc # "hung"

\* A manual override ends on its own: at most 4 s after its time the task has put
\* the pump back to automatic.
OverrideEndsOnTime ==
  Running /\ s_state.manual # "none" => clock <= s_state.manual_until_s + 4

\* No good reading for that long and the pump runs.
SensorDeadline == SENSOR_FAIL_READS * (CONTROL_READ_PERIOD_S + 2) + 2

\* A dead sensor is noticed in time: without a good reading for SensorDeadline the
\* pump runs, unless stopped by hand.
DeadSensorNoticedInTime ==
  Running /\ clock > s_state.temp_s + SensorDeadline /\ s_state.manual # "stop" => relay

\* The watchdog resets only a hung device: the passes between two sensor reads, the
\* conversions and the waits for the lock never starve it.
WatchdogOnlyWhenHung == WatchdogFires => pc = "hung"

\* control_alive() is never false: a task that stops beating is reset by the
\* watchdog before three read periods have passed.
ControlAlive == clock - s_heartbeat_s <= 3 * CONTROL_READ_PERIOD_S

\* A maintenance run starts only when the pump stood still for the whole interval,
\* up to the second by which a sampled clock can be late.
MaintenanceOnlyAfterIdle ==
  [][s_state'.maintenance /\ ~s_state.maintenance =>
       ~relay /\ clock - lastOff >= MAINTENANCE_INTERVAL_S - 1]_vars

\* The impeller does not seize: while the water is cold and nobody stopped the pump,
\* it stands still no longer than the interval and one pass.
PumpExercised ==
  /\ s_lock = "free" /\ Running /\ ~relay
  /\ s_state.have_temp /\ s_state.manual = "none"
  /\ \A c \in SettingsValues : s_state.temp_x10 < c.stop_x10
  => clock - lastOff <= MAINTENANCE_INTERVAL_S + 4

\* A sensor driver that never returns does not stop the controller for good: the
\* watchdog restarts it with the pump off and its lock free.
HungTaskIsReset == pc = "hung" ~> (pc = "sleep" /\ s_lock = "free" /\ ~relay)

-----------------------------------------------------------------------------
(* What the two tasks implement together. *)

\* Between the locked sections the pump is what was reported and commanded last.
Promise == INSTANCE Pump WITH
  Slack    <- 4,
  stuck    <- pc = "hung",
  overheat <- reported.overheat,
  dead     <- reported.sensor,
  manual   <- s_state.manual,
  until    <- s_state.manual_until_s,
  on       <- relay

\* However the steps of the two tasks interleave, the controller is the pump of module
\* Pump: no pass, reading, event or threshold change ends a command before its time or
\* changes it, only an overheat or another command does; and overheat and fail-safe
\* change with the relay, in one step.
ImplementsPump == Promise!PumpSpec

-----------------------------------------------------------------------------
(* Promises of the documentation that the code does not keep. *)

\* control.h:35, "Threshold change from the app: applied on the next decision
\* (immediately)": once the task it woke has decided and sleeps again, water above
\* the new start threshold is pumped.
ThresholdsAppliedOnNextDecision ==
  /\ pc = "sleep" /\ ~notified /\ http = "idle"
  /\ s_state.have_temp /\ s_state.manual = "none"
  /\ s_state.temp_x10 > s_settings.start_x10
  => relay
=============================================================================
