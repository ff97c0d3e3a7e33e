---------------------------- MODULE ControlLogic ----------------------------
(***************************************************************************)
(* The pump decisions of control_logic.c: pure operators on the decision   *)
(* state ctl_state_t, no variables.  Temperatures are integers (0.1 C),    *)
(* time is monotonic seconds.  A configuration is the record of the three  *)
(* thresholds; the other members of ctl_config_t are compile-time          *)
(* constants (control.c fills them from config.h).                         *)
(*                                                                         *)
(* Left out of ctl_state_t: changed_s, a timestamp that only the status    *)
(* report reads.                                                           *)
(*                                                                         *)
(* An operator marked "Bug:" is a mistake one could make in the definition *)
(* after it; no specification uses it, and a property that fails when it   *)
(* takes that definition's place is shown to depend on the definition.     *)
(***************************************************************************)
EXTENDS Integers

CONSTANTS
  OVERHEAT_CLEAR_X10,       \* overheat ends this far below the critical threshold
  SENSOR_FAIL_READS,        \* consecutive bad reads before the fail-safe
  UINT8_MAX,                \* where the counter of bad reads saturates
  MAINTENANCE_INTERVAL_S,   \* idle this long -> anti-seize run
  MAINTENANCE_RUN_S         \* length of that run

ASSUME LogicAssumption ==
  /\ OVERHEAT_CLEAR_X10 \in Nat
  /\ SENSOR_FAIL_READS \in Nat \ {0}
  /\ UINT8_MAX \in Nat
  /\ SENSOR_FAIL_READS <= UINT8_MAX
  /\ MAINTENANCE_INTERVAL_S \in Nat \ {0}
  /\ MAINTENANCE_RUN_S \in Nat \ {0}

-----------------------------------------------------------------------------
(***************************************************************************)
(* Types                                                                   *)
(***************************************************************************)

OnReason  == {"auto_hot", "manual_on", "maintenance", "sensor_fail", "overheat"}
OffReason == {"auto_cold", "manual_off"}
Reason    == OnReason \union OffReason
Manual    == {"none", "start", "stop"}

CtlConfig == [start_x10 : Int, stop_x10 : Int, critical_x10 : Int]

CtlState ==
  [ on                  : BOOLEAN,
    reason              : Reason,
    have_temp           : BOOLEAN,
    temp_x10            : Int,
    temp_s              : Int,
    failures            : 0 .. UINT8_MAX,
    sensor_failed       : BOOLEAN,
    overheat            : BOOLEAN,
    hot                 : BOOLEAN,
    manual              : Manual,
    manual_until_s      : Int,
    maintenance         : BOOLEAN,
    maintenance_until_s : Int,
    last_on_s           : Int ]

\* The state after boot: pump off, nothing read, automatic control.
ctl_init(now_s) ==
  [ on                  |-> FALSE,
    reason              |-> "auto_cold",
    have_temp           |-> FALSE,
    temp_x10            |-> 0,
    temp_s              |-> 0,
    failures            |-> 0,
    sensor_failed       |-> FALSE,
    overheat            |-> FALSE,
    hot                 |-> FALSE,
    manual              |-> "none",
    manual_until_s      |-> 0,
    maintenance         |-> FALSE,
    maintenance_until_s |-> 0,
    last_on_s           |-> now_s ]

-----------------------------------------------------------------------------
(***************************************************************************)
(* A sensor read                                                           *)
(***************************************************************************)

\* Bug: the counter is not saturated.
FailuresUnsaturated(s) == s.failures + 1

FailuresCounted(s) == IF s.failures < UINT8_MAX THEN s.failures + 1 ELSE s.failures

\* Bug: one read too many.
FailSafeLate(s) == FailuresCounted(s) > SENSOR_FAIL_READS

FailSafeReached(s) == FailuresCounted(s) >= SENSOR_FAIL_READS

\* Bug: overheat never clears.
OverheatLatched(s, cfg, temp) == s.overheat \/ temp >= cfg.critical_x10

OverheatAfter(s, cfg, temp) ==
  IF s.overheat THEN temp >= cfg.critical_x10 - OVERHEAT_CLEAR_X10
                ELSE temp >= cfg.critical_x10

\* Bug: the reading stored before this one is compared.
HotOfLastReading(s, cfg, temp) ==
  s.temp_x10 > cfg.start_x10 \/ (s.hot /\ s.temp_x10 >= cfg.stop_x10)

HotAfter(s, cfg, temp) ==
  temp > cfg.start_x10 \/ (s.hot /\ temp >= cfg.stop_x10)

ctl_sensor(s, cfg, now_s, valid, temp) ==
  IF valid
  THEN [s EXCEPT !.sensor_failed = FALSE,
                 !.failures      = 0,
                 !.have_temp     = TRUE,
                 !.temp_x10      = temp,
                 !.temp_s        = now_s,
                 !.overheat      = OverheatAfter(s, cfg, temp),
                 !.hot           = HotAfter(s, cfg, temp)]
  ELSE [s EXCEPT !.failures      = FailuresCounted(s),
                 !.sensor_failed = @ \/ FailSafeReached(s)]

\* The part of ctl_result_t that ctl_sensor fills, from the states around the call.
NoSensorResult ==
  [ sensor_failed    |-> FALSE, sensor_recovered |-> FALSE,
    overheat_started |-> FALSE, overheat_ended   |-> FALSE ]

\* Bug: a failed sensor is reported at every bad read.
SensorResultEachRead(before, after) ==
  [ sensor_failed    |-> after.sensor_failed,
    sensor_recovered |-> before.sensor_failed /\ ~after.sensor_failed,
    overheat_started |-> ~before.overheat /\ after.overheat,
    overheat_ended   |-> before.overheat /\ ~after.overheat ]

SensorResult(before, after) ==
  [ sensor_failed    |-> ~before.sensor_failed /\ after.sensor_failed,
    sensor_recovered |-> before.sensor_failed /\ ~after.sensor_failed,
    overheat_started |-> ~before.overheat /\ after.overheat,
    overheat_ended   |-> before.overheat /\ ~after.overheat ]

-----------------------------------------------------------------------------
(***************************************************************************)
(* A manual command                                                        *)
(***************************************************************************)

ManualRefused(s, manual) == manual = "stop" /\ s.overheat

ctl_manual(s, manual, duration_s, now_s) ==
  [s EXCEPT !.manual         = manual,
            !.manual_until_s = IF manual = "none" THEN 0 ELSE now_s + duration_s]

-----------------------------------------------------------------------------
(***************************************************************************)
(* The decision                                                            *)
(***************************************************************************)

\* Bug: only a stop expires.
ManualStopExpired(s, now_s) == s.manual = "stop" /\ now_s >= s.manual_until_s

\* Bug: a command expires a second early.
ManualExpiredEarly(s, now_s) == s.manual # "none" /\ now_s + 1 >= s.manual_until_s

ManualExpired(s, now_s) == s.manual # "none" /\ now_s >= s.manual_until_s

\* Bug: overheat leaves the manual stop pending.
ManualNotCancelled(s, now_s) == FALSE

ManualCancelled(s, now_s) ==
  ~ManualExpired(s, now_s) /\ s.manual = "stop" /\ s.overheat

ManualAfter(s, now_s) ==
  IF ManualExpired(s, now_s) \/ ManualCancelled(s, now_s) THEN "none" ELSE s.manual

MaintenanceRunning(s, now_s) == s.maintenance /\ now_s < s.maintenance_until_s

MaintenanceStarted(s, cfg, now_s) ==
  /\ ~MaintenanceRunning(s, now_s)
  /\ ~s.on
  /\ ManualAfter(s, now_s) = "none"
  /\ ~s.sensor_failed
  /\ s.have_temp
  /\ s.temp_x10 < cfg.stop_x10
  /\ now_s - s.last_on_s >= MAINTENANCE_INTERVAL_S

\* Bug: the sensor fail-safe is asked before the manual command.
ReasonForSensorFirst(overheat, manual, sensor_failed, hot, maintenance) ==
  IF overheat               THEN "overheat"
  ELSE IF sensor_failed     THEN "sensor_fail"
  ELSE IF manual = "start"  THEN "manual_on"
  ELSE IF manual = "stop"   THEN "manual_off"
  ELSE IF hot               THEN "auto_hot"
  ELSE IF maintenance       THEN "maintenance"
  ELSE "auto_cold"

\* Who decides, in order: overheat, the manual command, the sensor fail-safe,
\* the hysteresis, the maintenance run.
ReasonFor(overheat, manual, sensor_failed, hot, maintenance) ==
  IF overheat               THEN "overheat"
  ELSE IF manual = "start"  THEN "manual_on"
  ELSE IF manual = "stop"   THEN "manual_off"
  ELSE IF sensor_failed     THEN "sensor_fail"
  ELSE IF hot               THEN "auto_hot"
  ELSE IF maintenance       THEN "maintenance"
  ELSE "auto_cold"

\* Bug: the idle clock is restarted only when the pump is switched on.
LastOnAtStart(s, on, now_s) == IF ~s.on /\ on THEN now_s ELSE s.last_on_s

\* Bug: every decision restarts the idle clock.
LastOnAlways(s, on, now_s) == now_s

LastOn(s, on, now_s) == IF s.on \/ on THEN now_s ELSE s.last_on_s

ctl_decide(s, cfg, now_s) ==
  LET starts == MaintenanceStarted(s, cfg, now_s)
      runs   == starts \/ MaintenanceRunning(s, now_s)
      manual == ManualAfter(s, now_s)
      reason == ReasonFor(s.overheat, manual, s.sensor_failed, s.hot, runs)
      on     == reason \in OnReason
  IN [s EXCEPT !.on                  = on,
               !.reason              = reason,
               !.manual              = manual,
               !.maintenance         = runs,
               !.maintenance_until_s = IF starts THEN now_s + MAINTENANCE_RUN_S ELSE @,
               !.last_on_s           = LastOn(s, on, now_s)]
=============================================================================
