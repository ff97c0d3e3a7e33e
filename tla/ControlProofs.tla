--------------------------- MODULE ControlProofs ----------------------------
(***************************************************************************)
(* Theorems about module Control, for every threshold, reading, duration,  *)
(* period and clock: its type invariant and the safety of the decisions.   *)
(***************************************************************************)
EXTENDS Control, LogicProofs

-----------------------------------------------------------------------------
(***************************************************************************)
(* The constants and operators of the model                                *)
(***************************************************************************)

\* The thresholds in use are three ordered numbers; overheat clears above the start one.
LEMMA SettingsAreConfig ==
  ASSUME NEW c \in SettingsValues
  PROVE  /\ c \in CtlConfig
         /\ c.start_x10 \in Int /\ c.stop_x10 \in Int /\ c.critical_x10 \in Int
         /\ c.stop_x10 < c.start_x10
         /\ c.start_x10 < c.critical_x10 - OVERHEAT_CLEAR_X10
BY ControlAssumption, ThresholdsOrdered DEF CtlConfig

-----------------------------------------------------------------------------
(***************************************************************************)
(* The type invariant                                                      *)
(***************************************************************************)

Reports == [pump : BOOLEAN, overheat : BOOLEAN, sensor : BOOLEAN, repeated : BOOLEAN]

\* The results a pass starts with, and the log after boot, have their types.
LEMMA NoResultTypes ==
  /\ NoSensorResult \in SensorResults
  /\ NoReading \in [valid : BOOLEAN, temp : Int]
  /\ NothingReported \in Reports
BY DEF NoSensorResult, SensorResults, NoReading, NothingReported, Reports

\* Whatever duration a request names, the one that is used is a number of seconds.
LEMMA ClampType ==
  ASSUME NEW m \in Manual, NEW d \in Durations
  PROVE  ClampDuration(RequestedDuration(m, d)) \in Int
BY ControlAssumption DEF ClampDuration, RequestedDuration

\* What the locked section leaves in the state, on the relay and in the log, whatever
\* state it was entered with.
LEMMA DecideLockedEffect ==
  ASSUME TypeOK, NEW before \in CtlState, NEW now \in Int, NEW sensor \in SensorResults,
         NEW caller,
         decide_locked(before, now, sensor, caller)
  PROVE  /\ s_state' \in CtlState
         /\ s_state'.reason = ReasonFor(s_state'.overheat, s_state'.manual,
                                s_state'.sensor_failed, s_state'.hot, s_state'.maintenance)
         /\ s_state'.on = (s_state'.reason \in OnReason)
         /\ s_state'.overheat = before.overheat
         /\ s_state'.sensor_failed = before.sensor_failed
         /\ s_state'.hot = before.hot /\ s_state'.failures = before.failures
         /\ s_state'.have_temp = before.have_temp /\ s_state'.temp_x10 = before.temp_x10
         /\ s_state'.overheat => s_state'.manual # "stop"
         /\ caller = "control" \/ relay = before.on => relay' = s_state'.on
         /\ relay' \in BOOLEAN
         /\ lastOff' \in Nat
         /\ reported' \in Reports
         /\ PublishEvents(sensor, s_state, s_state')
<1>1. s_settings \in CtlConfig
  BY SettingsAreConfig DEF TypeOK
<1> DEFINE after == ctl_decide(before, s_settings, now)
<1>2. /\ after \in CtlState
      /\ after.reason = ReasonFor(after.overheat, after.manual, after.sensor_failed,
                                  after.hot, after.maintenance)
      /\ after.on = (after.reason \in OnReason)
      /\ after.overheat = before.overheat /\ after.sensor_failed = before.sensor_failed
      /\ after.hot = before.hot /\ after.failures = before.failures
      /\ after.have_temp = before.have_temp /\ after.temp_x10 = before.temp_x10
      /\ after.overheat => after.manual # "stop"
  BY <1>1, DecideEffect
<1>3. /\ s_state' = after /\ DriveRelay(before.on, after.on, caller)
      /\ PublishEvents(sensor, s_state, after)
  BY DEF decide_locked
<1> HIDE DEF after
<1>4. after.on \in BOOLEAN
  BY <1>2 DEF CtlState
<1>5. /\ caller = "control" \/ relay = before.on => relay' = after.on
      /\ relay' \in BOOLEAN /\ lastOff' \in Nat
  BY <1>3, <1>4 DEF DriveRelay, TypeOK
<1>6. reported' \in Reports
  BY <1>3, <1>4 DEF PublishEvents, Publish, TypeOK, SensorResults, Reports
<1> QED BY <1>2, <1>3, <1>4, <1>5, <1>6

\* Boot leaves every variable with its type.
LEMMA InitTypeOK == Init => TypeOK
<1> SUFFICES ASSUME Init PROVE TypeOK
  OBVIOUS
<1>1. s_state \in CtlState /\ r \in SensorResults /\ reported \in Reports
  BY InitType, NoResultTypes DEF Init
<1>2. reading \in [valid : BOOLEAN, temp : Int]
  BY NoResultTypes DEF Init
<1> QED BY <1>1, <1>2 DEF Init, TypeOK, Pcs, Reports

\* So does a reset at any point.
LEMMA RebootTypeOK ==
  ASSUME NEW c \in SettingsValues, Reboot(c)
  PROVE  TypeOK'
BY InitType, NoResultTypes DEF Reboot, TypeOK, Pcs, Reports

\* And every step of the task, of a request or of the clock.
LEMMA NextTypeOK == TypeOK /\ [Next]_vars => TypeOK'
<1> SUFFICES ASSUME TypeOK, [Next]_vars PROVE TypeOK'
  OBVIOUS
<1> USE DEF TypeOK, Pcs
<1>1. CASE BeginPass
  <2>1. NextRead(read') \in Nat
    BY ControlAssumption DEF NextRead
  <2>2. read' \in BOOLEAN
    BY <1>1 DEF BeginPass
  <2>3. pc' \in {"reading", "locking"} /\ s_lock' = "free"
    BY <1>1 DEF BeginPass
  <2>4. next_read_s' \in Nat /\ now_s' \in Nat /\ due' \in Nat
    BY <1>1, <2>1 DEF BeginPass
  <2> QED BY <1>1, <2>2, <2>3, <2>4 DEF BeginPass
<1>2. ASSUME NEW rd \in Readings, ReadSensor(rd) PROVE TypeOK'
  <2>1. rd \in [valid : BOOLEAN, temp : Int]
    BY NoResultTypes, ControlAssumption DEF Readings
  <2> QED BY <1>2, <2>1 DEF ReadSensor
<1>3. CASE TakeReading
  <2>1. s_settings \in CtlConfig
    BY SettingsAreConfig
  <2>2. s_state' \in CtlState
    BY <1>3, <2>1, SensorType DEF TakeReading
  <2>3. r' \in SensorResults
    BY <1>3, <2>2 DEF TakeReading, SensorResult, SensorResults, CtlState
  <2> QED BY <1>3, <2>2, <2>3 DEF TakeReading
<1>4. CASE Decide
  <2>1. s_state' \in CtlState /\ relay' \in BOOLEAN /\ lastOff' \in Nat /\ reported' \in Reports
    BY <1>4, DecideLockedEffect DEF Decide
  <2> QED BY <1>4, <2>1, NoResultTypes DEF Decide, Reports
<1>5. CASE EndPass
  <2>1. reading' \in [valid : BOOLEAN, temp : Int] /\ read' \in BOOLEAN
    BY <1>5, NoResultTypes DEF EndPass
  <2>2. wdt' \in Nat /\ due' \in Nat
    BY <1>5 DEF EndPass
  <2> QED BY <1>5, <2>1, <2>2 DEF EndPass
<1>6. ASSUME NEW m \in Manual, NEW d \in Durations, pump_command(m, d) PROVE TypeOK'
  <2> DEFINE asked == RequestedDuration(m, d)
  <2>1. /\ ctl_manual(s_state, m, ClampDuration(asked), clock) \in CtlState
        /\ control_manual(m, asked)
    BY <1>6, ManualType, ClampType DEF pump_command
  <2>2. s_state' \in CtlState /\ relay' \in BOOLEAN /\ lastOff' \in Nat /\ reported' \in Reports
    BY <2>1, NoResultTypes, DecideLockedEffect DEF control_manual
  <2> QED BY <2>1, <2>2 DEF control_manual, taskVars, Reports
<1>7. ASSUME NEW c \in SettingsValues, settings_set(c) PROVE TypeOK'
  BY <1>7 DEF settings_set, taskVars
<1>8. CASE NotifyTask
  BY <1>8 DEF NotifyTask, taskVars
<1>9. CASE Tick
  BY <1>9 DEF Tick, taskVars
<1>10. CASE Hang
  BY <1>10 DEF Hang
<1>11. CASE WatchdogReset \/ PowerCycle
  BY <1>11, RebootTypeOK DEF WatchdogReset, PowerCycle
<1>12. CASE UNCHANGED vars
  BY <1>12 DEF vars, taskVars
<1> QED
  BY <1>1, <1>2, <1>3, <1>4, <1>5, <1>6, <1>7, <1>8, <1>9, <1>10, <1>11, <1>12
     DEF Next, ControlTask, HttpTask

\* Every variable keeps its type and the lock is held exactly while the task decides.
THEOREM ControlTypes == Spec => []TypeOK
BY InitTypeOK, NextTypeOK, PTL DEF Spec

-----------------------------------------------------------------------------
(***************************************************************************)
(* The decisions                                                           *)
(***************************************************************************)

\* The fail-safe is on exactly when enough reads in a row were bad.
FailSafeExact == s_state.sensor_failed <=> s_state.failures >= SENSOR_FAIL_READS

\* The memory of the hysteresis agrees with a last reading that all the thresholds
\* agree about.
HysteresisExact ==
  s_state.have_temp =>
    /\ (\A c \in SettingsValues : s_state.temp_x10 > c.start_x10) => s_state.hot
    /\ (\A c \in SettingsValues : s_state.temp_x10 < c.stop_x10)
         => ~s_state.hot /\ ~s_state.overheat

\* The log is complete, but for what r still holds while the task decides, and has said
\* nothing twice.
LogComplete ==
  reported = [ pump     |-> s_state.on,
               overheat |-> IF pc = "deciding" /\ (r.overheat_started \/ r.overheat_ended)
                            THEN ~s_state.overheat ELSE s_state.overheat,
               sensor   |-> IF pc = "deciding" /\ (r.sensor_failed \/ r.sensor_recovered)
                            THEN ~s_state.sensor_failed ELSE s_state.sensor_failed,
               repeated |-> FALSE ]

ResultExact ==
  pc = "deciding" =>
    /\ r.overheat_started \/ r.overheat_ended => r.overheat_started = s_state.overheat
    /\ r.sensor_failed \/ r.sensor_recovered  => r.sensor_failed = s_state.sensor_failed

IInv ==
  /\ DecisionIsCurrent
  /\ s_lock = "free" /\ s_state.overheat => s_state.manual # "stop"
  /\ StoppedByHandIsOff
  /\ FailSafeExact
  /\ HysteresisExact
  /\ LogComplete
  /\ ResultExact

\* After boot the pump is off for want of heat, and no bad read is counted.
LEMMA InitFacts ==
  LET s == ctl_init(0)
  IN /\ ~s.on /\ s.on = FALSE /\ s.reason = "auto_cold" /\ ~s.have_temp
     /\ s.manual = "none" /\ s.overheat = FALSE /\ s.sensor_failed = FALSE
     /\ s.hot = FALSE /\ s.maintenance = FALSE
     /\ s.failures = 0 /\ ~(s.failures >= SENSOR_FAIL_READS)
BY LogicAssumption DEF ctl_init

\* The invariant holds after boot.
LEMMA InitIInv == Init => IInv
<1> SUFFICES ASSUME Init PROVE IInv
  OBVIOUS
<1>1. s_state = ctl_init(0) /\ pc = "sleep" /\ relay = FALSE /\ reported = NothingReported
  BY DEF Init
<1>2. DecisionIsCurrent
  <2>1. ReasonFor(FALSE, "none", FALSE, FALSE, FALSE) = "auto_cold"
    BY DEF ReasonFor
  <2>2. ("auto_cold" \in OnReason) = FALSE
    BY DEF OnReason
  <2> QED BY <1>1, <2>1, <2>2, InitFacts DEF DecisionIsCurrent
<1>3. FailSafeExact /\ HysteresisExact /\ ResultExact /\ StoppedByHandIsOff
  BY <1>1, InitFacts DEF FailSafeExact, HysteresisExact, ResultExact, StoppedByHandIsOff
<1>4. LogComplete
  BY <1>1, InitFacts DEF LogComplete, NothingReported
<1> QED BY <1>1, <1>2, <1>3, <1>4, InitFacts DEF IInv

\* A restart puts the state back to the initial one.
LEMMA RebootIInv ==
  ASSUME NEW c \in SettingsValues, Reboot(c)
  PROVE  IInv'
<1>1. s_state' = ctl_init(0) /\ pc' = "sleep" /\ relay' = FALSE /\ reported' = NothingReported
  BY DEF Reboot
<1>2. DecisionIsCurrent'
  <2>1. ReasonFor(FALSE, "none", FALSE, FALSE, FALSE) = "auto_cold"
    BY DEF ReasonFor
  <2>2. ("auto_cold" \in OnReason) = FALSE
    BY DEF OnReason
  <2> QED BY <1>1, <2>1, <2>2, InitFacts DEF DecisionIsCurrent
<1>3. FailSafeExact' /\ HysteresisExact' /\ ResultExact' /\ StoppedByHandIsOff'
  BY <1>1, InitFacts DEF FailSafeExact, HysteresisExact, ResultExact, StoppedByHandIsOff
<1>4. LogComplete'
  BY <1>1, InitFacts DEF LogComplete, NothingReported
<1> QED BY <1>1, <1>2, <1>3, <1>4, InitFacts DEF IInv

\* The locked section restores the invariant from any state that has its part about
\* the readings, whoever enters it and whatever the manual command is.
LEMMA DecideLockedIInv ==
  ASSUME TypeOK, IInv, NEW before \in CtlState, NEW now \in Int, NEW sensor \in SensorResults,
         before.overheat = s_state.overheat, before.sensor_failed = s_state.sensor_failed,
         before.hot = s_state.hot, before.failures = s_state.failures,
         before.have_temp = s_state.have_temp, before.temp_x10 = s_state.temp_x10,
         sensor = IF pc = "deciding" THEN r ELSE NoSensorResult,
         NEW caller, caller = "control" \/ relay = before.on,
         decide_locked(before, now, sensor, caller), pc' # "deciding"
  PROVE  IInv'
<1>1. /\ s_state'.reason = ReasonFor(s_state'.overheat, s_state'.manual,
                                s_state'.sensor_failed, s_state'.hot, s_state'.maintenance)
      /\ s_state'.on = (s_state'.reason \in OnReason)
      /\ s_state'.overheat = s_state.overheat
      /\ s_state'.sensor_failed = s_state.sensor_failed
      /\ s_state'.hot = s_state.hot /\ s_state'.failures = s_state.failures
      /\ s_state'.have_temp = s_state.have_temp /\ s_state'.temp_x10 = s_state.temp_x10
      /\ s_state'.overheat => s_state'.manual # "stop"
      /\ relay' = s_state'.on
      /\ s_state' \in CtlState
  BY DecideLockedEffect
<1>2. DecisionIsCurrent'
  BY <1>1 DEF DecisionIsCurrent
<1>3. StoppedByHandIsOff'
  BY <1>1 DEF StoppedByHandIsOff, ReasonFor, OnReason
<1>4. FailSafeExact' /\ HysteresisExact'
  BY <1>1 DEF IInv, FailSafeExact, HysteresisExact
<1>5. LogComplete'
  <2> DEFINE pumpEvent     == s_state'.on # s_state.on
             overheatEvent == sensor.overheat_started \/ sensor.overheat_ended
             sensorEvent   == sensor.sensor_failed \/ sensor.sensor_recovered
             again         == \/ reported.repeated
                              \/ pumpEvent /\ s_state'.on = reported.pump
                              \/ overheatEvent /\ sensor.overheat_started = reported.overheat
                              \/ sensorEvent /\ sensor.sensor_failed = reported.sensor
  <2>1. reported' =
          [ pump     |-> IF pumpEvent THEN s_state'.on ELSE reported.pump,
            overheat |-> IF overheatEvent THEN sensor.overheat_started ELSE reported.overheat,
            sensor   |-> IF sensorEvent THEN sensor.sensor_failed ELSE reported.sensor,
            repeated |-> again ]
    BY DecideLockedEffect DEF PublishEvents, Publish
  <2>2. (IF s_state'.on # s_state.on THEN s_state'.on ELSE reported.pump) = s_state'.on
    BY DEF IInv, LogComplete
  <2>3. (IF sensor.overheat_started \/ sensor.overheat_ended
         THEN sensor.overheat_started ELSE reported.overheat) = s_state.overheat
    BY DEF IInv, LogComplete, ResultExact, NoSensorResult
  <2>4. (IF sensor.sensor_failed \/ sensor.sensor_recovered
         THEN sensor.sensor_failed ELSE reported.sensor) = s_state.sensor_failed
    BY DEF IInv, LogComplete, ResultExact, NoSensorResult
  <2>r. again = FALSE
    <3>1. reported.repeated = FALSE /\ reported.pump = s_state.on
      BY DEF IInv, LogComplete
    <3>2. /\ s_state.overheat \in BOOLEAN /\ s_state.sensor_failed \in BOOLEAN
          /\ s_state.on \in BOOLEAN /\ s_state'.on \in BOOLEAN
      BY <1>1 DEF TypeOK, CtlState
    <3>3. overheatEvent => /\ sensor.overheat_started = s_state.overheat
                           /\ reported.overheat = ~s_state.overheat
      BY DEF IInv, LogComplete, ResultExact, NoSensorResult
    <3>4. sensorEvent => /\ sensor.sensor_failed = s_state.sensor_failed
                         /\ reported.sensor = ~s_state.sensor_failed
      BY DEF IInv, LogComplete, ResultExact, NoSensorResult
    <3> HIDE DEF pumpEvent, overheatEvent, sensorEvent
    <3> QED BY <3>1, <3>2, <3>3, <3>4 DEF pumpEvent
  <2>5. reported' = [ pump |-> s_state'.on, overheat |-> s_state'.overheat,
                      sensor |-> s_state'.sensor_failed, repeated |-> FALSE ]
    BY <1>1, <2>1, <2>2, <2>3, <2>4, <2>r
  <2> QED BY <2>5 DEF LogComplete
<1>6. ResultExact'
  BY DEF ResultExact
<1> QED BY <1>1, <1>2, <1>3, <1>4, <1>5, <1>6 DEF IInv

\* A reading leaves the decision, the command and the relay alone, keeps the fail-safe
\* in step with the count, the hysteresis in step with the reading, and hands every
\* change to the decision in r.
LEMMA TakeReadingIInv ==
  ASSUME TypeOK, IInv, TakeReading
  PROVE  IInv'
<1>1. /\ s_state \in CtlState /\ reading.valid \in BOOLEAN /\ reading.temp \in Int
      /\ now_s \in Int /\ s_settings \in SettingsValues /\ s_lock' = "control"
      /\ pc = "locking" /\ pc' = "deciding" /\ UNCHANGED <<relay, reported>>
      /\ r' = SensorResult(s_state, s_state')
  BY DEF TypeOK, TakeReading
<1>2. s_state' \in CtlState
  BY NextTypeOK DEF Next, ControlTask, TypeOK
<1>r. ASSUME read
      PROVE  /\ s_state'.on = s_state.on /\ s_state'.manual = s_state.manual
             /\ s_state'.sensor_failed <=> s_state'.failures >= SENSOR_FAIL_READS
             /\ reading.valid =>
                  /\ s_state'.temp_x10 = reading.temp
                  /\ s_state'.hot = HotAfter(s_state, s_settings, reading.temp)
                  /\ s_state'.overheat = OverheatAfter(s_state, s_settings, reading.temp)
             /\ ~reading.valid =>
                  /\ s_state'.have_temp = s_state.have_temp
                  /\ s_state'.temp_x10 = s_state.temp_x10
                  /\ s_state'.hot = s_state.hot /\ s_state'.overheat = s_state.overheat
  <2>1. CASE reading.valid
    <3>1. s_state' = ctl_sensor(s_state, s_settings, now_s, TRUE, reading.temp)
      BY <1>1, <1>r, <2>1 DEF TakeReading
    <3>2. ~(0 >= SENSOR_FAIL_READS)
      BY LogicAssumption
    <3> DEFINE t == ctl_sensor(s_state, s_settings, now_s, TRUE, reading.temp)
    <3>3. /\ t.on = s_state.on /\ t.manual = s_state.manual
          /\ t.sensor_failed = FALSE /\ t.failures = 0 /\ t.temp_x10 = reading.temp
          /\ t.hot = HotAfter(s_state, s_settings, reading.temp)
          /\ t.overheat = OverheatAfter(s_state, s_settings, reading.temp)
      BY <1>1 DEF ctl_sensor, CtlState
    <3> HIDE DEF t
    <3>4. s_state' = t
      BY <3>1 DEF t
    <3> QED BY <2>1, <3>2, <3>3, <3>4
  <2>2. CASE ~reading.valid
    <3>1. s_state' = ctl_sensor(s_state, s_settings, now_s, FALSE, reading.temp)
      BY <1>1, <1>r, <2>2 DEF TakeReading
    <3>2. s_state.failures >= SENSOR_FAIL_READS => FailuresCounted(s_state) >= SENSOR_FAIL_READS
      BY <1>1, LogicAssumption DEF FailuresCounted, CtlState
    <3>3. s_state.sensor_failed <=> s_state.failures >= SENSOR_FAIL_READS
      BY DEF IInv, FailSafeExact
    <3>4. (s_state.sensor_failed \/ FailSafeReached(s_state))
             <=> FailuresCounted(s_state) >= SENSOR_FAIL_READS
      BY <3>2, <3>3 DEF FailSafeReached
    <3> DEFINE t == ctl_sensor(s_state, s_settings, now_s, FALSE, reading.temp)
    <3>5. /\ t.on = s_state.on /\ t.manual = s_state.manual
          /\ t.failures = FailuresCounted(s_state)
          /\ t.sensor_failed = (s_state.sensor_failed \/ FailSafeReached(s_state))
          /\ t.have_temp = s_state.have_temp /\ t.temp_x10 = s_state.temp_x10
          /\ t.hot = s_state.hot /\ t.overheat = s_state.overheat
      BY <1>1 DEF ctl_sensor, CtlState
    <3> HIDE DEF t
    <3>6. s_state' = t
      BY <3>1 DEF t
    <3> QED BY <2>2, <3>4, <3>5, <3>6
  <2> QED BY <2>1, <2>2
<1>3. /\ s_state'.on = s_state.on /\ s_state'.manual = s_state.manual
      /\ FailSafeExact'
  <2>1. CASE read
    BY <1>r, <2>1 DEF FailSafeExact
  <2>2. CASE ~read
    BY <2>2 DEF TakeReading, IInv, FailSafeExact
  <2> QED BY <2>1, <2>2
<1>4. HysteresisExact'
  <2>1. CASE read /\ reading.valid
    <3>1. /\ s_state'.temp_x10 = reading.temp
          /\ s_state'.hot = HotAfter(s_state, s_settings, reading.temp)
          /\ s_state'.overheat = OverheatAfter(s_state, s_settings, reading.temp)
      BY <1>r, <2>1
    <3>2. reading.temp > s_settings.start_x10 => HotAfter(s_state, s_settings, reading.temp)
      BY DEF HotAfter
    <3>3. reading.temp < s_settings.stop_x10 =>
            ~HotAfter(s_state, s_settings, reading.temp)
              /\ ~OverheatAfter(s_state, s_settings, reading.temp)
      BY <1>1, SettingsAreConfig, LogicAssumption DEF HotAfter, OverheatAfter
    <3> QED BY <1>1, <3>1, <3>2, <3>3 DEF HysteresisExact
  <2>2. CASE read /\ ~reading.valid
    <3>1. /\ s_state'.have_temp = s_state.have_temp /\ s_state'.temp_x10 = s_state.temp_x10
          /\ s_state'.hot = s_state.hot /\ s_state'.overheat = s_state.overheat
      BY <1>r, <2>2
    <3> QED BY <3>1 DEF IInv, HysteresisExact
  <2>3. CASE ~read
    BY <2>3 DEF TakeReading, IInv, HysteresisExact
  <2> QED BY <2>1, <2>2, <2>3
<1>5. LogComplete' /\ ResultExact'
  <2>1. /\ r'.overheat_started = (~s_state.overheat /\ s_state'.overheat)
        /\ r'.overheat_ended = (s_state.overheat /\ ~s_state'.overheat)
        /\ r'.sensor_failed = (~s_state.sensor_failed /\ s_state'.sensor_failed)
        /\ r'.sensor_recovered = (s_state.sensor_failed /\ ~s_state'.sensor_failed)
    BY <1>1 DEF SensorResult
  <2>2. /\ s_state.overheat \in BOOLEAN /\ s_state'.overheat \in BOOLEAN
        /\ s_state.sensor_failed \in BOOLEAN /\ s_state'.sensor_failed \in BOOLEAN
    BY <1>1, <1>2 DEF CtlState
  <2>3. reported = [ pump |-> s_state.on, overheat |-> s_state.overheat,
                     sensor |-> s_state.sensor_failed, repeated |-> FALSE ]
    BY <1>1 DEF IInv, LogComplete
  <2>4. (IF r'.overheat_started \/ r'.overheat_ended
         THEN ~s_state'.overheat ELSE s_state'.overheat) = s_state.overheat
    BY <2>1, <2>2
  <2>5. (IF r'.sensor_failed \/ r'.sensor_recovered
         THEN ~s_state'.sensor_failed ELSE s_state'.sensor_failed) = s_state.sensor_failed
    BY <2>1, <2>2
  <2>6. LogComplete'
    BY <1>1, <1>3, <2>3, <2>4, <2>5 DEF LogComplete
  <2>7. ResultExact'
    BY <2>1, <2>2 DEF ResultExact
  <2> QED BY <2>6, <2>7
<1> QED
  BY <1>1, <1>3, <1>4, <1>5 DEF IInv, DecisionIsCurrent, StoppedByHandIsOff

\* Every step of the task, of a request or of the clock preserves the invariant.
LEMMA NextIInv == TypeOK /\ IInv /\ [Next]_vars => IInv'
<1> SUFFICES ASSUME TypeOK, IInv, [Next]_vars PROVE IInv'
  OBVIOUS
<1> DEFINE Parts == <<s_state, relay, reported>>
<1>a. \* A step that leaves the decision, the relay and the log alone, outside the lock.
      ASSUME UNCHANGED Parts, pc # "deciding", pc' # "deciding", s_lock' = s_lock
      PROVE  IInv'
  BY <1>a DEF IInv, DecisionIsCurrent, StoppedByHandIsOff, FailSafeExact,
              HysteresisExact, LogComplete, ResultExact
<1>1. CASE BeginPass
  BY <1>1, <1>a DEF BeginPass
<1>2. ASSUME NEW rd \in Readings, ReadSensor(rd) PROVE IInv'
  BY <1>2, <1>a DEF ReadSensor
<1>3. CASE TakeReading
  BY <1>3, TakeReadingIInv
<1>4. CASE Decide
  <2>1. /\ s_state \in CtlState /\ now_s \in Int /\ r \in SensorResults
        /\ pc = "deciding" /\ pc' = "finishing"
        /\ decide_locked(s_state, now_s, r, "control")
    BY <1>4 DEF Decide, TypeOK
  <2> QED BY <2>1, DecideLockedIInv
<1>5. CASE EndPass
  BY <1>5, <1>a DEF EndPass
<1>6. ASSUME NEW m \in Manual, NEW d \in Durations, pump_command(m, d) PROVE IInv'
  <2> DEFINE before == ctl_manual(s_state, m, ClampDuration(RequestedDuration(m, d)), clock)
  <2>1. s_state \in CtlState /\ clock \in Int /\ pc # "deciding" /\ pc' = pc
    BY <1>6 DEF pump_command, control_manual, TypeOK, taskVars
  <2>2. before \in CtlState
    BY <2>1, ManualType, ClampType
  <2>3. /\ before.overheat = s_state.overheat /\ before.sensor_failed = s_state.sensor_failed
        /\ before.hot = s_state.hot /\ before.failures = s_state.failures
        /\ before.have_temp = s_state.have_temp /\ before.temp_x10 = s_state.temp_x10
    BY <2>1 DEF ctl_manual, CtlState
  <2>4. decide_locked(before, clock, NoSensorResult, "http")
    BY <1>6 DEF pump_command, control_manual
  <2>5. relay = before.on
    BY <1>6, <2>1 DEF pump_command, control_manual, ctl_manual, CtlState, IInv, DecisionIsCurrent
  <2> HIDE DEF before
  <2> QED BY <2>1, <2>2, <2>3, <2>4, <2>5, NoResultTypes, DecideLockedIInv
<1>7. ASSUME NEW c \in SettingsValues, settings_set(c) PROVE IInv'
  <2>1. UNCHANGED <<s_state, relay, reported, pc, r, s_lock>>
    BY <1>7 DEF settings_set, taskVars
  <2> QED BY <2>1 DEF IInv, DecisionIsCurrent, StoppedByHandIsOff, FailSafeExact,
                      HysteresisExact, LogComplete, ResultExact
<1>8. CASE NotifyTask \/ Tick \/ Hang
  <2>1. UNCHANGED <<s_state, relay, reported, r, s_lock>> /\ (pc' = pc \/ pc' = "hung")
    BY <1>8 DEF NotifyTask, Tick, Hang, taskVars
  <2>2. pc' = "deciding" <=> pc = "deciding"
    BY <1>8, <2>1 DEF NotifyTask, Tick, Hang, taskVars
  <2> QED BY <2>1, <2>2 DEF IInv, DecisionIsCurrent, StoppedByHandIsOff, FailSafeExact,
                            HysteresisExact, LogComplete, ResultExact
<1>9. CASE WatchdogReset \/ PowerCycle
  BY <1>9, RebootIInv DEF WatchdogReset, PowerCycle
<1>10. CASE UNCHANGED vars
  <2>1. UNCHANGED <<s_state, relay, reported, pc, r, s_lock>>
    BY <1>10 DEF vars, taskVars
  <2> QED BY <2>1 DEF IInv, DecisionIsCurrent, StoppedByHandIsOff, FailSafeExact,
                      HysteresisExact, LogComplete, ResultExact
<1> QED
  BY <1>1, <1>2, <1>3, <1>4, <1>5, <1>6, <1>7, <1>8, <1>9, <1>10
     DEF Next, ControlTask, HttpTask

\* The inductive invariant holds in every state: no interleaving of passes, commands,
\* threshold changes and resets breaks a part of it.
THEOREM ControlInvariant == Spec => [](TypeOK /\ IInv)
BY InitTypeOK, NextTypeOK, InitIInv, NextIInv, PTL DEF Spec

-----------------------------------------------------------------------------
(***************************************************************************)
(* What follows from it                                                    *)
(***************************************************************************)

\* Nobody leaves the lock with a stale decision.
THEOREM DecisionsAreCurrent == Spec => []DecisionIsCurrent
<1>1. IInv => DecisionIsCurrent
  BY DEF IInv
<1> QED BY <1>1, ControlInvariant, PTL

\* While the water is too hot the relay is on and no manual stop is pending.
THEOREM OverheatWins == Spec => []OverheatForcesPump
<1>1. IInv => OverheatForcesPump
  <2> SUFFICES ASSUME IInv, s_lock = "free", s_state.overheat
               PROVE  relay /\ s_state.manual # "stop"
    BY DEF OverheatForcesPump
  <2>1. s_state.reason = "overheat"
    BY DEF IInv, DecisionIsCurrent, ReasonFor
  <2>2. relay = (s_state.reason \in OnReason)
    BY DEF IInv, DecisionIsCurrent
  <2> QED BY <2>1, <2>2 DEF OnReason, IInv
<1> QED BY <1>1, ControlInvariant, PTL

\* A manual stop never coexists with a running pump.
THEOREM StopMeansOff == Spec => []StoppedByHandIsOff
<1>1. IInv => StoppedByHandIsOff
  BY DEF IInv
<1> QED BY <1>1, ControlInvariant, PTL

\* Enough bad reads in a row and the pump runs, unless it was stopped by hand.
THEOREM FailSafeRunsPump == Spec => []DeadSensorRunsPump
<1>1. IInv => DeadSensorRunsPump
  <2> SUFFICES ASSUME IInv, s_lock = "free", s_state.failures >= SENSOR_FAIL_READS,
                      s_state.manual # "stop"
               PROVE  relay
    BY DEF DeadSensorRunsPump
  <2>1. s_state.sensor_failed
    BY DEF IInv, FailSafeExact
  <2>2. s_state.reason \in {"overheat", "manual_on", "sensor_fail"}
    BY <2>1 DEF IInv, DecisionIsCurrent, ReasonFor
  <2>3. relay = (s_state.reason \in OnReason)
    BY DEF IInv, DecisionIsCurrent
  <2> QED BY <2>2, <2>3 DEF OnReason
<1> QED BY <1>1, ControlInvariant, PTL

\* Water above every start threshold in use never stands still, unless stopped by hand.
THEOREM HotWaterIsPumped == Spec => []HotWaterNeverStands
<1>1. IInv => HotWaterNeverStands
  BY DEF IInv, DecisionIsCurrent, HysteresisExact, HotWaterNeverStands, ReasonFor, OnReason
<1> QED BY <1>1, ControlInvariant, PTL

\* Water below every stop threshold in use is pumped only by hand, by the fail-safe or
\* by the maintenance run.
THEOREM ColdWaterStands == Spec => []ColdWaterNotPumped
<1>1. TypeOK /\ IInv => ColdWaterNotPumped
  <2> SUFFICES ASSUME TypeOK, IInv, s_lock = "free", s_state.have_temp,
                      ~s_state.sensor_failed,
                      \A c \in SettingsValues : s_state.temp_x10 < c.stop_x10,
                      s_state.manual # "start", ~s_state.maintenance
               PROVE  ~relay
    BY DEF ColdWaterNotPumped
  <2>1. ~s_state.hot /\ ~s_state.overheat
    BY DEF IInv, HysteresisExact
  <2>2. s_state.reason \in {"manual_off", "auto_cold"}
    BY <2>1 DEF IInv, DecisionIsCurrent, ReasonFor
  <2> QED BY <2>2 DEF IInv, DecisionIsCurrent, OnReason
<1> QED BY <1>1, ControlInvariant, PTL

\* The event log tells the pump, the overheat and the sensor state, exactly, and no event
\* repeats the one before it of its kind.
THEOREM LogIsComplete == Spec => []LogMatchesState
<1>1. TypeOK /\ IInv => LogMatchesState
  BY DEF TypeOK, IInv, LogComplete, LogMatchesState
<1> QED BY <1>1, ControlInvariant, PTL
=============================================================================
