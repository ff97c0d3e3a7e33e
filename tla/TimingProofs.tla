---------------------------- MODULE TimingProofs ----------------------------
(***************************************************************************)
(* Theorems about the times of module Control, for every read period,      *)
(* watchdog timeout, duration of a command and sensor: what ends or is     *)
(* noticed, is so in time.  The clock passes no "due" of the task, so      *)
(* each bound follows the due second through the pass.  Then the counters  *)
(* of module ControlRuntime: the local day and the run time.  Last, that   *)
(* the two tasks implement module Pump.                                    *)
(***************************************************************************)
EXTENDS ControlProofs, ControlRuntime

D == CONTROL_READ_PERIOD_S + 2

\* While no bad read is missing to the fail-safe: when the next read is due at the latest.
Late == s_state.temp_s + s_state.failures * D + CONTROL_READ_PERIOD_S

\* A read is due or under way, and not counted yet.
Pending == pc = "reading" \/ (pc = "locking" /\ read)

Pass == {"locking", "deciding", "finishing"}

\* The task against the clock, the watchdog and its own heartbeat.
PassBounds ==
  /\ wdt <= clock /\ clock <= wdt + TASK_WDT_TIMEOUT_S
  /\ s_heartbeat_s <= clock /\ wdt <= s_heartbeat_s + 1
  /\ pc # "hung" => clock <= due
  /\ pc = "sleep" => due <= clock + 2 /\ due <= wdt + 2
  /\ pc = "reading" => due <= clock + 1 /\ due <= wdt + 3
  /\ pc \in Pass => due <= wdt + 4
  /\ pc \in {"locking", "deciding"} => wdt <= now_s /\ now_s <= clock /\ due <= now_s + 1
  /\ pc = "finishing" => due <= s_heartbeat_s + 1

\* The task against the end of the override.
OverrideBounds ==
  s_state.manual # "none" =>
    /\ pc = "sleep" => due <= s_state.manual_until_s + 2
    /\ pc = "reading" => due <= s_state.manual_until_s + 3
    /\ pc \in {"locking", "deciding"} => due <= s_state.manual_until_s + 4
    /\ pc = "finishing" => due <= s_state.manual_until_s

\* The task against the next read.
ReadBounds ==
  /\ pc = "reading" => read
  /\ pc = "sleep" => due <= next_read_s + 2
  /\ pc = "reading" => due + 1 <= next_read_s /\ next_read_s <= clock + CONTROL_READ_PERIOD_S
  /\ pc \in Pass => due <= next_read_s
  /\ pc = "locking" /\ read => next_read_s <= now_s + CONTROL_READ_PERIOD_S

\* The next read against the last good one.
LateBounds ==
  s_state.failures < SENSOR_FAIL_READS /\ pc # "hung" =>
    /\ ~Pending => next_read_s <= Late
    /\ Pending => next_read_s <= Late + D
    /\ pc = "reading" => due <= Late + 3
    /\ pc = "locking" /\ read => due <= Late + 4

\* A dead sensor is noticed by the end of what the task is doing.
NoticedByDue ==
  pc # "hung" /\ s_state.manual # "stop" => relay \/ due <= s_state.temp_s + SensorDeadline

TInv ==
  /\ PassBounds
  /\ OverrideBounds
  /\ ReadBounds
  /\ LateBounds
  /\ pc = "deciding" => NoticedByDue

-----------------------------------------------------------------------------
(***************************************************************************)
(* Lemmas                                                                  *)
(***************************************************************************)

\* The numbers of a state.
LEMMA Numbers ==
  ASSUME TypeOK
  PROVE  /\ clock \in Nat /\ due \in Nat /\ wdt \in Nat /\ now_s \in Nat
         /\ s_heartbeat_s \in Nat /\ next_read_s \in Nat
         /\ s_state.manual_until_s \in Int /\ s_state.temp_s \in Int
         /\ s_state.failures \in Nat /\ pc \in Pcs
         /\ CONTROL_READ_PERIOD_S \in Nat /\ CONTROL_READ_PERIOD_S >= 2 /\ D \in Nat
         /\ TASK_WDT_TIMEOUT_S \in Nat /\ SENSOR_FAIL_READS \in Nat \ {0}
BY ControlAssumption, WatchdogAssumption, LogicAssumption DEF TypeOK, CtlState, D

\* What the deadline of the fail-safe needs of a product.
LEMMA Multiples ==
  ASSUME NEW f \in Nat, NEW n \in Nat, NEW d \in Nat
  PROVE  /\ f * d \in Nat /\ (f + 1) * d = f * d + d /\ 0 * d = 0
         /\ f < n => f * d + d <= n * d
<1>1. f * d \in Nat /\ (f + 1) * d = f * d + d /\ 0 * d = 0
  OBVIOUS
<1>2. ASSUME f < n PROVE f * d + d <= n * d
  <2>1. PICK k \in Nat : n = f + 1 + k
    <3>1. n - f - 1 \in Nat /\ n = f + 1 + (n - f - 1)
      BY <1>2
    <3> QED BY <3>1
  <2>2. n * d = f * d + d + k * d /\ k * d \in Nat /\ n * d \in Nat
    BY <2>1
  <2> QED BY <1>1, <2>2
<1> QED BY <1>1, <1>2

\* The locked section leaves the times of the readings and of the command alone.
LEMMA DecideLockedTimes ==
  ASSUME TypeOK, NEW before \in CtlState, NEW now \in Int, NEW sensor, NEW caller,
         decide_locked(before, now, sensor, caller)
  PROVE  /\ s_state'.temp_s = before.temp_s /\ s_state'.failures = before.failures
         /\ s_state'.manual_until_s = before.manual_until_s
         /\ s_state'.manual # "none" => now < s_state'.manual_until_s
<1>1. s_settings \in CtlConfig /\ s_state' = ctl_decide(before, s_settings, now)
  BY SettingsAreConfig DEF TypeOK, decide_locked
<1> QED BY <1>1, DecideKeepsTimes

\* Outside the lock this follows from the bounds and the decision.
LEMMA NoticedOutsideLock ==
  ASSUME TypeOK, IInv, PassBounds, ReadBounds, LateBounds, pc # "deciding"
  PROVE  NoticedByDue
<1> SUFFICES ASSUME pc # "hung", ~(due <= s_state.temp_s + SensorDeadline),
                    s_state.manual # "stop"
             PROVE  relay
  BY DEF NoticedByDue
<1>1. s_state.failures >= SENSOR_FAIL_READS
  <2> SUFFICES ASSUME s_state.failures < SENSOR_FAIL_READS PROVE FALSE
    BY Numbers
  <2>1. s_state.failures * D + D <= SENSOR_FAIL_READS * D
        /\ s_state.failures * D \in Nat /\ SENSOR_FAIL_READS * D \in Nat
    BY Numbers, Multiples
  <2>2. /\ Late = s_state.temp_s + s_state.failures * D + CONTROL_READ_PERIOD_S
        /\ Late \in Int /\ D = CONTROL_READ_PERIOD_S + 2
        /\ SensorDeadline = SENSOR_FAIL_READS * D + 2
    BY <2>1, Numbers DEF Late, SensorDeadline, D
  <2>3. due <= Late + 4
    BY <2>2, Numbers DEF PassBounds, ReadBounds, LateBounds, Pending, Pass, Pcs
  <2> HIDE DEF D
  <2> QED BY <2>1, <2>2, <2>3, Numbers
<1>2. s_state.sensor_failed /\ s_lock = "free"
  BY <1>1 DEF IInv, FailSafeExact, TypeOK
<1>3. s_state.reason \in {"overheat", "manual_on", "sensor_fail"}
  BY <1>2 DEF IInv, DecisionIsCurrent, ReasonFor
<1>4. relay = (s_state.reason \in OnReason)
  BY <1>2 DEF IInv, DecisionIsCurrent
<1> QED BY <1>3, <1>4 DEF OnReason

-----------------------------------------------------------------------------
(***************************************************************************)
(* The invariant                                                           *)
(***************************************************************************)

\* The times a boot starts with.
LEMMA BootTimes ==
  LET s == ctl_init(0) IN s.temp_s = 0 /\ s.failures = 0 /\ s.manual = "none"
BY DEF ctl_init

\* The bounds hold after boot.
LEMMA InitTInv == Init => TInv
<1> SUFFICES ASSUME Init PROVE TInv
  OBVIOUS
<1>1. /\ clock = 0 /\ wdt = 0 /\ s_heartbeat_s = 0 /\ due = 1 /\ next_read_s = 0
      /\ pc = "sleep" /\ s_state.temp_s = 0 /\ s_state.failures = 0
      /\ s_state.manual = "none"
  BY BootTimes DEF Init
<1>2. PassBounds /\ OverrideBounds /\ ReadBounds
  BY <1>1, ControlAssumption DEF PassBounds, OverrideBounds, ReadBounds, Pass
<1>3. Late = CONTROL_READ_PERIOD_S
  BY <1>1, Multiples, ControlAssumption DEF Late, D
<1>4. LateBounds
  BY <1>1, <1>3, ControlAssumption DEF LateBounds, Pending
<1> QED BY <1>1, <1>2, <1>4 DEF TInv

\* And after any other.
LEMMA RebootTInv ==
  ASSUME NEW c \in SettingsValues, Reboot(c)
  PROVE  TInv'
<1>1. /\ clock' = 0 /\ wdt' = 0 /\ s_heartbeat_s' = 0 /\ due' = 1 /\ next_read_s' = 0
      /\ pc' = "sleep" /\ s_state'.temp_s = 0 /\ s_state'.failures = 0
      /\ s_state'.manual = "none"
  BY BootTimes DEF Reboot
<1>2. PassBounds' /\ OverrideBounds' /\ ReadBounds'
  BY <1>1, ControlAssumption DEF PassBounds, OverrideBounds, ReadBounds, Pass
<1>3. Late' = CONTROL_READ_PERIOD_S
  BY <1>1, Multiples, ControlAssumption DEF Late, D
<1>4. LateBounds'
  BY <1>1, <1>3, ControlAssumption DEF LateBounds, Pending
<1> QED BY <1>1, <1>2, <1>4 DEF TInv

\* A pass begins: a read is started at most two seconds late.
LEMMA BeginPassTInv ==
  ASSUME TypeOK, TInv, BeginPass
  PROVE  PassBounds' /\ OverrideBounds' /\ ReadBounds' /\ LateBounds' /\ pc' # "deciding"
<1>1. /\ pc = "sleep" /\ due' = clock + 1 /\ now_s' = clock
      /\ UNCHANGED <<clock, s_state, s_heartbeat_s, wdt>>
  BY DEF BeginPass
<1>2. \/ /\ clock >= next_read_s /\ pc' = "reading"
         /\ next_read_s' = clock + CONTROL_READ_PERIOD_S
      \/ /\ ~(clock >= next_read_s) /\ pc' = "locking" /\ ~read'
         /\ next_read_s' = next_read_s
  BY DEF BeginPass, NextRead
<1>3. Late' = Late /\ Late \in Int
  BY <1>1, Numbers, Multiples DEF Late
<1>4. PassBounds' /\ OverrideBounds'
  BY <1>1, <1>2, Numbers DEF TInv, PassBounds, OverrideBounds, Pass
<1>5. ReadBounds'
  <2>1. CASE pc' = "reading"
    <3>1. read' /\ due' + 1 <= next_read_s' /\ next_read_s' <= clock' + CONTROL_READ_PERIOD_S
      <4>1. read'
        <5>1. pc' = IF read' THEN "reading" ELSE "locking"
          BY DEF BeginPass
        <5> QED BY <2>1, <5>1
      <4>2. next_read_s' = clock + CONTROL_READ_PERIOD_S
        BY <1>2, <2>1
      <4>3. due' + 1 <= next_read_s' /\ next_read_s' <= clock' + CONTROL_READ_PERIOD_S
        BY <1>1, <4>2, Numbers
      <4> QED BY <4>1, <4>3
    <3> QED BY <2>1, <3>1 DEF ReadBounds, Pass
  <2>2. CASE pc' = "locking"
    <3>1. ~read' /\ next_read_s' = next_read_s /\ ~(clock >= next_read_s)
      BY <1>2, <2>2
    <3>2. due' <= next_read_s'
      BY <1>1, <3>1, Numbers
    <3> QED BY <2>2, <3>1, <3>2 DEF ReadBounds, Pass
  <2> QED BY <1>2, <2>1, <2>2
<1>6. LateBounds'
  BY <1>1, <1>2, <1>3, Numbers DEF TInv, PassBounds, ReadBounds, LateBounds, Pending, D
<1> QED BY <1>1, <1>2, <1>4, <1>5, <1>6

\* The sensor was read, well or badly.
LEMMA ReadSensorTInv ==
  ASSUME TypeOK, TInv, NEW rd, ReadSensor(rd)
  PROVE  PassBounds' /\ OverrideBounds' /\ ReadBounds' /\ LateBounds' /\ pc' # "deciding"
<1>1. /\ pc = "reading" /\ pc' = "locking" /\ due' = clock + 1 /\ now_s' = clock
      /\ UNCHANGED <<clock, s_state, s_heartbeat_s, wdt, next_read_s>>
  BY DEF ReadSensor
<1>2. Late' = Late /\ Late \in Int
  BY <1>1, Numbers, Multiples DEF Late
<1>3. PassBounds' /\ OverrideBounds'
  BY <1>1, Numbers DEF TInv, PassBounds, OverrideBounds, Pass
<1>4. due' <= next_read_s' /\ next_read_s' <= now_s' + CONTROL_READ_PERIOD_S /\ read'
  BY <1>1, Numbers DEF TInv, PassBounds, ReadBounds, ReadSensor
<1>5. ReadBounds'
  BY <1>1, <1>4 DEF ReadBounds, Pass
<1>6. s_state.failures < SENSOR_FAIL_READS => next_read_s' <= Late' + D /\ due' <= Late' + 4
  BY <1>1, <1>2, Numbers DEF TInv, PassBounds, LateBounds, Pending
<1>7. LateBounds'
  BY <1>1, <1>4, <1>6 DEF LateBounds, Pending
<1> QED BY <1>1, <1>3, <1>5, <1>7

\* The reading is taken: a good one starts the count again, a bad one uses up the
\* time of one read.
LEMMA TakeReadingTInv ==
  ASSUME TypeOK, IInv, TInv, TakeReading
  PROVE  TInv'
<1>1. /\ pc = "locking" /\ pc' = "deciding"
      /\ UNCHANGED <<clock, s_heartbeat_s, wdt, next_read_s, due, now_s, relay>>
  BY DEF TakeReading
<1>2. /\ s_state \in CtlState /\ s_settings \in CtlConfig /\ now_s \in Int
      /\ reading.valid \in BOOLEAN /\ reading.temp \in Int
  BY SettingsAreConfig DEF TypeOK
<1>3. s_state'.manual = s_state.manual /\ s_state'.manual_until_s = s_state.manual_until_s
  BY <1>2 DEF TakeReading, ctl_sensor, CtlState
<1>4. CASE read /\ reading.valid
  <2>1. s_state'.temp_s = now_s /\ s_state'.failures = 0
    BY <1>2, <1>4 DEF TakeReading, ctl_sensor, CtlState
  <2>2. Late' = now_s + CONTROL_READ_PERIOD_S
    BY <1>1, <2>1, Numbers, Multiples DEF Late
  <2>3. LateBounds'
    BY <1>1, <1>4, <2>1, <2>2 DEF TInv, ReadBounds, LateBounds, Pending
  <2>4. SensorDeadline \in Nat /\ SensorDeadline >= 2
    BY Numbers, Multiples DEF SensorDeadline, D
  <2>5. due <= now_s + 1
    BY <1>1 DEF TInv, PassBounds
  <2>6. NoticedByDue'
    BY <1>1, <2>1, <2>4, <2>5, Numbers DEF NoticedByDue
  <2> QED BY <1>1, <1>3, <2>3, <2>6, Numbers
          DEF TInv, PassBounds, OverrideBounds, ReadBounds, Pass
<1>5. CASE ~(read /\ reading.valid)
  <2>1. s_state'.temp_s = s_state.temp_s
    BY <1>2, <1>5 DEF TakeReading, ctl_sensor, CtlState
  <2>2. NoticedByDue
    BY <1>1, NoticedOutsideLock DEF TInv
  <2>3. NoticedByDue'
    BY <1>1, <1>3, <2>1, <2>2 DEF NoticedByDue
  <2>4. LateBounds'
    <3>1. CASE ~read
      <4>1. s_state' = s_state
        BY <3>1 DEF TakeReading
      <4>2. Late' = Late
        BY <4>1 DEF Late
      <4> QED BY <1>1, <3>1, <4>1, <4>2 DEF TInv, LateBounds, Pending
    <3>2. CASE read
      <4>1. s_state' = ctl_sensor(s_state, s_settings, now_s, FALSE, reading.temp)
        BY <1>2, <1>5, <3>2 DEF TakeReading
      <4>2. s_state.sensor_failed <=> s_state.failures >= SENSOR_FAIL_READS
        BY DEF IInv, FailSafeExact
      <4>3. /\ s_state'.failures >= s_state.failures
            /\ s_state.failures < SENSOR_FAIL_READS => s_state'.failures = s_state.failures + 1
        BY <1>2, <4>1, <4>2, BadReading
      <4>4. s_state' \in CtlState
        BY <1>2, SensorType DEF TakeReading
      <4>5. s_state'.failures \in Nat
        BY <4>4, LogicAssumption DEF CtlState
      <4> SUFFICES ASSUME s_state'.failures < SENSOR_FAIL_READS PROVE next_read_s' <= Late'
        BY <1>1 DEF LateBounds, Pending
      <4>6. s_state'.failures = s_state.failures + 1 /\ s_state.failures < SENSOR_FAIL_READS
        BY <4>3, <4>5, Numbers
      <4>7. s_state'.failures * D = s_state.failures * D + D /\ s_state.failures * D \in Nat
        BY <4>6, Numbers, Multiples
      <4>8. Late' = Late + D /\ Late \in Int
        BY <2>1, <4>7, Numbers DEF Late
      <4> QED BY <1>1, <3>2, <4>6, <4>8 DEF TInv, LateBounds, Pending
    <3> QED BY <3>1, <3>2
  <2> QED BY <1>1, <1>3, <2>3, <2>4, Numbers
          DEF TInv, PassBounds, OverrideBounds, ReadBounds, Pass
<1> QED BY <1>4, <1>5

\* The decision beats, and drops a command whose time is over.
LEMMA DecideTInv ==
  ASSUME TypeOK, TInv, Decide
  PROVE  PassBounds' /\ OverrideBounds' /\ ReadBounds' /\ LateBounds' /\ pc' # "deciding"
<1>1. /\ pc = "deciding" /\ pc' = "finishing" /\ s_heartbeat_s' = now_s
      /\ UNCHANGED <<clock, wdt, next_read_s, due, now_s, read>>
  BY DEF Decide
<1>2. s_state \in CtlState /\ now_s \in Int
  BY DEF TypeOK
<1>3. /\ s_state'.temp_s = s_state.temp_s /\ s_state'.failures = s_state.failures
      /\ s_state'.manual_until_s = s_state.manual_until_s
      /\ s_state'.manual # "none" => now_s < s_state'.manual_until_s
  BY <1>2, DecideLockedTimes DEF Decide
<1>4. Late' = Late
  BY <1>3 DEF Late
<1>5. PassBounds' /\ OverrideBounds' /\ ReadBounds'
  BY <1>1, <1>3, Numbers DEF TInv, PassBounds, OverrideBounds, ReadBounds, Pass
<1>6. LateBounds'
  BY <1>1, <1>3, <1>4 DEF TInv, LateBounds, Pending
<1> QED BY <1>1, <1>5, <1>6

\* The pass ends and the watchdog is fed.
LEMMA EndPassTInv ==
  ASSUME TypeOK, TInv, EndPass
  PROVE  PassBounds' /\ OverrideBounds' /\ ReadBounds' /\ LateBounds' /\ pc' # "deciding"
<1>1. /\ pc = "finishing" /\ pc' = "sleep" /\ wdt' = clock /\ due' = clock + 2
      /\ UNCHANGED <<clock, s_state, s_heartbeat_s, next_read_s>>
  BY DEF EndPass
<1>2. Late' = Late
  BY <1>1 DEF Late
<1>3. PassBounds' /\ OverrideBounds' /\ ReadBounds'
  BY <1>1, Numbers DEF TInv, PassBounds, OverrideBounds, ReadBounds, Pass
<1>4. LateBounds'
  BY <1>1, <1>2 DEF TInv, LateBounds, Pending
<1> QED BY <1>1, <1>3, <1>4

\* A command, at whatever point of a pass it comes: it lasts at least a second.
LEMMA CommandTInv ==
  ASSUME TypeOK, TInv, NEW m \in Manual, NEW d \in Durations, pump_command(m, d)
  PROVE  PassBounds' /\ OverrideBounds' /\ ReadBounds' /\ LateBounds' /\ pc' # "deciding"
<1> DEFINE duration == ClampDuration(RequestedDuration(m, d))
           before == ctl_manual(s_state, m, duration, clock)
<1>1. /\ s_lock = "free" /\ decide_locked(before, clock, NoSensorResult, "http")
      /\ UNCHANGED <<clock, s_heartbeat_s, wdt, pc, next_read_s, due, now_s, read>>
  BY DEF pump_command, control_manual, taskVars
<1>2. duration \in Int /\ duration >= 1
  BY ControlAssumption DEF ClampDuration, RequestedDuration
<1>3. before \in CtlState /\ clock \in Int
  BY <1>2, ManualType DEF TypeOK
<1>4. /\ before.temp_s = s_state.temp_s /\ before.failures = s_state.failures
      /\ before.manual_until_s = IF m = "none" THEN 0 ELSE clock + duration
      /\ before.manual = m
  BY DEF ctl_manual, TypeOK, CtlState
<1> HIDE DEF before, duration
<1>5. /\ s_state'.temp_s = s_state.temp_s /\ s_state'.failures = s_state.failures
      /\ s_state'.manual_until_s = before.manual_until_s
      /\ s_state'.manual # "none" => clock < s_state'.manual_until_s
      /\ s_state'.manual_until_s \in Int
  BY <1>1, <1>2, <1>3, <1>4, DecideLockedTimes DEF CtlState
<1>6. pc # "deciding"
  BY <1>1 DEF TypeOK
<1>7. Late' = Late
  BY <1>5 DEF Late
<1>8. PassBounds' /\ ReadBounds'
  BY <1>1 DEF TInv, PassBounds, ReadBounds, Pass
<1>9. OverrideBounds'
  BY <1>1, <1>5, <1>6, Numbers DEF TInv, PassBounds, OverrideBounds, Pass
<1>10. LateBounds'
  BY <1>1, <1>5, <1>7 DEF TInv, LateBounds, Pending
<1> QED BY <1>1, <1>6, <1>8, <1>9, <1>10

\* A second passes, or the driver hangs.
LEMMA TickHangTInv ==
  ASSUME TypeOK, TInv, Tick \/ Hang
  PROVE  TInv'
<1>1. Late' = Late /\ s_state' = s_state
  BY DEF Late, Tick, Hang
<1>2. CASE Tick
  <2>1. /\ clock' = clock + 1 /\ clock < wdt + TASK_WDT_TIMEOUT_S
        /\ pc # "hung" => clock < due
        /\ UNCHANGED <<s_state, s_heartbeat_s, wdt, pc, next_read_s, due, now_s, read, relay>>
    BY <1>2 DEF Tick, taskVars
  <2>2. PassBounds' /\ OverrideBounds' /\ ReadBounds'
    BY <2>1, Numbers DEF TInv, PassBounds, OverrideBounds, ReadBounds, Pass
  <2>3. LateBounds'
    BY <1>1, <2>1 DEF TInv, LateBounds, Pending
  <2>4. ASSUME pc' = "deciding" PROVE NoticedByDue'
    BY <2>1, <2>4 DEF TInv, NoticedByDue
  <2> QED BY <2>2, <2>3, <2>4 DEF TInv
<1>3. CASE Hang
  <2>1. /\ pc = "reading" /\ pc' = "hung"
        /\ UNCHANGED <<clock, s_state, s_heartbeat_s, wdt, next_read_s, due, now_s, read, relay>>
    BY <1>3 DEF Hang
  <2> QED BY <2>1 DEF TInv, PassBounds, OverrideBounds, ReadBounds, LateBounds, Pass, Pending
<1> QED BY <1>2, <1>3

\* Every step preserves the invariant.
LEMMA NextTInv == TypeOK /\ IInv /\ TInv /\ [Next]_vars => TInv'
<1> SUFFICES ASSUME TypeOK, IInv, TInv, [Next]_vars PROVE TInv'
  OBVIOUS
<1>1. CASE BeginPass
  BY <1>1, BeginPassTInv DEF TInv
<1>2. ASSUME NEW rd \in Readings, ReadSensor(rd) PROVE TInv'
  BY <1>2, ReadSensorTInv DEF TInv
<1>3. CASE TakeReading
  BY <1>3, TakeReadingTInv
<1>4. CASE Decide
  BY <1>4, DecideTInv DEF TInv
<1>5. CASE EndPass
  BY <1>5, EndPassTInv DEF TInv
<1>6. ASSUME NEW m \in Manual, NEW d \in Durations, pump_command(m, d) PROVE TInv'
  BY <1>6, CommandTInv DEF TInv
<1>7. CASE Tick \/ Hang
  BY <1>7, TickHangTInv
<1>8. CASE WatchdogReset \/ PowerCycle
  BY <1>8, RebootTInv DEF WatchdogReset, PowerCycle
<1>9. CASE NotifyTask \/ (\E c \in SettingsValues : settings_set(c)) \/ UNCHANGED vars
  <2>1. UNCHANGED <<clock, s_state, relay, s_heartbeat_s, taskVars, wdt>>
    BY <1>9 DEF NotifyTask, settings_set, vars
  <2>2. UNCHANGED <<clock, s_state, relay, s_heartbeat_s, wdt, pc, now_s, read, next_read_s, due>>
    BY <2>1 DEF taskVars
  <2> QED BY <2>2 DEF TInv, PassBounds, OverrideBounds, ReadBounds, LateBounds, NoticedByDue,
                      Late, Pending, Pass
<1> QED
  BY <1>1, <1>2, <1>3, <1>4, <1>5, <1>6, <1>7, <1>8, <1>9
     DEF Next, ControlTask, HttpTask

\* The bounds hold in every state.
LEMMA SpecTInv == Spec => [](TypeOK /\ IInv /\ TInv)
BY InitTypeOK, NextTypeOK, InitIInv, NextIInv, InitTInv, NextTInv, PTL DEF Spec

-----------------------------------------------------------------------------
(***************************************************************************)
(* What follows from it                                                    *)
(***************************************************************************)

\* The watchdog resets only a controller whose sensor driver hangs.
THEOREM WatchdogIsPatient == Spec => []WatchdogOnlyWhenHung
<1>1. TypeOK /\ TInv => WatchdogOnlyWhenHung
  BY Numbers, WatchdogAssumption
     DEF TInv, PassBounds, Pass, WatchdogOnlyWhenHung, WatchdogFires, Pcs
<1> QED BY <1>1, SpecTInv, PTL

\* control_alive() is true until the watchdog resets the device.
THEOREM ControlStaysAlive == Spec => []ControlAlive
<1>1. TypeOK /\ TInv => ControlAlive
  BY Numbers, WatchdogAssumption DEF TInv, PassBounds, ControlAlive
<1> QED BY <1>1, SpecTInv, PTL

\* The due second of each step is at most 4 s after the time of the override.
LEMMA OverrideBoundsEnd == TypeOK /\ TInv => OverrideEndsOnTime
BY Numbers DEF TInv, PassBounds, OverrideBounds, Pass, OverrideEndsOnTime, Running, Pcs

\* A manual override ends by itself, at most 4 s after its time.
THEOREM OverridesEnd == Spec => []OverrideEndsOnTime
BY OverrideBoundsEnd, SpecTInv, PTL

\* Without a good reading for SENSOR_FAIL_READS reads the pump runs, unless stopped by
\* hand.
THEOREM DeadSensorIsNoticed == Spec => []DeadSensorNoticedInTime
<1>1. TypeOK /\ IInv /\ TInv => DeadSensorNoticedInTime
  <2> SUFFICES ASSUME TypeOK, IInv, TInv PROVE DeadSensorNoticedInTime
    OBVIOUS
  <2>1. NoticedByDue
    BY NoticedOutsideLock DEF TInv
  <2>2. pc # "hung" => clock <= due
    BY DEF TInv, PassBounds
  <2>3. SensorDeadline \in Nat
    BY Numbers, Multiples DEF SensorDeadline, D
  <2> QED BY <2>1, <2>2, <2>3, Numbers DEF NoticedByDue, DeadSensorNoticedInTime, Running
<1> QED BY <1>1, SpecTInv, PTL

-----------------------------------------------------------------------------
(***************************************************************************)
(* The idle time of the pump                                               *)
(***************************************************************************)

\* Water last measured that no thresholds in use call warm, and no command.
Cold ==
  /\ s_state.have_temp /\ s_state.manual = "none"
  /\ \A c \in SettingsValues : s_state.temp_x10 < c.stop_x10

\* The idle clock of the controller against the relay, up to the second by which the
\* task's sample of the clock can be late, and against the last decision.
IdleInv ==
  /\ relay = s_state.on
  /\ ~s_state.on => s_state.last_on_s <= lastOff /\ lastOff <= s_state.last_on_s + 1
  /\ s_lock = "free" /\ ~s_state.on /\ Cold =>
       s_heartbeat_s - s_state.last_on_s < MAINTENANCE_INTERVAL_S

\* The numbers it is about.
LEMMA IdleNumbers ==
  ASSUME TypeOK
  PROVE  /\ s_state.last_on_s \in Int /\ lastOff \in Nat /\ clock \in Nat
         /\ s_heartbeat_s \in Nat /\ now_s \in Nat
         /\ MAINTENANCE_INTERVAL_S \in Nat /\ MAINTENANCE_INTERVAL_S > 0
BY LogicAssumption DEF TypeOK, CtlState

\* A boot starts the idle clock.
LEMMA BootIdle ==
  LET s == ctl_init(0)
  IN ~s.on /\ s.on = FALSE /\ ~s.have_temp /\ s.last_on_s = 0
BY DEF ctl_init

\* A locked section entered with the idle clock and the relay in step leaves them so, and
\* does not leave cold water standing for the interval.
LEMMA DecideLockedIdle ==
  ASSUME TypeOK, IdleInv, NEW before \in CtlState, NEW now \in Nat,
         NEW sensor \in SensorResults, NEW caller,
         before.on = s_state.on, before.last_on_s = s_state.last_on_s,
         before.have_temp = s_state.have_temp, before.temp_x10 = s_state.temp_x10,
         now <= clock, clock <= now + 1, s_heartbeat_s' <= now, s_heartbeat_s' \in Nat,
         decide_locked(before, now, sensor, caller)
  PROVE  IdleInv'
<1> DEFINE t == ctl_decide(before, s_settings, now)
<1>1. s_settings \in SettingsValues /\ s_settings \in CtlConfig /\ now \in Int
  BY SettingsAreConfig DEF TypeOK
<1>2. s_state' = t /\ DriveRelay(before.on, t.on, caller)
  BY DEF decide_locked
<1>3. /\ t.last_on_s = IF before.on \/ t.on THEN now ELSE before.last_on_s
      /\ ~t.on /\ t.manual = "none" /\ before.have_temp /\ before.temp_x10 < s_settings.stop_x10
           => ~(now - t.last_on_s >= MAINTENANCE_INTERVAL_S)
  BY <1>1, DecideIdle
<1>4. t \in CtlState /\ t.have_temp = before.have_temp /\ t.temp_x10 = before.temp_x10
  BY <1>1, DecideEffect
<1> HIDE DEF t
<1>5. t.on \in BOOLEAN /\ before.on \in BOOLEAN /\ t.last_on_s \in Int
  BY <1>4 DEF CtlState
<1>6. relay = before.on /\ relay' = t.on
  BY <1>2, <1>5 DEF IdleInv, DriveRelay
<1>7. ~t.on => t.last_on_s <= lastOff' /\ lastOff' <= t.last_on_s + 1
  <2> SUFFICES ASSUME ~t.on PROVE t.last_on_s <= lastOff' /\ lastOff' <= t.last_on_s + 1
    OBVIOUS
  <2>1. CASE before.on
    <3>1. lastOff' = clock /\ t.last_on_s = now
      BY <1>2, <1>3, <1>6, <2>1 DEF DriveRelay
    <3> QED BY <3>1, IdleNumbers
  <2>2. CASE ~before.on
    <3>1. lastOff' = lastOff /\ t.last_on_s = s_state.last_on_s
      BY <1>2, <1>3, <1>6, <2>2 DEF DriveRelay
    <3> QED BY <2>2, <3>1 DEF IdleInv
  <2> QED BY <2>1, <2>2
<1>8. ~t.on /\ Cold' => s_heartbeat_s' - t.last_on_s < MAINTENANCE_INTERVAL_S
  <2> SUFFICES ASSUME ~t.on, Cold' PROVE s_heartbeat_s' - t.last_on_s < MAINTENANCE_INTERVAL_S
    OBVIOUS
  <2>1. t.manual = "none" /\ before.have_temp /\ before.temp_x10 < s_settings.stop_x10
    BY <1>1, <1>2, <1>4 DEF Cold
  <2>2. ~(now - t.last_on_s >= MAINTENANCE_INTERVAL_S)
    BY <1>3, <2>1
  <2> QED BY <1>5, <2>2, IdleNumbers
<1> QED BY <1>2, <1>6, <1>7, <1>8 DEF IdleInv

\* Every step keeps the idle clock and the relay in step.
LEMMA NextIdleInv == TypeOK /\ IInv /\ TInv /\ IdleInv /\ [Next]_vars => IdleInv'
<1> SUFFICES ASSUME TypeOK, IInv, TInv, IdleInv, [Next]_vars PROVE IdleInv'
  OBVIOUS
<1>a. ASSUME UNCHANGED <<s_state, relay, lastOff, s_heartbeat_s, s_lock>>
      PROVE  IdleInv'
  BY <1>a DEF IdleInv, Cold
<1>1. CASE BeginPass \/ EndPass \/ NotifyTask \/ Tick \/ Hang
           \/ (\E rd \in Readings : ReadSensor(rd)) \/ (\E c \in SettingsValues : settings_set(c))
           \/ UNCHANGED vars
  BY <1>1, <1>a DEF BeginPass, EndPass, NotifyTask, Tick, Hang, ReadSensor, settings_set, vars
<1>2. CASE TakeReading
  <2>1. s_lock' = "control" /\ UNCHANGED <<relay, lastOff>> /\ s_state \in CtlState
    BY <1>2 DEF TakeReading, TypeOK
  <2>2. s_state'.on = s_state.on /\ s_state'.last_on_s = s_state.last_on_s
    BY <1>2, <2>1 DEF TakeReading, ctl_sensor, CtlState
  <2> QED BY <2>1, <2>2 DEF IdleInv
<1>3. CASE Decide
  <2>1. /\ pc = "deciding" /\ decide_locked(s_state, now_s, r, "control")
        /\ s_heartbeat_s' = now_s
        /\ s_state \in CtlState /\ now_s \in Nat /\ r \in SensorResults
    BY <1>3 DEF Decide, TypeOK
  <2>2. now_s <= clock /\ clock <= now_s + 1
    BY <2>1, Numbers DEF TInv, PassBounds
  <2>3. s_heartbeat_s' <= now_s /\ s_heartbeat_s' \in Nat
    BY <2>1
  <2> QED BY <2>1, <2>2, <2>3, DecideLockedIdle
<1>4. ASSUME NEW m \in Manual, NEW d \in Durations, pump_command(m, d) PROVE IdleInv'
  <2> DEFINE before == ctl_manual(s_state, m, ClampDuration(RequestedDuration(m, d)), clock)
  <2>1. /\ decide_locked(before, clock, NoSensorResult, "http")
        /\ s_heartbeat_s' = s_heartbeat_s
    BY <1>4 DEF pump_command, control_manual
  <2>2. before \in CtlState /\ clock \in Nat /\ s_heartbeat_s \in Nat /\ s_heartbeat_s <= clock
    BY ManualType, ClampType DEF TypeOK, TInv, PassBounds
  <2>3. /\ before.on = s_state.on /\ before.last_on_s = s_state.last_on_s
        /\ before.have_temp = s_state.have_temp /\ before.temp_x10 = s_state.temp_x10
    BY DEF ctl_manual, TypeOK, CtlState
  <2> HIDE DEF before
  <2>4. clock <= clock /\ clock <= clock + 1
    BY <2>2
  <2> QED BY <2>1, <2>2, <2>3, <2>4, NoResultTypes, DecideLockedIdle
<1>5. ASSUME NEW c \in SettingsValues, Reboot(c) PROVE IdleInv'
  <2>1. s_state' = ctl_init(0) /\ relay' = FALSE /\ lastOff' = 0
    BY <1>5 DEF Reboot
  <2>2. relay' = s_state'.on /\ ~s_state'.have_temp
    BY <2>1, BootIdle
  <2>3. s_state'.last_on_s <= lastOff' /\ lastOff' <= s_state'.last_on_s + 1
    BY <2>1, BootIdle
  <2> QED BY <2>2, <2>3 DEF IdleInv, Cold
<1> QED
  BY <1>1, <1>2, <1>3, <1>4, <1>5
     DEF Next, ControlTask, HttpTask, WatchdogReset, PowerCycle

\* It holds in every state.
LEMMA SpecIdleInv == Spec => [](TypeOK /\ IInv /\ TInv /\ IdleInv)
<1>1. Init => IdleInv
  <2> SUFFICES ASSUME Init PROVE IdleInv
    OBVIOUS
  <2>1. s_state = ctl_init(0) /\ relay = FALSE /\ lastOff = 0
    BY DEF Init
  <2>2. relay = s_state.on /\ ~s_state.have_temp
    BY <2>1, BootIdle
  <2>3. s_state.last_on_s <= lastOff /\ lastOff <= s_state.last_on_s + 1
    BY <2>1, BootIdle
  <2> QED BY <2>2, <2>3 DEF IdleInv, Cold
<1> QED BY <1>1, InitTypeOK, NextTypeOK, InitIInv, NextIInv, InitTInv, NextTInv, NextIdleInv, PTL
       DEF Spec

\* Cold water does not stand longer than the interval and one pass: the impeller does
\* not seize.
THEOREM PumpIsExercised == Spec => []PumpExercised
<1>1. TypeOK /\ IInv /\ TInv /\ IdleInv => PumpExercised
  <2> SUFFICES ASSUME TypeOK, TInv, IdleInv, s_lock = "free", Running, ~relay, Cold
               PROVE  clock - lastOff <= MAINTENANCE_INTERVAL_S + 4
    BY DEF PumpExercised, Cold
  <2>1. s_heartbeat_s - s_state.last_on_s < MAINTENANCE_INTERVAL_S /\ s_state.last_on_s <= lastOff
    BY DEF IdleInv
  <2>2. clock <= s_heartbeat_s + 5
    BY Numbers DEF TInv, PassBounds, Pass, Running, Pcs
  <2> QED BY <2>1, <2>2, IdleNumbers
<1> QED BY <1>1, SpecIdleInv, PTL

\* A maintenance run starts only when the pump stood still for the interval, up to the
\* second of the sampled clock.
THEOREM MaintenanceWaits == Spec => MaintenanceOnlyAfterIdle
<1> DEFINE Waits == s_state'.maintenance /\ ~s_state.maintenance =>
                      ~relay /\ clock - lastOff >= MAINTENANCE_INTERVAL_S - 1
<1>1. ASSUME TypeOK, IdleInv, NEW before \in CtlState, NEW now \in Nat, NEW sensor, NEW caller,
             before.on = s_state.on, before.last_on_s = s_state.last_on_s,
             before.maintenance = s_state.maintenance, now <= clock,
             decide_locked(before, now, sensor, caller)
      PROVE  Waits
  <2>1. s_settings \in CtlConfig /\ s_state' = ctl_decide(before, s_settings, now) /\ now \in Int
    BY <1>1, SettingsAreConfig DEF TypeOK, decide_locked
  <2>2. s_state'.maintenance /\ ~before.maintenance =>
          ~before.on /\ now - before.last_on_s >= MAINTENANCE_INTERVAL_S
    BY <1>1, <2>1, DecideIdle
  <2> SUFFICES ASSUME s_state'.maintenance, ~s_state.maintenance
               PROVE  ~relay /\ clock - lastOff >= MAINTENANCE_INTERVAL_S - 1
    OBVIOUS
  <2>3. ~relay /\ lastOff <= s_state.last_on_s + 1
    BY <1>1, <2>2 DEF IdleInv
  <2>4. now - s_state.last_on_s >= MAINTENANCE_INTERVAL_S
    BY <1>1, <2>2
  <2>5. clock - lastOff >= MAINTENANCE_INTERVAL_S - 1
    BY <1>1, <2>3, <2>4, IdleNumbers
  <2> QED BY <2>3, <2>5
<1>2. TypeOK /\ TInv /\ IdleInv /\ [Next]_vars => Waits
  <2> SUFFICES ASSUME TypeOK, TInv, IdleInv, [Next]_vars PROVE Waits
    OBVIOUS
  <2>1. CASE Decide
    <3>1. /\ pc = "deciding" /\ decide_locked(s_state, now_s, r, "control")
          /\ s_state \in CtlState /\ now_s \in Nat
      BY <2>1 DEF Decide, TypeOK
    <3>2. now_s <= clock
      BY <3>1 DEF TInv, PassBounds
    <3> HIDE DEF Waits
    <3> QED BY <1>1, <3>1, <3>2
  <2>2. ASSUME NEW m \in Manual, NEW d \in Durations, pump_command(m, d) PROVE Waits
    <3> DEFINE before == ctl_manual(s_state, m, ClampDuration(RequestedDuration(m, d)), clock)
    <3>1. decide_locked(before, clock, NoSensorResult, "http") /\ clock \in Nat
      BY <2>2 DEF pump_command, control_manual, TypeOK
    <3>2. before \in CtlState
      BY ManualType, ClampType DEF TypeOK
    <3>3. /\ before.on = s_state.on /\ before.last_on_s = s_state.last_on_s
          /\ before.maintenance = s_state.maintenance
      BY DEF ctl_manual, TypeOK, CtlState
    <3>4. clock <= clock
      BY <3>1
    <3> HIDE DEF before, Waits
    <3> QED BY <1>1, <3>1, <3>2, <3>3, <3>4
  <2>3. CASE TakeReading
    <3>1. s_state'.maintenance = s_state.maintenance
      BY <2>3 DEF TakeReading, ctl_sensor, TypeOK, CtlState
    <3> QED BY <3>1
  <2>4. ASSUME NEW c \in SettingsValues, Reboot(c) PROVE Waits
    BY <2>4 DEF Reboot, ctl_init
  <2>5. CASE s_state' = s_state
    BY <2>5
  <2>6. CASE BeginPass \/ EndPass \/ NotifyTask \/ Tick \/ Hang
             \/ (\E rd \in Readings : ReadSensor(rd))
             \/ (\E c \in SettingsValues : settings_set(c)) \/ UNCHANGED vars
    <3>1. s_state' = s_state
      BY <2>6 DEF BeginPass, EndPass, NotifyTask, Tick, Hang, ReadSensor, settings_set, vars
    <3> QED BY <2>5, <3>1
  <2> HIDE DEF Waits
  <2> QED
    BY <2>1, <2>2, <2>3, <2>4, <2>6 DEF Next, ControlTask, HttpTask, WatchdogReset, PowerCycle
<1>3. TypeOK /\ TInv /\ IdleInv /\ [Next]_vars => [Waits]_vars
  BY <1>2
<1> HIDE DEF Waits
<1>4. Spec => [][Waits]_vars
  BY <1>3, SpecIdleInv, PTL DEF Spec
<1> QED BY <1>4 DEF MaintenanceOnlyAfterIdle, Waits

-----------------------------------------------------------------------------
(***************************************************************************)
(* The counters of the local day                                           *)
(***************************************************************************)

\* Strengthening of FirstDayKeepsBoot: the counted day is one that has begun.
DayInv ==
  /\ yday \in Int /\ s_today_yday \in Int
  /\ -1 <= s_today_yday /\ s_today_yday <= yday
  /\ FirstDayKeepsBoot

\* Both pairs of counters take the same seconds and starts, until a day after the first.
LEMMA CountedDay ==
  ASSUME DayInv, NEW now, count_runtime_locked(now), UNCHANGED yday
  PROVE  DayInv'
<1>1. s_today_yday' = IF yday >= 0 THEN yday ELSE s_today_yday
  BY DEF count_runtime_locked
<1>2. /\ s_today_yday' \in Int /\ -1 <= s_today_yday' /\ s_today_yday' <= yday
      /\ TodayRestarts => s_today_yday' > 0
      /\ s_today_yday' <= 0 => s_today_yday <= 0
  BY <1>1 DEF DayInv, TodayRestarts
<1>3. ASSUME s_today_yday' <= 0
      PROVE  s_runtime_today_s' = s_runtime_boot_s' /\ s_starts_today' = s_starts_boot'
  <2>1. ~TodayRestarts
    BY <1>2, <1>3
  <2>2. s_runtime_today_s = s_runtime_boot_s /\ s_starts_today = s_starts_boot
    BY <1>2, <1>3 DEF DayInv, FirstDayKeepsBoot
  <2> QED BY <2>1, <2>2 DEF count_runtime_locked
<1> QED BY <1>2, <1>3 DEF DayInv, FirstDayKeepsBoot

\* Every step keeps that.
LEMMA NextDayInv ==
  ASSUME DayInv, [RNext]_rvars
  PROVE  DayInv'
<1>1. CASE DecideCounted
  BY <1>1, CountedDay DEF DecideCounted
<1>2. ASSUME NEW m \in Manual, NEW d \in Durations, ManualCounted(m, d) PROVE DayInv'
  BY <1>2, CountedDay DEF ManualCounted
<1>3. CASE TickCounted \/ Uncounted \/ UNCHANGED rvars
  <2>1. UNCHANGED <<counters, yday>>
    BY <1>3 DEF TickCounted, Uncounted, rvars
  <2> QED BY <2>1 DEF counters, DayInv, FirstDayKeepsBoot
<1>4. CASE NewDay
  BY <1>4 DEF NewDay, counters, DayInv, FirstDayKeepsBoot
<1>5. CASE (WatchdogReset \/ PowerCycle) /\ ClearCounters
  BY <1>5 DEF ClearCounters, DayInv, FirstDayKeepsBoot
<1> QED BY <1>1, <1>2, <1>3, <1>4, <1>5 DEF RNext

\* Until a second local day begins the counters of the day are those since boot, however
\* late the clock is synced and whichever task counts.
THEOREM FirstDayKept == RSpec => []FirstDayKeepsBoot
<1>1. RInit => DayInv
  BY DEF RInit, DayInv, FirstDayKeepsBoot
<1>2. DayInv /\ [RNext]_rvars => DayInv'
  BY NextDayInv
<1>3. DayInv => FirstDayKeepsBoot
  BY DEF DayInv
<1> QED BY <1>1, <1>2, <1>3, PTL DEF RSpec

-----------------------------------------------------------------------------
(***************************************************************************)
(* The run time                                                            *)
(***************************************************************************)

\* The counters never change what the controller does, so that all that was proved of
\* Control holds with them.
THEOREM CountersOnlyCount == RSpec => Spec
<1>1. RInit => Init
  BY DEF RInit
<1>2. [RNext]_rvars => [Next]_vars
  BY DEF RNext, rvars, DecideCounted, ManualCounted, TickCounted, NewDay, Uncounted,
         Next, ControlTask, HttpTask
<1> QED BY <1>1, <1>2, PTL DEF RSpec, Spec

\* A counter is its value up to turns of UINT32_MOD, and that value makes it.
LEMMA Turns ==
  ASSUME NEW x \in Int
  PROVE  /\ x % UINT32_MOD \in 0 .. UINT32_MOD - 1
         /\ \E q \in Int : x % UINT32_MOD = x + q * UINT32_MOD
<1> DEFINE m == UINT32_MOD
<1>1. m \in Int /\ m > 0
  BY RuntimeAssumption
<1> HIDE DEF m
<1>2. x \div m \in Int /\ x % m \in 0 .. m - 1
  BY <1>1
<1>3. x % m = x - m * (x \div m)
  BY <1>1
<1> DEFINE q == -(x \div m)
<1>4. q \in Int /\ x % m = x + q * m
  BY <1>1, <1>2, <1>3
<1> QED BY <1>2, <1>4 DEF m

LEMMA TurnsAdd ==
  ASSUME NEW k \in Int, NEW q \in Int
  PROVE  /\ k * UINT32_MOD \in Int
         /\ (k + q) * UINT32_MOD = k * UINT32_MOD + q * UINT32_MOD
         /\ (k - q) * UINT32_MOD = k * UINT32_MOD - q * UINT32_MOD
<1> DEFINE m == UINT32_MOD
<1>1. m \in Int
  BY RuntimeAssumption
<1> HIDE DEF m
<1>2. /\ k * m \in Int
      /\ (k + q) * m = k * m + q * m
      /\ (k - q) * m = k * m - q * m
  BY <1>1
<1> QED BY <1>2 DEF m

LEMMA TurnsMake ==
  ASSUME NEW x \in 0 .. UINT32_MOD - 1, NEW y \in Int, NEW k \in Int, x = y + k * UINT32_MOD
  PROVE  x = y % UINT32_MOD
<1>1. PICK q \in Int : y % UINT32_MOD = y + q * UINT32_MOD
  BY Turns
<1> DEFINE n == k - q
<1>2. n \in Int /\ x - (y % UINT32_MOD) = n * UINT32_MOD
  <2>1. /\ k * UINT32_MOD \in Int /\ q * UINT32_MOD \in Int
        /\ n * UINT32_MOD = k * UINT32_MOD - q * UINT32_MOD
    BY TurnsAdd
  <2> HIDE DEF n
  <2>2. x - (y % UINT32_MOD) = n * UINT32_MOD
    <3>1. y % UINT32_MOD \in 0 .. UINT32_MOD - 1
      BY Turns
    <3> QED BY <1>1, <2>1, <3>1, RuntimeAssumption
  <2> QED BY <2>2 DEF n
<1>3. y % UINT32_MOD \in 0 .. UINT32_MOD - 1
  BY Turns
<1> HIDE DEF n
<1>4. n >= 1 => n * UINT32_MOD >= UINT32_MOD
  BY <1>2, RuntimeAssumption
<1>5. n <= -1 => n * UINT32_MOD <= -UINT32_MOD
  BY <1>2, RuntimeAssumption
<1>6. n = 0
  BY <1>2, <1>3, <1>4, <1>5, RuntimeAssumption
<1>7. n * UINT32_MOD = 0
  BY <1>6, RuntimeAssumption
<1>8. x - (y % UINT32_MOD) = 0
  BY <1>2, <1>7
<1>9. y % UINT32_MOD \in Int
  BY <1>3, RuntimeAssumption
<1>10. x \in Int
  BY RuntimeAssumption
<1> QED BY <1>8, <1>9, <1>10

\* A pass may still come whose sample of the clock is 0.
Early == clock = 0 \/ (pc \in {"locking", "deciding"} /\ now_s = 0)

\* A tick of 0 does not last: by this second a sample that is not 0 was counted, or the
\* watchdog has reset a task that never took one.
FirstCountBy == TASK_WDT_TIMEOUT_S + 1

\* What a pump that ran early may have lost so far: the second by which a stale sample took
\* the tick back to 0, and what passed until the first count after a tick of 0.
Lost ==
  IF ~ranEarly THEN 0
  ELSE (IF Early THEN 0 ELSE 1)
         + (IF s_last_tick_s = 0 THEN 0 ELSE IF Early THEN 1 ELSE FirstCountBy)

\* By how much the sample of the last count was behind the clock.
Lag == clock - sinceCount - s_last_tick_s

\* How far the counter may be off: a second for each run that ended, and in a run the
\* difference of the lags of its start and of its last count.
ErrorBounds(e) ==
  /\ ~s_state.on => -(started + Lost) <= e /\ e <= started
  /\ s_state.on => -(started - 1 + Lost) <= e + Lag /\ e + Lag <= started

RunTypes ==
  /\ s_runtime_boot_s \in 0 .. UINT32_MOD - 1
  /\ s_last_tick_s \in Nat
  /\ onTime \in Nat
  /\ sinceCount \in Nat
  /\ started \in Nat
  /\ ranEarly \in BOOLEAN

\* A tick of 0 is that of a count with a sample of 0: the task has not beaten since, and a
\* pump that runs has run since the first second.
TickBounds ==
  /\ s_last_tick_s <= clock
  /\ s_last_tick_s = 0 => s_heartbeat_s = 0
  /\ s_last_tick_s = 0 /\ s_state.on => ranEarly

RunInv ==
  /\ RunTypes
  /\ TickBounds
  /\ s_state.on => Lag \in {0, 1} /\ started > 0
  /\ ~s_state.on => sinceCount = 0
  /\ \E e \in Int, k \in Int :
       s_runtime_boot_s = onTime + e + k * UINT32_MOD /\ ErrorBounds(e)

\* A sample of 0 is decided with by the second 1, and without a tick the watchdog is near.
LEMMA EarlyTimes ==
  ASSUME TypeOK, TInv, RunInv
  PROVE  /\ Early => clock <= 1
         /\ s_last_tick_s = 0 => clock <= FirstCountBy
         /\ Early \in BOOLEAN /\ FirstCountBy \in Nat /\ FirstCountBy >= 1
<1>1. FirstCountBy \in Nat /\ FirstCountBy >= 1
  BY WatchdogAssumption, ControlAssumption DEF FirstCountBy
<1>2. ASSUME Early PROVE clock <= 1
  <2>1. CASE clock = 0
    BY <2>1
  <2>2. CASE pc \in {"locking", "deciding"} /\ now_s = 0
    BY <2>2, Numbers DEF TInv, PassBounds
  <2> QED BY <1>2, <2>1, <2>2 DEF Early
<1>3. ASSUME s_last_tick_s = 0 PROVE clock <= FirstCountBy
  BY <1>3, Numbers DEF TInv, PassBounds, RunInv, TickBounds, FirstCountBy
<1> QED BY <1>1, <1>2, <1>3 DEF Early

\* A bound that allows for more still holds.
LEMMA Wider ==
  ASSUME NEW n \in Int, NEW l \in Int, NEW m \in Int, l <= m,
         NEW x \in Int, -(n + l) <= x
  PROVE  -(n + m) <= x
OBVIOUS

\* What may be lost only grows, and a count without a tick before it can lose no more.
LEMMA LostGrows ==
  ASSUME TypeOK, TInv, RunInv, UNCHANGED clock,
         NEW now \in Nat, now <= clock, clock <= now + 1, s_last_tick_s' = now,
         now = 0 => Early, Early' => Early, now = 0 /\ clock = 1 => ~Early',
         ranEarly' \in BOOLEAN, ranEarly => ranEarly'
  PROVE  /\ Lost \in Nat /\ Lost' \in Nat /\ Lost <= Lost'
         /\ s_last_tick_s = 0 /\ s_state.on => Lost + now <= Lost'
<1>1. /\ clock \in Nat /\ s_last_tick_s \in Nat /\ s_last_tick_s <= clock
      /\ ranEarly \in BOOLEAN
  BY DEF TypeOK, RunInv, RunTypes, TickBounds
<1>2. FirstCountBy' = FirstCountBy /\ Early' \in BOOLEAN
  BY DEF FirstCountBy, Early
<1>e. /\ Early => clock <= 1
      /\ s_last_tick_s = 0 => clock <= FirstCountBy
      /\ Early \in BOOLEAN /\ FirstCountBy \in Nat /\ FirstCountBy >= 1
  BY EarlyTimes
<1> HIDE DEF Early, FirstCountBy
<1>l. Lost' = IF ~ranEarly' THEN 0
              ELSE (IF Early' THEN 0 ELSE 1)
                     + (IF now = 0 THEN 0 ELSE IF Early' THEN 1 ELSE FirstCountBy)
  BY <1>2 DEF Lost
<1>3. Lost \in Nat /\ Lost' \in Nat
  <2>1. Lost \in Nat
    BY <1>1, <1>e DEF Lost
  <2>2. Lost' \in Nat
    BY <1>e, <1>l
  <2> QED BY <2>1, <2>2
<1>4. Lost <= Lost'
  <2>1. CASE ~ranEarly
    <3>1. Lost = 0
      BY <2>1 DEF Lost
    <3> QED BY <1>3, <3>1
  <2>2. CASE ranEarly
    <3>1. Lost = (IF Early THEN 0 ELSE 1)
                   + (IF s_last_tick_s = 0 THEN 0 ELSE IF Early THEN 1 ELSE FirstCountBy)
      BY <2>2 DEF Lost
    <3>2. Lost' = (IF Early' THEN 0 ELSE 1)
                    + (IF now = 0 THEN 0 ELSE IF Early' THEN 1 ELSE FirstCountBy)
      BY <1>l, <2>2
    <3>3. CASE now = 0 /\ s_last_tick_s > 0
      <4>1. Early /\ clock = 1 /\ ~Early'
        BY <1>1, <1>e, <3>3
      <4> QED BY <3>1, <3>2, <3>3, <4>1
    <3>4. CASE now > 0 \/ s_last_tick_s = 0
      BY <1>1, <1>e, <3>1, <3>2, <3>4
    <3> QED BY <1>1, <3>3, <3>4
  <2> QED BY <1>1, <2>1, <2>2
<1>5. ASSUME s_last_tick_s = 0, s_state.on PROVE Lost + now <= Lost'
  <2>1. ranEarly /\ ranEarly' /\ now <= FirstCountBy
    BY <1>1, <1>5, EarlyTimes DEF RunInv, TickBounds
  <2>2. Lost = IF Early THEN 0 ELSE 1
    BY <1>5, <2>1 DEF Lost
  <2>3. Lost' = (IF Early' THEN 0 ELSE 1)
                  + (IF now = 0 THEN 0 ELSE IF Early' THEN 1 ELSE FirstCountBy)
    BY <1>l, <2>1
  <2>4. Early' => now <= 1
    BY <1>1, <1>e
  <2> QED BY <1>e, <2>1, <2>2, <2>3, <2>4
<1> QED BY <1>3, <1>4, <1>5

\* A count takes the difference of the lags over to the error, whatever it decides.
LEMMA CountedRun ==
  ASSUME TypeOK, TypeOK', TInv, IdleInv', RunInv, UNCHANGED clock,
         NEW now \in Nat, now <= clock, clock <= now + 1,
         now = 0 => Early, Early' => Early, now = 0 /\ clock = 1 => ~Early',
         now = 0 => s_heartbeat_s' = 0,
         count_runtime_locked(now)
  PROVE  RunInv'
<1> DEFINE seconds == SecondsCounted(now)
           starts  == StartsCounted
           counted == s_last_tick_s > 0
<1>1. /\ s_state.on \in BOOLEAN /\ s_state'.on \in BOOLEAN /\ clock \in Nat
      /\ s_last_tick_s \in Nat /\ onTime \in Nat /\ sinceCount \in Nat /\ started \in Nat
      /\ s_runtime_boot_s \in Int /\ ranEarly \in BOOLEAN
  BY DEF TypeOK, CtlState, RunInv, RunTypes
<1>2. /\ s_runtime_boot_s' = (s_runtime_boot_s + seconds) % UINT32_MOD
      /\ s_last_tick_s' = now /\ sinceCount' = 0 /\ started' = started + starts
      /\ onTime' = onTime + sinceCount
      /\ ranEarly' = (ranEarly \/ (relay' /\ clock <= 1))
  BY DEF count_runtime_locked, LastTick
<1>3. /\ seconds = (IF s_state.on /\ counted THEN now - s_last_tick_s ELSE 0)
      /\ starts = (IF ~s_state.on /\ s_state'.on THEN 1 ELSE 0)
  BY DEF SecondsCounted, StartsCounted
<1> HIDE DEF seconds, starts, counted
<1>4. seconds \in Int /\ starts \in Nat
  BY <1>1, <1>3
<1>5. RunTypes'
  <2>1. ranEarly' \in BOOLEAN
    BY <1>2
  <2> QED BY <1>1, <1>2, <1>4, <2>1, Turns DEF RunTypes
<1>6. Lag' = clock - now /\ Lag' \in {0, 1}
  BY <1>1, <1>2 DEF Lag
<1>7. s_state'.on => started' > 0
  BY <1>1, <1>2, <1>3 DEF RunInv
<1>t. TickBounds'
  <2>1. relay' = s_state'.on
    BY DEF IdleInv
  <2>2. now = 0 => clock <= 1
    BY <1>1
  <2>3. now = 0 /\ s_state'.on => ranEarly'
    BY <1>2, <2>1, <2>2
  <2> QED BY <1>1, <1>2, <2>3 DEF TickBounds
<1>8. PICK e \in Int, k \in Int :
        s_runtime_boot_s = onTime + e + k * UINT32_MOD /\ ErrorBounds(e)
  BY DEF RunInv
<1>f. PICK f \in Int : f = e + onTime - onTime' + seconds
  <2>1. onTime' \in Nat
    BY <1>5 DEF RunTypes
  <2>2. e + onTime - onTime' + seconds \in Int
    BY <1>1, <1>4, <1>8, <2>1
  <2> QED BY <2>2
<1>9. /\ ~s_state.on => f = e
      /\ s_state.on => f + Lag' = IF counted THEN e + Lag ELSE e + Lag - now
  <2>1. CASE s_state.on
    <3>1. f = e - sinceCount + seconds
      BY <1>1, <1>2, <1>4, <1>8, <1>f
    <3> QED BY <1>1, <1>3, <1>6, <1>8, <2>1, <3>1 DEF Lag, counted
  <2>2. CASE ~s_state.on
    <3>1. seconds = 0 /\ onTime' = onTime
      BY <1>1, <1>2, <1>3, <2>2 DEF RunInv
    <3> QED BY <1>1, <1>8, <1>f, <2>2, <3>1
  <2> QED BY <2>1, <2>2
<1>10. PICK q \in Int : s_runtime_boot_s' = s_runtime_boot_s + seconds + q * UINT32_MOD
  BY <1>1, <1>2, <1>4, Turns
<1>11. s_runtime_boot_s' = onTime' + f + (k + q) * UINT32_MOD
  <2>1. onTime' \in Nat
    BY <1>5 DEF RunTypes
  <2>2. /\ k * UINT32_MOD \in Int /\ q * UINT32_MOD \in Int
        /\ (k + q) * UINT32_MOD = k * UINT32_MOD + q * UINT32_MOD
    BY TurnsAdd
  <2> QED BY <1>1, <1>4, <1>8, <1>f, <1>10, <2>1, <2>2
<1>12. /\ Lost \in Nat /\ Lost' \in Nat /\ Lost <= Lost'
       /\ s_state.on /\ ~counted => Lost + now <= Lost'
       /\ s_state.on => Lag \in {0, 1} /\ started > 0
  <2>1. s_last_tick_s' = now /\ ranEarly' \in BOOLEAN /\ (ranEarly => ranEarly')
    BY <1>2
  <2>2. ~counted => s_last_tick_s = 0
    BY <1>1 DEF counted
  <2> QED BY <2>1, <2>2, LostGrows DEF RunInv
<1>13. ErrorBounds(f)'
  <2>1. CASE s_state.on
    <3>1. -(started - 1 + Lost) <= e + Lag /\ e + Lag <= started
      BY <1>8, <2>1 DEF ErrorBounds
    <3>2. PICK x \in Int : x = e + Lag
      <4>1. Lag \in Int /\ e \in Int
        BY <1>8, <1>12, <2>1
      <4> QED BY <4>1
    <3>3. PICK y \in Int : y = f + Lag'
      BY <1>6, <1>f
    <3>4. -(started - 1 + Lost') <= y /\ y <= started
      <4>1. -(started - 1 + Lost) <= x /\ x <= started
        BY <3>1, <3>2
      <4>2. CASE counted
        <5>1. y = x
          BY <1>9, <2>1, <3>2, <3>3, <4>2
        <5>2. started - 1 \in Int /\ Lost \in Int /\ Lost' \in Int /\ Lost <= Lost'
          BY <1>1, <1>12
        <5>3. -(started - 1 + Lost') <= x
          BY <4>1, <5>2, Wider
        <5> QED BY <4>1, <5>1, <5>3
      <4>3. CASE ~counted
        <5>1. y = x - now
          <6>1. Lag \in Int /\ e \in Int
            BY <1>8, <1>12, <2>1
          <6>2. f + Lag' = e + Lag - now
            BY <1>9, <2>1, <4>3
          <6> QED BY <3>2, <3>3, <6>1, <6>2
        <5>2. /\ started - 1 \in Int /\ Lost + now \in Int /\ Lost' \in Int
              /\ Lost + now <= Lost' /\ Lost \in Int /\ started \in Int
          BY <1>1, <1>12, <2>1, <4>3
        <5>3. -(started - 1 + (Lost + now)) <= y /\ y <= x
          BY <4>1, <5>1, <5>2
        <5>4. -(started - 1 + Lost') <= y
          BY <5>2, <5>3, Wider
        <5>5. y <= started
          BY <4>1, <5>2, <5>3
        <5> QED BY <5>4, <5>5
      <4> QED BY <4>2, <4>3
    <3>5. started' = started
      BY <1>1, <1>2, <1>3, <2>1
    <3>6. ~s_state'.on => -(started + Lost') <= f /\ f <= started
      BY <1>1, <1>6, <1>f, <1>12, <3>3, <3>4
    <3> QED BY <3>3, <3>4, <3>5, <3>6 DEF ErrorBounds
  <2>2. CASE ~s_state.on
    <3>1. -(started + Lost) <= e /\ e <= started /\ f = e
      BY <1>8, <1>9, <2>2 DEF ErrorBounds
    <3>2. -(started + Lost') <= f /\ f <= started
      BY <1>1, <1>8, <1>f, <1>12, <3>1
    <3>3. started' = IF s_state'.on THEN started + 1 ELSE started
      BY <1>1, <1>2, <1>3, <2>2
    <3>4. PICK y \in Int : y = f + Lag'
      BY <1>6, <1>f
    <3>5. s_state'.on => -(started' - 1 + Lost') <= y /\ y <= started'
      BY <1>1, <1>6, <1>f, <1>12, <3>2, <3>3, <3>4
    <3> QED BY <3>2, <3>3, <3>4, <3>5 DEF ErrorBounds
  <2> QED BY <2>1, <2>2
<1>14. \E e2 \in Int, k2 \in Int :
         s_runtime_boot_s' = onTime' + e2 + k2 * UINT32_MOD /\ ErrorBounds(e2)'
  <2>1. k + q \in Int
    OBVIOUS
  <2> QED BY <1>f, <1>11, <1>13, <2>1
<1> QED BY <1>2, <1>5, <1>6, <1>7, <1>t, <1>14 DEF RunInv

\* A step that counts nothing leaves the error, and the lag of a running pump, alone.
LEMMA UncountedRun ==
  ASSUME TypeOK, TypeOK', TInv, RunInv,
         UNCHANGED <<counters, onTime, started, ranEarly, s_heartbeat_s>>,
         s_state'.on = s_state.on, clock <= clock',
         Early' => Early, s_state.on => Lag' = Lag,
         sinceCount' \in Nat, ~s_state.on => sinceCount' = 0
  PROVE  RunInv'
<1>1. /\ UNCHANGED <<s_runtime_boot_s, s_last_tick_s, onTime, started, ranEarly>>
      /\ started \in Nat /\ started' = started /\ s_last_tick_s' = s_last_tick_s
      /\ s_last_tick_s \in Nat /\ ranEarly \in BOOLEAN
  BY DEF counters, RunInv, RunTypes
<1>2. RunTypes'
  BY <1>1 DEF RunInv, RunTypes
<1>t. TickBounds'
  BY <1>1, Numbers DEF TypeOK, RunInv, TickBounds
<1>3. PICK e \in Int, k \in Int :
        s_runtime_boot_s = onTime + e + k * UINT32_MOD /\ ErrorBounds(e)
  BY DEF RunInv
<1>4. Lost \in Nat /\ Lost' \in Nat /\ Lost <= Lost'
  <2>1. FirstCountBy' = FirstCountBy /\ Early' \in BOOLEAN
    BY DEF FirstCountBy, Early
  <2>2. Early \in BOOLEAN /\ FirstCountBy \in Nat /\ FirstCountBy >= 1
    BY EarlyTimes
  <2> HIDE DEF Early, FirstCountBy
  <2>3. Lost' = IF ~ranEarly THEN 0
                ELSE (IF Early' THEN 0 ELSE 1)
                       + (IF s_last_tick_s = 0 THEN 0
                          ELSE IF Early' THEN 1 ELSE FirstCountBy)
    BY <1>1, <2>1 DEF Lost
  <2>4. CASE ~ranEarly
    <3>1. Lost = 0 /\ Lost' = 0
      BY <2>3, <2>4 DEF Lost
    <3> QED BY <3>1
  <2>5. CASE ranEarly
    <3>1. Lost = (IF Early THEN 0 ELSE 1)
                   + (IF s_last_tick_s = 0 THEN 0 ELSE IF Early THEN 1 ELSE FirstCountBy)
      BY <2>5 DEF Lost
    <3> QED BY <2>1, <2>2, <2>3, <2>5, <3>1
  <2> QED BY <1>1, <2>4, <2>5
<1>5. ErrorBounds(e)'
  <2>1. ASSUME ~s_state'.on
        PROVE  -(started' + Lost') <= e /\ e <= started'
    <3>1. -(started + Lost) <= e /\ e <= started
      BY <1>3, <2>1 DEF ErrorBounds
    <3>2. started \in Int /\ Lost \in Int /\ Lost' \in Int /\ Lost <= Lost'
      BY <1>1, <1>4
    <3>3. -(started + Lost') <= e
      BY <3>1, <3>2, Wider
    <3> QED BY <1>1, <3>1, <3>3
  <2>2. ASSUME s_state'.on
        PROVE  -(started' - 1 + Lost') <= e + Lag' /\ e + Lag' <= started'
    <3>1. Lag' = Lag /\ Lag \in {0, 1} /\ e \in Int
      BY <1>3, <2>2 DEF RunInv
    <3>2. -(started - 1 + Lost) <= e + Lag /\ e + Lag <= started
      BY <1>3, <2>2 DEF ErrorBounds
    <3>3. PICK x \in Int : x = e + Lag
      BY <3>1
    <3>4. -(started' - 1 + Lost') <= x /\ x <= started'
      BY <1>1, <1>4, <3>2, <3>3
    <3> QED BY <3>1, <3>3, <3>4
  <2> QED BY <2>1, <2>2 DEF ErrorBounds
<1>6. s_state'.on => Lag' \in {0, 1} /\ started' > 0
  BY <1>1 DEF RunInv
<1>7. ~s_state'.on => sinceCount' = 0
  OBVIOUS
<1>8. s_runtime_boot_s' = onTime' + e + k * UINT32_MOD
  BY <1>1, <1>3
<1> QED BY <1>2, <1>t, <1>3, <1>5, <1>6, <1>7, <1>8 DEF RunInv

\* A boot has no error.
LEMMA BootRun ==
  ASSUME clock = 0, s_state = ctl_init(0), s_last_tick_s = 0, s_runtime_boot_s = 0,
         onTime = 0, sinceCount = 0, started = 0, ranEarly = FALSE, s_heartbeat_s = 0
  PROVE  RunInv
<1>1. ~s_state.on
  BY BootIdle
<1>2. Lost = 0
  BY DEF Lost
<1>3. ErrorBounds(0)
  BY <1>1, <1>2 DEF ErrorBounds
<1>4. RunTypes /\ TickBounds
  <2>1. RunTypes
    <3>1. s_runtime_boot_s \in 0 .. UINT32_MOD - 1
      BY RuntimeAssumption
    <3>2. ranEarly \in BOOLEAN
      OBVIOUS
    <3> QED BY <3>1, <3>2 DEF RunTypes
  <2>2. TickBounds
    BY <1>1 DEF TickBounds
  <2> QED BY <2>1, <2>2
<1>5. 0 = 0 + 0 + 0 * UINT32_MOD
  BY RuntimeAssumption
<1>6. \E e \in Int, k \in Int :
        s_runtime_boot_s = onTime + e + k * UINT32_MOD /\ ErrorBounds(e)
  BY <1>3, <1>5
<1> QED BY <1>1, <1>4, <1>6 DEF RunInv

\* Every step keeps the bounds of the error: the sample of a count is at most a second
\* behind the clock, and the samples of a running pump are its own.
LEMMA NextRunInv ==
  ASSUME TypeOK, TypeOK', TInv, IdleInv, IdleInv', RunInv, [RNext]_rvars
  PROVE  RunInv'
<1>1. CASE DecideCounted
  <2>1. /\ pc = "deciding" /\ pc' = "finishing" /\ UNCHANGED clock
        /\ s_heartbeat_s' = now_s /\ count_runtime_locked(now_s)
    BY <1>1 DEF DecideCounted, Decide
  <2>2. now_s \in Nat /\ clock \in Nat /\ due \in Nat
    BY DEF TypeOK
  <2>3. now_s <= clock /\ clock <= now_s + 1
    <3>1. now_s <= clock /\ clock <= due /\ due <= now_s + 1
      BY <2>1 DEF TInv, PassBounds
    <3> QED BY <2>2, <3>1
  <2>4. /\ now_s = 0 => Early
        /\ Early' => Early
        /\ now_s = 0 /\ clock = 1 => ~Early'
    BY <2>1 DEF Early
  <2> QED BY <2>1, <2>2, <2>3, <2>4, CountedRun
<1>2. ASSUME NEW m \in Manual, NEW d \in Durations, ManualCounted(m, d) PROVE RunInv'
  <2>1. UNCHANGED <<clock, taskVars, s_heartbeat_s>> /\ count_runtime_locked(clock)
    BY <1>2 DEF ManualCounted, pump_command, control_manual
  <2>2. clock \in Nat /\ clock <= clock /\ clock <= clock + 1
    BY DEF TypeOK
  <2>h. clock = 0 => s_heartbeat_s' = 0
    BY <2>1, Numbers DEF TInv, PassBounds
  <2>3. /\ clock = 0 => Early
        /\ Early' => Early
        /\ clock = 0 /\ clock = 1 => ~Early'
    BY <2>1 DEF Early, taskVars
  <2> QED BY <2>1, <2>2, <2>h, <2>3, CountedRun
<1>3. CASE TickCounted
  <2>1. /\ UNCHANGED <<counters, onTime, started, ranEarly, s_heartbeat_s, s_state, pc, now_s>>
        /\ clock' = clock + 1 /\ sinceCount' = IF relay THEN sinceCount + 1 ELSE sinceCount
    BY <1>3 DEF TickCounted, Tick, taskVars
  <2>2. clock \in Nat /\ sinceCount \in Nat /\ s_last_tick_s \in Nat
    BY DEF TypeOK, RunInv, RunTypes
  <2>3. Early' => Early
    BY <2>1, <2>2 DEF Early
  <2>4. relay = s_state.on
    BY DEF IdleInv
  <2>5. s_state.on => Lag' = Lag
    BY <2>1, <2>2, <2>4 DEF Lag, counters
  <2>6. sinceCount' \in Nat /\ (~s_state.on => sinceCount' = 0)
    BY <2>1, <2>2, <2>4 DEF RunInv
  <2>7. s_state'.on = s_state.on /\ clock <= clock'
    BY <2>1, <2>2
  <2> QED BY <2>1, <2>3, <2>5, <2>6, <2>7, UncountedRun
<1>4. CASE Uncounted \/ NewDay \/ UNCHANGED rvars
  <2>1. UNCHANGED <<counters, history, clock, s_heartbeat_s>>
    BY <1>4 DEF Uncounted, NewDay, rvars, vars, BeginPass, ReadSensor, TakeReading, EndPass,
                settings_set, NotifyTask, Hang
  <2>2. /\ UNCHANGED <<onTime, started, ranEarly, sinceCount, s_last_tick_s>>
        /\ clock' = clock /\ clock \in Nat /\ clock <= clock'
    BY <2>1 DEF history, counters, TypeOK
  <2>3. s_state'.on = s_state.on
    <3>1. CASE TakeReading
      BY <3>1 DEF TakeReading, ctl_sensor, TypeOK, CtlState
    <3>2. CASE ~TakeReading
      BY <1>4, <3>2 DEF Uncounted, NewDay, rvars, vars, BeginPass, ReadSensor, EndPass,
                        settings_set, NotifyTask, Hang
    <3> QED BY <3>1, <3>2
  <2>4. Early' => Early
    BY <1>4 DEF Early, Uncounted, NewDay, rvars, vars, taskVars, BeginPass, ReadSensor,
                TakeReading, EndPass, settings_set, NotifyTask, Hang
  <2>5. Lag' = Lag
    BY <2>1, <2>2 DEF Lag
  <2>6. sinceCount' \in Nat /\ (~s_state.on => sinceCount' = 0)
    BY <2>2 DEF RunInv, RunTypes
  <2> QED BY <2>1, <2>2, <2>3, <2>4, <2>5, <2>6, UncountedRun
<1>5. CASE (WatchdogReset \/ PowerCycle) /\ ClearCounters
  <2>1. clock' = 0 /\ s_state' = ctl_init(0) /\ s_heartbeat_s' = 0
    BY <1>5 DEF WatchdogReset, PowerCycle, Reboot
  <2>2. /\ s_last_tick_s' = 0 /\ s_runtime_boot_s' = 0 /\ onTime' = 0 /\ sinceCount' = 0
        /\ started' = 0 /\ ranEarly' = FALSE
    BY <1>5 DEF ClearCounters
  <2>3. (clock = 0 /\ s_state = ctl_init(0) /\ s_last_tick_s = 0 /\ s_runtime_boot_s = 0
           /\ onTime = 0 /\ sinceCount = 0 /\ started = 0 /\ ranEarly = FALSE
           /\ s_heartbeat_s = 0 => RunInv)'
    BY BootRun, PTL
  <2> QED BY <2>1, <2>2, <2>3
<1> QED BY <1>1, <1>2, <1>3, <1>4, <1>5 DEF RNext

\* However the samples of the two tasks are ordered, the run time is the time the relay was
\* on to a second for each run, up to turns of the counter, for every length of the runs;
\* only a pump that ran in the first second of the boot loses BootLoss more, once.
THEOREM RunTimeIsRelayTime == RSpec => []RuntimeTracksRelay
<1>1. RInit => RunInv
  BY BootRun DEF RInit, Init
<1>2. TypeOK /\ TypeOK' /\ TInv /\ IdleInv /\ IdleInv' /\ RunInv /\ [RNext]_rvars
        => RunInv'
  BY NextRunInv
<1>3. TypeOK /\ TInv /\ RunInv => RuntimeTracksRelay
  <2> SUFFICES ASSUME TypeOK, TInv, RunInv PROVE RuntimeTracksRelay
    OBVIOUS
  <2> DEFINE loss == IF ranEarly THEN BootLoss ELSE 0
  <2>1. /\ started \in Nat /\ onTime \in Nat /\ s_runtime_boot_s \in 0 .. UINT32_MOD - 1
        /\ s_state.on \in BOOLEAN /\ s_last_tick_s \in Nat /\ ranEarly \in BOOLEAN
    BY DEF TypeOK, CtlState, RunInv, RunTypes
  <2>2. PICK e \in Int, k \in Int :
          s_runtime_boot_s = onTime + e + k * UINT32_MOD /\ ErrorBounds(e)
    BY DEF RunInv
  <2>3. Lost \in Nat /\ Lost <= loss /\ loss \in Nat
    BY <2>1, EarlyTimes, WatchdogAssumption, ControlAssumption
       DEF Lost, BootLoss, FirstCountBy
  <2>4. -(started + Lost) <= e /\ e <= started
    BY <2>1, <2>2, <2>3 DEF ErrorBounds, RunInv
  <2>5. e \in -(started + loss) .. started
    <3> HIDE DEF loss
    <3> QED BY <2>1, <2>2, <2>3, <2>4
  <2>6. s_runtime_boot_s = (onTime + e) % UINT32_MOD
    BY <2>1, <2>2, TurnsMake
  <2> QED BY <2>5, <2>6 DEF RuntimeTracksRelay
<1> QED BY <1>1, <1>2, <1>3, CountersOnlyCount, SpecIdleInv, PTL DEF RSpec

-----------------------------------------------------------------------------
(***************************************************************************)
(* The pump that the two tasks implement                                   *)
(***************************************************************************)

\* A pass that has news of the overheat has them from a sensor that lives.
NewsOfLiving ==
  pc = "deciding" /\ (r.overheat_started \/ r.overheat_ended) => ~s_state.sensor_failed

\* Only a good reading changes the overheat, and it ends the fail-safe.
LEMMA NextNews == TypeOK /\ NewsOfLiving /\ [Next]_vars => NewsOfLiving'
<1> SUFFICES ASSUME TypeOK, NewsOfLiving, [Next]_vars PROVE NewsOfLiving'
  OBVIOUS
<1>1. CASE TakeReading
  <2>1. /\ s_state \in CtlState
        /\ r'.overheat_started = (~s_state.overheat /\ s_state'.overheat)
        /\ r'.overheat_ended = (s_state.overheat /\ ~s_state'.overheat)
    BY <1>1 DEF TakeReading, SensorResult, TypeOK
  <2>2. CASE read /\ reading.valid
    <3>1. ~s_state'.sensor_failed
      BY <1>1, <2>1, <2>2 DEF TakeReading, ctl_sensor, CtlState
    <3> QED BY <3>1 DEF NewsOfLiving
  <2>3. CASE ~(read /\ reading.valid)
    <3>1. s_state'.overheat = s_state.overheat
      BY <1>1, <2>1, <2>3 DEF TakeReading, ctl_sensor, CtlState
    <3>2. s_state.overheat \in BOOLEAN
      BY <2>1 DEF CtlState
    <3> QED BY <2>1, <3>1, <3>2 DEF NewsOfLiving
  <2> QED BY <2>2, <2>3
<1>2. CASE \/ BeginPass \/ (\E rd \in Readings : ReadSensor(rd)) \/ Decide \/ EndPass
           \/ Hang \/ WatchdogReset \/ PowerCycle
  <2>1. pc' # "deciding"
    BY <1>2 DEF BeginPass, ReadSensor, Decide, EndPass, Hang, WatchdogReset, PowerCycle, Reboot
  <2> QED BY <2>1 DEF NewsOfLiving
<1>3. ASSUME NEW m \in Manual, NEW d \in Durations, pump_command(m, d) PROVE NewsOfLiving'
  <2>1. pc' = pc /\ pc # "deciding"
    BY <1>3 DEF pump_command, control_manual, taskVars, TypeOK
  <2> QED BY <2>1 DEF NewsOfLiving
<1>4. CASE \/ NotifyTask \/ (\E c \in SettingsValues : settings_set(c)) \/ Tick
           \/ UNCHANGED vars
  <2>1. UNCHANGED <<pc, r, s_state>>
    BY <1>4 DEF NotifyTask, settings_set, Tick, vars, taskVars
  <2> QED BY <2>1 DEF NewsOfLiving
<1> QED BY <1>1, <1>2, <1>3, <1>4 DEF Next, ControlTask, HttpTask

\* Outside the lock the pump obeys.
LEMMA ObeysUnlocked ==
  ASSUME TypeOK, IInv, pc # "deciding"
  PROVE  Promise!Obeys
<1>1. s_lock = "free"
  BY DEF TypeOK
<1>2. reported.overheat = s_state.overheat /\ reported.sensor = s_state.sensor_failed
  BY DEF IInv, LogComplete
<1>3. /\ relay = (s_state.reason \in OnReason)
      /\ s_state.reason = ReasonFor(s_state.overheat, s_state.manual,
                                    s_state.sensor_failed, s_state.hot, s_state.maintenance)
  BY <1>1 DEF IInv, DecisionIsCurrent
<1>4. s_state.overheat => s_state.manual # "stop"
  BY <1>1 DEF IInv
<1> QED BY <1>2, <1>3, <1>4 DEF Promise!Obeys, ReasonFor, OnReason

\* A pass of the task is one of the pump.
LEMMA DecideIsPass ==
  ASSUME TypeOK, TypeOK', IInv, IInv', TInv, NewsOfLiving, Decide
  PROVE  Promise!Pass
<1>1. /\ pc = "deciding" /\ pc' = "finishing" /\ UNCHANGED clock
      /\ decide_locked(s_state, now_s, r, "control")
  BY DEF Decide
<1>2. /\ s_state \in CtlState /\ s_settings \in CtlConfig /\ now_s \in Nat /\ clock \in Nat
      /\ due \in Nat /\ r \in SensorResults
      /\ s_state.manual_until_s \in Int /\ s_state.overheat \in BOOLEAN
  BY SettingsAreConfig DEF TypeOK, CtlState
<1>3. now_s <= clock /\ clock <= now_s + 1
  <2>1. now_s <= clock /\ clock <= due /\ due <= now_s + 1
    BY <1>1 DEF TInv, PassBounds
  <2> QED BY <1>2, <2>1
<1>4. Promise!Obeys'
  <2>1. (TypeOK /\ IInv /\ pc # "deciding" => Promise!Obeys)'
    BY ObeysUnlocked, PTL
  <2> QED BY <1>1, <2>1
<1>5. /\ reported'.overheat \in BOOLEAN /\ reported'.sensor \in BOOLEAN /\ relay' \in BOOLEAN
  BY DEF TypeOK
<1>6. /\ s_state'.overheat = s_state.overheat /\ s_state'.sensor_failed = s_state.sensor_failed
      /\ s_state'.manual = ManualAfter(s_state, now_s)
      /\ s_state'.manual_until_s = s_state.manual_until_s
  BY <1>1, <1>2 DEF decide_locked, ctl_decide, CtlState
<1>7. reported'.overheat = s_state.overheat /\ reported'.sensor = s_state.sensor_failed
  BY <1>1, <1>6 DEF IInv, LogComplete
<1>8. reported'.overheat # reported.overheat => ~reported'.sensor
  <2>1. ~(r.overheat_started \/ r.overheat_ended) => reported.overheat = s_state.overheat
    BY DEF IInv, LogComplete
  <2> QED BY <1>1, <1>7, <2>1 DEF NewsOfLiving
<1>9. \/ /\ s_state'.manual = s_state.manual
         /\ s_state.manual = "none" \/ clock <= s_state.manual_until_s
      \/ /\ s_state'.manual = "none"
         /\ clock >= s_state.manual_until_s \/ (s_state.manual = "stop" /\ reported'.overheat)
  <2>1. CASE ManualExpired(s_state, now_s)
    <3>1. clock >= s_state.manual_until_s
      BY <1>2, <1>3, <2>1 DEF ManualExpired
    <3> QED BY <1>6, <2>1, <3>1 DEF ManualAfter
  <2>2. CASE ~ManualExpired(s_state, now_s) /\ ManualCancelled(s_state, now_s)
    BY <1>6, <1>7, <2>2 DEF ManualAfter, ManualCancelled
  <2>3. CASE ~ManualExpired(s_state, now_s) /\ ~ManualCancelled(s_state, now_s)
    <3>1. s_state.manual = "none" \/ clock <= s_state.manual_until_s
      BY <1>2, <1>3, <2>3 DEF ManualExpired
    <3> QED BY <1>6, <2>3, <3>1 DEF ManualAfter
  <2> QED BY <2>1, <2>2, <2>3
<1>10. (pc' = "hung") = (pc = "hung") /\ pc # "hung"
  BY <1>1
<1> QED BY <1>1, <1>4, <1>5, <1>6, <1>8, <1>9, <1>10 DEF Promise!Pass

\* A request is a command of the pump, whatever duration it asks for.
LEMMA RequestIsCommand ==
  ASSUME TypeOK, TypeOK', IInv, IInv', NEW m \in Manual, NEW d \in Durations,
         pump_command(m, d)
  PROVE  Promise!Command
<1> DEFINE length == ClampDuration(RequestedDuration(m, d))
           before == ctl_manual(s_state, m, length, clock)
<1>1. /\ s_lock = "free" /\ pc # "deciding" /\ pc' = pc /\ UNCHANGED clock
      /\ ~ManualRefused(s_state, m)
      /\ decide_locked(before, clock, NoSensorResult, "http")
  BY DEF pump_command, control_manual, taskVars, TypeOK
<1>2. /\ s_state \in CtlState /\ s_settings \in CtlConfig /\ clock \in Nat
  BY SettingsAreConfig DEF TypeOK
<1>3. length \in MANUAL_MIN_S .. MANUAL_MAX_S /\ length > 0 /\ length \in Int
  BY ControlAssumption DEF ClampDuration, RequestedDuration
<1>4. /\ before \in CtlState /\ before.manual = m /\ before.overheat = s_state.overheat
      /\ before.sensor_failed = s_state.sensor_failed
      /\ before.manual_until_s = IF m = "none" THEN 0 ELSE clock + length
  <2>1. before \in CtlState
    BY <1>2, <1>3, ManualType
  <2> HIDE DEF length
  <2> QED BY <1>2, <2>1 DEF ctl_manual, CtlState
<1> HIDE DEF before
<1>5. /\ s_state'.overheat = before.overheat /\ s_state'.sensor_failed = before.sensor_failed
      /\ s_state'.manual = ManualAfter(before, clock)
      /\ s_state'.manual_until_s = before.manual_until_s
  BY <1>1, <1>2, <1>4 DEF decide_locked, ctl_decide, CtlState
<1> HIDE DEF length
<1>6. ~ManualExpired(before, clock) /\ ~ManualCancelled(before, clock)
  <2>1. m # "none" => ~(clock >= clock + length)
    BY <1>2, <1>3
  <2> QED BY <1>1, <1>4, <2>1 DEF ManualExpired, ManualCancelled, ManualRefused
<1>7. s_state'.manual = m
  BY <1>4, <1>5, <1>6 DEF ManualAfter
<1>8. /\ reported.overheat = s_state.overheat /\ reported.sensor = s_state.sensor_failed
      /\ reported'.overheat = s_state'.overheat /\ reported'.sensor = s_state'.sensor_failed
  BY <1>1 DEF IInv, LogComplete
<1>9. IF m = "none" THEN s_state'.manual_until_s = 0
      ELSE s_state'.manual_until_s \in clock + MANUAL_MIN_S .. clock + MANUAL_MAX_S
  BY <1>2, <1>3, <1>4, <1>5, ControlAssumption
<1>10. Promise!Obeys'
  <2>1. (TypeOK /\ IInv /\ pc # "deciding" => Promise!Obeys)'
    BY ObeysUnlocked, PTL
  <2> QED BY <1>1, <2>1
<1>11. relay' \in BOOLEAN /\ m \in {"none", "start", "stop"}
  BY DEF TypeOK, Manual
<1>12. m = "stop" => ~reported.overheat
  BY <1>1, <1>8 DEF ManualRefused
<1> QED BY <1>1, <1>4, <1>5, <1>7, <1>8, <1>9, <1>10, <1>11, <1>12 DEF Promise!Command

\* A boot is at rest.
LEMMA BootRests ==
  ASSUME clock = 0, s_state = ctl_init(0), relay = FALSE, pc = "sleep",
         reported = NothingReported
  PROVE  Promise!Rest
<1>1. s_state.manual = "none" /\ s_state.manual_until_s = 0
  BY DEF ctl_init
<1>2. reported.overheat = FALSE /\ reported.sensor = FALSE /\ (pc = "hung") = FALSE
  BY DEF NothingReported
<1> QED BY <1>1, <1>2 DEF Promise!Rest

\* Each step of the two tasks, of the clock and of the reset is one of the pump or none.
LEMMA PumpStep ==
  ASSUME TypeOK, TypeOK', IInv, IInv', TInv, TInv', NewsOfLiving, [Next]_vars
  PROVE  [Promise!PumpNext]_(Promise!pumpVars)
<1>1. CASE Decide
  BY <1>1, DecideIsPass DEF Promise!PumpNext
<1>2. ASSUME NEW m \in Manual, NEW d \in Durations, pump_command(m, d)
      PROVE  Promise!PumpNext
  BY <1>2, RequestIsCommand DEF Promise!PumpNext
<1>3. CASE Tick
  <2>1. /\ clock' = clock + 1 /\ UNCHANGED <<s_state, relay, pc, reported>>
    BY <1>3 DEF Tick, taskVars
  <2>2. pc = "hung" \/ s_state.manual = "none" \/ clock < s_state.manual_until_s + 4
    <3>1. (TypeOK /\ TInv => OverrideEndsOnTime)'
      BY OverrideBoundsEnd, PTL
    <3>2. pc # "hung" /\ s_state.manual # "none" => clock' <= s_state.manual_until_s + 4
      BY <2>1, <3>1 DEF OverrideEndsOnTime, Running
    <3>3. clock \in Nat /\ s_state.manual_until_s \in Int
      BY Numbers
    <3> QED BY <2>1, <3>2, <3>3
  <2>3. Promise!Tick
    BY <2>1, <2>2 DEF Promise!Tick
  <2> QED BY <2>3 DEF Promise!PumpNext
<1>4. CASE Hang
  <2>1. pc = "reading" /\ pc' = "hung" /\ UNCHANGED <<clock, s_state, relay, reported>>
    BY <1>4 DEF Hang
  <2>2. Promise!Hang
    BY <2>1 DEF Promise!Hang
  <2> QED BY <2>2 DEF Promise!PumpNext
<1>5. CASE WatchdogReset \/ PowerCycle
  <2>1. /\ clock' = 0 /\ s_state' = ctl_init(0) /\ relay' = FALSE /\ pc' = "sleep"
        /\ reported' = NothingReported
    BY <1>5 DEF WatchdogReset, PowerCycle, Reboot
  <2>2. (clock = 0 /\ s_state = ctl_init(0) /\ relay = FALSE /\ pc = "sleep"
           /\ reported = NothingReported => Promise!Rest)'
    BY BootRests, PTL
  <2> QED BY <2>1, <2>2 DEF Promise!Restart, Promise!PumpNext
<1>6. CASE TakeReading
  <2>1. /\ pc = "locking" /\ pc' = "deciding" /\ UNCHANGED <<clock, relay, reported>>
        /\ s_state \in CtlState
    BY <1>6 DEF TakeReading, TypeOK
  <2>2. s_state'.manual = s_state.manual /\ s_state'.manual_until_s = s_state.manual_until_s
    BY <1>6, <2>1 DEF TakeReading, ctl_sensor, CtlState
  <2> QED BY <2>1, <2>2 DEF Promise!pumpVars
<1>7. CASE BeginPass \/ (\E rd \in Readings : ReadSensor(rd)) \/ EndPass
  <2>1. UNCHANGED <<clock, relay, reported, s_state>> /\ pc # "hung" /\ pc' # "hung"
    BY <1>7 DEF BeginPass, ReadSensor, EndPass
  <2>2. (pc' = "hung") = (pc = "hung")
    BY <2>1
  <2> QED BY <2>1, <2>2 DEF Promise!pumpVars
<1>8. CASE NotifyTask \/ (\E c \in SettingsValues : settings_set(c)) \/ UNCHANGED vars
  <2>1. UNCHANGED <<clock, relay, reported, s_state, pc>>
    BY <1>8 DEF NotifyTask, settings_set, vars, taskVars
  <2> QED BY <2>1 DEF Promise!pumpVars
<1> QED
  BY <1>1, <1>2, <1>3, <1>4, <1>5, <1>6, <1>7, <1>8 DEF Next, ControlTask, HttpTask

\* Every behaviour of the two tasks, for every interleaving, reading, duration and reset,
\* is one of the pump that control.h promises.
THEOREM ControlIsPump == Spec => ImplementsPump
<1>1. Init => Promise!Rest
  BY BootRests DEF Init
<1>2. Init => NewsOfLiving
  BY DEF Init, NewsOfLiving
<1>3. TypeOK /\ NewsOfLiving /\ [Next]_vars => NewsOfLiving'
  BY NextNews
<1>4. /\ TypeOK /\ TypeOK' /\ IInv /\ IInv' /\ TInv /\ TInv' /\ NewsOfLiving
      /\ [Next]_vars
      => [Promise!PumpNext]_(Promise!pumpVars)
  BY PumpStep
<1> QED
  BY <1>1, <1>2, <1>3, <1>4, SpecTInv, PTL DEF Spec, ImplementsPump, Promise!PumpSpec

\* It stays so with the counters of the run time.
THEOREM CountedControlIsPump == RSpec => ImplementsPump
BY ControlIsPump, CountersOnlyCount, PTL
=============================================================================
