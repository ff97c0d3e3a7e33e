----------------------------- MODULE LogicProofs ----------------------------
(***************************************************************************)
(* Lemmas about the operators of control_logic.c, for every state, every   *)
(* configuration and every reading.                                        *)
(***************************************************************************)
EXTENDS ControlLogic, TLAPS

\* The initial state has its type.
LEMMA InitType == ctl_init(0) \in CtlState
BY LogicAssumption DEF ctl_init, CtlState, Reason, OnReason, OffReason, Manual

\* So has the state after a reading, good or bad: the count of bad ones saturates.
LEMMA SensorType ==
  ASSUME NEW s \in CtlState, NEW c \in CtlConfig, NEW now \in Int,
         NEW valid \in BOOLEAN, NEW temp \in Int
  PROVE  ctl_sensor(s, c, now, valid, temp) \in CtlState
<1>1. FailuresCounted(s) \in 0 .. UINT8_MAX
  BY LogicAssumption DEF CtlState, FailuresCounted
<1>2. OverheatAfter(s, c, temp) \in BOOLEAN /\ HotAfter(s, c, temp) \in BOOLEAN
  <2>1. OverheatAfter(s, c, temp) \in BOOLEAN
    <3>1. CASE s.overheat
      BY <3>1, LogicAssumption DEF OverheatAfter, CtlConfig
    <3>2. CASE ~s.overheat
      BY <3>2, LogicAssumption DEF OverheatAfter, CtlConfig
    <3> QED BY <3>1, <3>2
  <2>2. HotAfter(s, c, temp) \in BOOLEAN
    BY DEF HotAfter
  <2> QED BY <2>1, <2>2
<1>3. (s.sensor_failed \/ FailSafeReached(s)) \in BOOLEAN
  BY DEF FailSafeReached
<1>4. CASE valid
  <2>1. ctl_sensor(s, c, now, valid, temp) =
          [s EXCEPT !.sensor_failed = FALSE, !.failures = 0, !.have_temp = TRUE,
                    !.temp_x10 = temp, !.temp_s = now,
                    !.overheat = OverheatAfter(s, c, temp), !.hot = HotAfter(s, c, temp)]
    BY <1>4 DEF ctl_sensor
  <2>2. 0 \in 0 .. UINT8_MAX
    BY LogicAssumption
  <2> QED BY <1>2, <2>1, <2>2 DEF CtlState
<1>5. CASE ~valid
  <2>1. ctl_sensor(s, c, now, valid, temp) =
          [s EXCEPT !.failures = FailuresCounted(s),
                    !.sensor_failed = s.sensor_failed \/ FailSafeReached(s)]
    BY <1>5 DEF ctl_sensor
  <2> QED BY <1>1, <1>3, <2>1 DEF CtlState
<1> QED BY <1>4, <1>5

\* The state after a manual command has its type.
LEMMA ManualType ==
  ASSUME NEW s \in CtlState, NEW m \in Manual, NEW d \in Int, NEW now \in Int
  PROVE  ctl_manual(s, m, d, now) \in CtlState
<1>1. ASSUME NEW u \in Int PROVE [s EXCEPT !.manual = m, !.manual_until_s = u] \in CtlState
  BY DEF CtlState
<1>2. (IF m = "none" THEN 0 ELSE now + d) \in Int
  OBVIOUS
<1> QED BY <1>1, <1>2 DEF ctl_manual

\* What the decision takes from the state and what it makes of it.
LEMMA DecideEffect ==
  ASSUME NEW s \in CtlState, NEW c \in CtlConfig, NEW now \in Int
  PROVE  LET t == ctl_decide(s, c, now)
         IN /\ t \in CtlState
            /\ t.reason = ReasonFor(t.overheat, t.manual, t.sensor_failed, t.hot, t.maintenance)
            /\ t.on = (t.reason \in OnReason)
            /\ t.overheat = s.overheat /\ t.sensor_failed = s.sensor_failed
            /\ t.hot = s.hot /\ t.failures = s.failures
            /\ t.have_temp = s.have_temp /\ t.temp_x10 = s.temp_x10
            /\ t.manual \in {s.manual, "none"}
            /\ t.overheat => t.manual # "stop"
<1> DEFINE starts == MaintenanceStarted(s, c, now)
           runs   == starts \/ MaintenanceRunning(s, now)
           man    == ManualAfter(s, now)
           reason == ReasonFor(s.overheat, man, s.sensor_failed, s.hot, runs)
           on     == reason \in OnReason
           until  == IF starts THEN now + MAINTENANCE_RUN_S ELSE s.maintenance_until_s
<1>1. man \in {s.manual, "none"} /\ man \in Manual /\ (s.overheat => man # "stop")
  BY DEF ManualAfter, ManualCancelled, CtlState, Manual
<1>2. reason \in Reason /\ runs \in BOOLEAN /\ on \in BOOLEAN
  BY DEF ReasonFor, Reason, OnReason, OffReason, MaintenanceStarted, MaintenanceRunning
<1>3. until \in Int /\ LastOn(s, on, now) \in Int
  BY LogicAssumption DEF LastOn, CtlState
<1>4. ctl_decide(s, c, now) =
        [s EXCEPT !.on = on, !.reason = reason, !.manual = man, !.maintenance = runs,
                  !.maintenance_until_s = until, !.last_on_s = LastOn(s, on, now)]
  BY DEF ctl_decide
<1> HIDE DEF starts, runs, man, reason, on, until
<1>5. ctl_decide(s, c, now) \in CtlState
  BY <1>1, <1>2, <1>3, <1>4 DEF CtlState
<1>6. LET t == ctl_decide(s, c, now)
      IN /\ t.on = on /\ t.reason = reason /\ t.manual = man /\ t.maintenance = runs
         /\ t.overheat = s.overheat /\ t.sensor_failed = s.sensor_failed
         /\ t.hot = s.hot /\ t.failures = s.failures
         /\ t.have_temp = s.have_temp /\ t.temp_x10 = s.temp_x10
  BY <1>4 DEF CtlState
<1> QED
  BY <1>1, <1>5, <1>6 DEF on, reason

\* The decision leaves the times of the reading and of the command alone; a command that
\* stands after it has not run out.
LEMMA DecideKeepsTimes ==
  ASSUME NEW s \in CtlState, NEW c \in CtlConfig, NEW now \in Int
  PROVE  LET t == ctl_decide(s, c, now)
         IN /\ t.temp_s = s.temp_s /\ t.failures = s.failures
            /\ t.manual_until_s = s.manual_until_s
            /\ t.manual # "none" => now < t.manual_until_s
<1> DEFINE t == ctl_decide(s, c, now)
<1>1. /\ t.temp_s = s.temp_s /\ t.failures = s.failures
      /\ t.manual_until_s = s.manual_until_s
      /\ t.manual = ManualAfter(s, now)
  BY DEF ctl_decide, CtlState
<1>2. ManualAfter(s, now) # "none" => now < s.manual_until_s
  <2> SUFFICES ASSUME ManualAfter(s, now) # "none" PROVE now < s.manual_until_s
    OBVIOUS
  <2>1. s.manual # "none" /\ ~ManualExpired(s, now)
    BY DEF ManualAfter
  <2>2. s.manual_until_s \in Int
    BY DEF CtlState
  <2> QED BY <2>1, <2>2 DEF ManualExpired
<1> HIDE DEF t
<1> QED BY <1>1, <1>2 DEF t

\* What the decision makes of the idle time: it counts from the last decision with the
\* pump on, a maintenance run starts after the interval only, and cold water does not
\* stand longer.
LEMMA DecideIdle ==
  ASSUME NEW s \in CtlState, NEW c \in CtlConfig, NEW now \in Int
  PROVE  LET t == ctl_decide(s, c, now)
         IN /\ t.last_on_s = IF s.on \/ t.on THEN now ELSE s.last_on_s
            /\ t.maintenance /\ ~s.maintenance =>
                 ~s.on /\ now - s.last_on_s >= MAINTENANCE_INTERVAL_S
            /\ ~t.on /\ t.manual = "none" /\ s.have_temp /\ s.temp_x10 < c.stop_x10 =>
                 ~(now - t.last_on_s >= MAINTENANCE_INTERVAL_S)
<1> DEFINE starts == MaintenanceStarted(s, c, now)
           runs   == starts \/ MaintenanceRunning(s, now)
           man    == ManualAfter(s, now)
           reason == ReasonFor(s.overheat, man, s.sensor_failed, s.hot, runs)
           t      == ctl_decide(s, c, now)
<1>1. /\ t.on = (reason \in OnReason) /\ t.manual = man /\ t.maintenance = runs
      /\ t.last_on_s = LastOn(s, reason \in OnReason, now)
  BY DEF ctl_decide, CtlState
<1>2. runs /\ ~s.maintenance => ~s.on /\ now - s.last_on_s >= MAINTENANCE_INTERVAL_S
  BY DEF MaintenanceStarted, MaintenanceRunning
<1>3. ~(reason \in OnReason) /\ man = "none" => ~s.sensor_failed /\ ~starts /\ ~MaintenanceRunning(s, now)
  BY DEF ReasonFor, OnReason
<1>4. ~starts /\ ~MaintenanceRunning(s, now) /\ ~s.on /\ man = "none" /\ ~s.sensor_failed
      /\ s.have_temp /\ s.temp_x10 < c.stop_x10
        => ~(now - s.last_on_s >= MAINTENANCE_INTERVAL_S)
  BY DEF MaintenanceStarted
<1>5. ~(now - now >= MAINTENANCE_INTERVAL_S)
  BY LogicAssumption
<1> HIDE DEF starts, runs, man, reason, t
<1>6. t.last_on_s = IF s.on \/ t.on THEN now ELSE s.last_on_s
  BY <1>1 DEF LastOn
<1>7. t.maintenance /\ ~s.maintenance => ~s.on /\ now - s.last_on_s >= MAINTENANCE_INTERVAL_S
  BY <1>1, <1>2
<1>8. ASSUME ~t.on, t.manual = "none", s.have_temp, s.temp_x10 < c.stop_x10
      PROVE  ~(now - t.last_on_s >= MAINTENANCE_INTERVAL_S)
  <2>1. CASE s.on
    <3>1. t.last_on_s = now
      BY <1>6, <2>1
    <3> QED BY <1>5, <3>1
  <2>2. CASE ~s.on
    <3>1. t.last_on_s = s.last_on_s
      BY <1>6, <1>8, <2>2
    <3> QED BY <1>1, <1>3, <1>4, <1>8, <2>2, <3>1
  <2> QED BY <2>1, <2>2
<1> QED BY <1>6, <1>7, <1>8 DEF t

\* A counter that saturates moves, up to what the fail-safe needs, and never falls back.
LEMMA CountSaturates ==
  ASSUME NEW f \in 0 .. UINT8_MAX, NEW g, g = IF f < UINT8_MAX THEN f + 1 ELSE f
  PROVE  /\ g > 0 /\ g >= f
         /\ f < SENSOR_FAIL_READS => g = f + 1
         /\ f >= SENSOR_FAIL_READS => g >= SENSOR_FAIL_READS
<1>1. CASE f < UINT8_MAX
  BY <1>1, LogicAssumption
<1>2. CASE ~(f < UINT8_MAX)
  BY <1>2, LogicAssumption
<1> QED BY <1>1, <1>2

\* A bad reading counts one more, and the counter saturates above what the fail-safe needs.
LEMMA BadReading ==
  ASSUME NEW s \in CtlState, NEW c \in CtlConfig, NEW now \in Int, NEW temp \in Int,
         s.sensor_failed <=> s.failures >= SENSOR_FAIL_READS
  PROVE  LET t == ctl_sensor(s, c, now, FALSE, temp)
         IN /\ t \in CtlState
            /\ t.failures > 0 /\ t.failures >= s.failures
            /\ s.failures < SENSOR_FAIL_READS => t.failures = s.failures + 1
            /\ t.sensor_failed <=> t.failures >= SENSOR_FAIL_READS
            /\ s.sensor_failed => t.sensor_failed
<1> DEFINE t == ctl_sensor(s, c, now, FALSE, temp)
<1>1. t \in CtlState
  BY SensorType, FALSE \in BOOLEAN
<1>2. t.failures = FailuresCounted(s)
  BY DEF ctl_sensor, CtlState
<1>3. t.sensor_failed <=> s.sensor_failed \/ FailSafeReached(s)
  BY DEF ctl_sensor, CtlState
<1>4. s.failures \in 0 .. UINT8_MAX
  BY DEF CtlState
<1> HIDE DEF t
<1>5. FailSafeReached(s) <=> t.failures >= SENSOR_FAIL_READS
  BY <1>2 DEF FailSafeReached
<1>6. t.failures = IF s.failures < UINT8_MAX THEN s.failures + 1 ELSE s.failures
  BY <1>2 DEF FailuresCounted
<1>7. /\ t.failures > 0 /\ t.failures >= s.failures
      /\ s.failures < SENSOR_FAIL_READS => t.failures = s.failures + 1
      /\ s.failures >= SENSOR_FAIL_READS => t.failures >= SENSOR_FAIL_READS
  BY <1>4, <1>6, CountSaturates
<1> QED BY <1>1, <1>3, <1>5, <1>7 DEF t

\* A good one ends the count and the fail-safe.
LEMMA GoodReading ==
  ASSUME NEW s \in CtlState, NEW c \in CtlConfig, NEW now \in Int, NEW temp \in Int
  PROVE  LET t == ctl_sensor(s, c, now, TRUE, temp)
         IN t \in CtlState /\ t.failures = 0 /\ ~t.sensor_failed
<1> DEFINE t == ctl_sensor(s, c, now, TRUE, temp)
<1>1. t \in CtlState
  BY SensorType, TRUE \in BOOLEAN
<1>2. t.failures = 0 /\ ~t.sensor_failed
  BY DEF ctl_sensor, CtlState
<1> QED BY <1>1, <1>2
=============================================================================
