-------------------------- MODULE TempSensorProofs --------------------------
(***************************************************************************)
(* Theorems about module TempSensor, for any sensors, any number of bad    *)
(* reads before the fail-safe and any readings: the driver and the         *)
(* fail-safe count the same bad reads, and never disagree on a sensor.     *)
(***************************************************************************)
EXTENDS TempSensor, LogicProofs

-----------------------------------------------------------------------------
(***************************************************************************)
(* The invariant                                                           *)
(***************************************************************************)

\* The driver counts only for a sensor it has, and never runs ahead of the controller;
\* the fail-safe is on exactly while the controller has counted enough.
CountsAgree ==
  /\ ~s_found => s_failures = 0
  /\ s_failures <= s_state.failures
  /\ s_state.sensor_failed <=> s_state.failures >= SENSOR_FAIL_READS

\* Outside the fail-safe the driver still has the sensor it read last.
SourceKept ==
  source # NoSensor /\ ~s_state.sensor_failed => s_found /\ s_addr = source

\* On a quiet bus the driver gives a missing sensor up in time, and then finds one.
MissingSensor  == bus # {} /\ s_found /\ s_addr \notin bus => quiet <= s_failures
NoSensorYet    == bus # {} /\ ~s_found /\ s_state.failures > 0 => quiet <= SENSOR_FAIL_READS
ReachedSensor  == bus # {} /\ s_found /\ s_addr \in bus /\ s_state.failures > 0 => quiet = 0

IInv == CountsAgree /\ SourceKept /\ MissingSensor /\ NoSensorYet /\ ReachedSensor

-----------------------------------------------------------------------------
(***************************************************************************)
(* What a read does                                                        *)
(***************************************************************************)

\* What boot leaves: nothing read, nothing counted.
LEMMA BootState ==
  /\ ctl_init(0) \in CtlState
  /\ ctl_init(0).failures = 0 /\ ctl_init(0).sensor_failed = FALSE
  /\ ~(0 >= SENSOR_FAIL_READS) /\ 0 \in 0 .. SENSOR_FAIL_READS - 1 /\ 0 \in 0 .. QuietBound
BY InitType, LogicAssumption DEF ctl_init, QuietBound

\* One more quiet read is counted as one, up to the bound.
LEMMA QuieterType ==
  ASSUME quiet \in 0 .. QuietBound
  PROVE  Quieter \in 0 .. QuietBound /\ Quieter <= quiet + 1
BY LogicAssumption DEF Quieter, QuietBound

-----------------------------------------------------------------------------
(***************************************************************************)
(* The invariant is preserved                                              *)
(***************************************************************************)

\* It holds after boot, with whatever sensors on the bus.
LEMMA InitIInv == Init => TypeOK /\ IInv
<1> SUFFICES ASSUME Init PROVE TypeOK /\ IInv
  OBVIOUS
<1>1. /\ s_state \in CtlState /\ s_state.failures = 0 /\ ~s_state.sensor_failed
      /\ s_failures = 0 /\ quiet = 0 /\ s_found = FALSE /\ source = NoSensor
  BY BootState DEF Init
<1>2. TypeOK
  BY <1>1, BootState DEF Init, TypeOK
<1>3. IInv
  BY <1>1, BootState DEF IInv, CountsAgree, SourceKept, MissingSensor, NoSensorYet,
                         ReachedSensor
<1> QED BY <1>2, <1>3

\* A scan that finds nothing is counted by the controller only.
LEMMA NothingFoundIInv ==
  ASSUME TypeOK, IInv, NothingFound
  PROVE  TypeOK' /\ IInv'
<1>1. /\ s_state' \in CtlState
      /\ s_state'.failures > 0 /\ s_state'.failures >= s_state.failures
      /\ s_state'.sensor_failed <=> s_state'.failures >= SENSOR_FAIL_READS
      /\ s_state.sensor_failed => s_state'.sensor_failed
  BY BadReading, SensorAssumption, 0 \in Int DEF TypeOK, IInv, CountsAgree, NothingFound
<1>2. /\ quiet' \in 0 .. QuietBound
      /\ bus # {} => quiet' = 0
  BY QuieterType, LogicAssumption DEF TypeOK, NothingFound, QuietBound
<1>3. s_state'.failures \in Int /\ s_state.failures \in Int
  BY <1>1 DEF TypeOK, CtlState
<1>4. TypeOK'
  BY <1>1, <1>2 DEF TypeOK, NothingFound
<1>5. /\ ~s_found /\ UNCHANGED <<bus, s_addr, s_found, s_failures, source>>
      /\ s_failures = 0
  BY DEF NothingFound, IInv, CountsAgree
<1>6. CountsAgree'
  BY <1>1, <1>3, <1>5 DEF CountsAgree
<1>7. SourceKept'
  BY <1>1, <1>5 DEF IInv, SourceKept
<1>8. MissingSensor' /\ NoSensorYet' /\ ReachedSensor'
  BY <1>2, <1>5, LogicAssumption DEF MissingSensor, NoSensorYet, ReachedSensor
<1> QED BY <1>4, <1>6, <1>7, <1>8 DEF IInv

\* A good reading ends every count, and its sensor is the one the driver keeps.
LEMMA GoodMeasurementIInv ==
  ASSUME TypeOK, IInv, NEW a \in Sensors, NEW error \in BOOLEAN, NEW value \in Values,
         Measurement(a, error, value), a \in bus /\ ~error /\ Plausible(value)
  PROVE  TypeOK' /\ IInv'
<1>1. /\ s_state' = ctl_sensor(s_state, cfg, 0, TRUE, value)
      /\ s_addr' = a /\ s_found' /\ s_failures' = 0 /\ source' = a
      /\ quiet' = Quieter /\ bus' = bus
  BY DEF Measurement
<1>2. s_state' \in CtlState /\ s_state'.failures = 0 /\ ~s_state'.sensor_failed
  <2>1. value \in Int /\ cfg \in CtlConfig /\ s_state \in CtlState
    BY SensorAssumption DEF TypeOK
  <2> QED BY <1>1, <2>1, GoodReading, 0 \in Int
<1>3. TypeOK'
  <2>1. quiet' \in 0 .. QuietBound
    BY <1>1, QuieterType DEF TypeOK
  <2> QED BY <1>1, <1>2, <2>1, BootState DEF TypeOK
<1>4. CountsAgree' /\ SourceKept'
  <2>1. SourceKept'
    BY <1>1 DEF SourceKept
  <2>2. s_failures' <= s_state'.failures
    <3>1. s_failures' = 0 /\ s_state'.failures = 0
      BY <1>1, <1>2
    <3> QED BY <3>1
  <2>3. ~(s_state'.failures >= SENSOR_FAIL_READS) /\ ~s_state'.sensor_failed
    BY <1>2, BootState
  <2> QED BY <1>1, <2>1, <2>2, <2>3 DEF CountsAgree
<1>5. MissingSensor' /\ NoSensorYet' /\ ReachedSensor'
  <2>1. ~(s_state'.failures > 0)
    BY <1>2
  <2> QED BY <1>1, <2>1, Zenon DEF MissingSensor, NoSensorYet, ReachedSensor
<1> QED BY <1>3, <1>4, <1>5 DEF IInv

\* A bad one is counted by both; when the driver gives the sensor up, the controller has
\* counted enough for the fail-safe.
LEMMA BadMeasurementIInv ==
  ASSUME TypeOK, IInv, NEW a \in Sensors, NEW error \in BOOLEAN, NEW value \in Values,
         Measurement(a, error, value), ~(a \in bus /\ ~error /\ Plausible(value))
  PROVE  TypeOK' /\ IInv'
<1>1. /\ s_state' = ctl_sensor(s_state, cfg, 0, FALSE, value)
      /\ s_addr' = a /\ s_found' = ~GivesUp /\ source' = source /\ bus' = bus
      /\ s_failures' = IF GivesUp THEN 0 ELSE s_failures + 1
      /\ quiet' = IF a \notin bus THEN Quieter ELSE 0
      /\ IF s_found THEN a = s_addr ELSE a \in bus
  BY DEF Measurement, Addressed
<1>2. /\ s_state' \in CtlState
      /\ s_state'.failures > 0 /\ s_state'.failures >= s_state.failures
      /\ s_state.failures < SENSOR_FAIL_READS => s_state'.failures = s_state.failures + 1
      /\ s_state'.sensor_failed <=> s_state'.failures >= SENSOR_FAIL_READS
      /\ s_state.sensor_failed => s_state'.sensor_failed
  <2>1. value \in Int /\ cfg \in CtlConfig /\ s_state \in CtlState
    BY SensorAssumption DEF TypeOK
  <2>2. s_state.sensor_failed <=> s_state.failures >= SENSOR_FAIL_READS
    BY DEF IInv, CountsAgree
  <2>3. s_state' = ctl_sensor(s_state, cfg, 0, FALSE, value)
    BY <1>1
  <2> QED BY <2>1, <2>2, <2>3, BadReading, 0 \in Int
<1>3. /\ s_failures \in 0 .. SENSOR_FAIL_READS - 1 /\ SENSOR_FAIL_READS \in Nat
      /\ quiet \in 0 .. QuietBound /\ Quieter \in 0 .. QuietBound /\ Quieter <= quiet + 1
      /\ s_state.failures \in Int /\ s_state'.failures \in Int
  BY <1>2, QuieterType, LogicAssumption DEF TypeOK, CtlState
<1>4. TypeOK'
  <2>1. s_failures' \in 0 .. SENSOR_FAIL_READS - 1
    BY <1>1, <1>3, LogicAssumption DEF GivesUp
  <2>2. quiet' \in 0 .. QuietBound
    BY <1>1, <1>3, BootState
  <2>3. s_found' \in BOOLEAN
    BY <1>1 DEF GivesUp
  <2> QED BY <1>1, <1>2, <2>1, <2>2, <2>3 DEF TypeOK
<1>5. CASE GivesUp
  <2>1. s_found' = FALSE /\ s_failures' = 0 /\ s_failures = SENSOR_FAIL_READS - 1
    <3>1. s_found' = FALSE /\ s_failures' = 0
      BY <1>1, <1>5
    <3>2. s_failures = SENSOR_FAIL_READS - 1
      BY <1>3, <1>5 DEF GivesUp
    <3> QED BY <3>1, <3>2
  <2>2. s_state'.sensor_failed
    BY <1>2, <1>3, <2>1 DEF IInv, CountsAgree
  <2>3. CountsAgree' /\ SourceKept'
    BY <1>2, <1>3, <2>1, <2>2 DEF CountsAgree, SourceKept
  <2>4. MissingSensor' /\ ReachedSensor'
    BY <2>1 DEF MissingSensor, ReachedSensor
  <2>5. NoSensorYet'
    BY <1>1, <1>3, <2>1 DEF IInv, MissingSensor, NoSensorYet
  <2> QED BY <1>4, <2>3, <2>4, <2>5 DEF IInv
<1>6. CASE ~GivesUp
  <2>1. s_found' = TRUE /\ s_failures' = s_failures + 1
    BY <1>1, <1>6
  <2>2. CountsAgree'
    BY <1>2, <1>3, <1>6, <2>1 DEF IInv, CountsAgree, GivesUp
  <2>3. SourceKept'
    BY <1>1, <1>2, <2>1 DEF IInv, SourceKept
  <2>4. MissingSensor'
    BY <1>1, <1>3, <2>1 DEF IInv, MissingSensor
  <2>5. NoSensorYet' /\ ReachedSensor'
    BY <1>1, <2>1 DEF NoSensorYet, ReachedSensor
  <2> QED BY <1>4, <2>2, <2>3, <2>4, <2>5 DEF IInv
<1> QED BY <1>5, <1>6

\* Every read, every change of the bus and every restart preserves the invariant.
LEMMA NextIInv == TypeOK /\ IInv /\ [Next]_vars => TypeOK' /\ IInv'
<1> SUFFICES ASSUME TypeOK, IInv, [Next]_vars PROVE TypeOK' /\ IInv'
  OBVIOUS
<1>1. CASE NothingFound
  BY <1>1, NothingFoundIInv
<1>2. ASSUME NEW a \in Sensors, NEW error \in BOOLEAN, NEW value \in Values,
             Measurement(a, error, value)
      PROVE  TypeOK' /\ IInv'
  BY <1>2, GoodMeasurementIInv, BadMeasurementIInv
<1>3. CASE BusChanges
  <2>1. TypeOK'
    BY <1>3, BootState DEF TypeOK, BusChanges
  <2>2. CountsAgree' /\ SourceKept'
    BY <1>3 DEF BusChanges, IInv, CountsAgree, SourceKept
  <2>3. s_failures' \in 0 .. SENSOR_FAIL_READS - 1 /\ quiet' = 0
    BY <1>3, <2>1 DEF TypeOK, BusChanges
  <2>4. MissingSensor' /\ NoSensorYet' /\ ReachedSensor'
    BY <2>3, LogicAssumption DEF MissingSensor, NoSensorYet, ReachedSensor
  <2> QED BY <2>1, <2>2, <2>4 DEF IInv
<1>4. CASE Reboot
  <2>1. /\ s_state' \in CtlState /\ s_state'.failures = 0 /\ ~s_state'.sensor_failed
        /\ s_failures' = 0 /\ quiet' = 0 /\ s_found' = FALSE /\ source' = NoSensor
    BY <1>4, BootState DEF Reboot
  <2>2. TypeOK'
    BY <1>4, <2>1, BootState DEF TypeOK, Reboot
  <2>3. IInv'
    BY <2>1, BootState DEF IInv, CountsAgree, SourceKept, MissingSensor, NoSensorYet,
                           ReachedSensor
  <2> QED BY <2>2, <2>3
<1>5. CASE UNCHANGED vars
  BY <1>5 DEF vars, TypeOK, QuietBound, IInv, CountsAgree, SourceKept, MissingSensor,
              NoSensorYet, ReachedSensor
<1> QED BY <1>1, <1>2, <1>3, <1>4, <1>5 DEF Next, temp_sensor_read

\* So it holds in every state.
LEMMA SpecIInv == Spec => [](TypeOK /\ IInv)
BY InitIInv, NextIInv, PTL DEF Spec

-----------------------------------------------------------------------------
(***************************************************************************)
(* The theorems                                                            *)
(***************************************************************************)

\* Every variable of the driver keeps its type: its counter never reaches what makes the
\* driver give up (temp_sensor.c:30).
THEOREM SensorTypes == Spec => []TypeOK
BY SpecIInv, PTL

\* The controller takes readings of another sensor only out of the fail-safe.
THEOREM SourceChangesAreNoticed == Spec => SourceChangesUnderFailSafe
<1>1. ASSUME TypeOK, IInv, [Next]_vars
      PROVE  [source # NoSensor /\ source' \notin {source, NoSensor}
                => s_state.sensor_failed]_vars
  <2> SUFFICES ASSUME source # NoSensor, source' # source, source' # NoSensor,
                      ~s_state.sensor_failed
               PROVE  FALSE
    OBVIOUS
  <2>1. s_found /\ s_addr = source
    BY <1>1 DEF IInv, SourceKept
  <2>2. CASE NothingFound
    BY <2>2 DEF NothingFound
  <2>3. ASSUME NEW a \in Sensors, NEW error \in BOOLEAN, NEW value \in Values,
               Measurement(a, error, value)
        PROVE  FALSE
    BY <2>1, <2>3 DEF Measurement, Addressed
  <2>4. CASE BusChanges
    BY <2>4 DEF BusChanges
  <2>5. CASE Reboot
    BY <2>5 DEF Reboot
  <2>6. CASE UNCHANGED vars
    BY <2>6 DEF vars
  <2> QED BY <1>1, <2>2, <2>3, <2>4, <2>5, <2>6 DEF Next, temp_sensor_read
<1> QED BY <1>1, SpecIInv, PTL DEF Spec, SourceChangesUnderFailSafe

\* After SENSOR_FAIL_READS bad reads on a bus that nobody touches and that does not
\* misread, the reads are good again.
THEOREM SwapsAreFound == Spec => []SwappedSensorIsFound
<1>1. TypeOK /\ IInv => SwappedSensorIsFound
  <2> SUFFICES ASSUME TypeOK, IInv, bus # {}, quiet > SENSOR_FAIL_READS
               PROVE  s_state.failures = 0
    BY DEF SwappedSensorIsFound
  <2>1. /\ s_failures <= SENSOR_FAIL_READS - 1 /\ s_failures \in Int /\ quiet \in Int
        /\ s_state.failures \in Nat /\ SENSOR_FAIL_READS \in Nat
    BY LogicAssumption DEF TypeOK, CtlState, QuietBound
  <2>2. CASE s_found /\ s_addr \notin bus
    BY <2>1, <2>2 DEF IInv, MissingSensor
  <2>3. CASE s_found /\ s_addr \in bus
    BY <2>1, <2>3 DEF IInv, ReachedSensor
  <2>4. CASE ~s_found
    BY <2>1, <2>4 DEF IInv, NoSensorYet
  <2> QED BY <2>2, <2>3, <2>4
<1> QED BY <1>1, SpecIInv, PTL
=============================================================================
