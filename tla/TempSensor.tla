----------------------------- MODULE TempSensor -----------------------------
(***************************************************************************)
(* temp_sensor.c between the 1-Wire bus and ctl_sensor of control_logic.c. *)
(* The driver keeps the address of the first sensor a scan found and       *)
(* forgets it after SENSOR_FAIL_READS bad reads in a row; the controller   *)
(* counts the same bad reads for its fail-safe, and also those for which   *)
(* no sensor was found.  The control task is the only caller, so a read    *)
(* and the ctl_sensor after it are one step; sensors are plugged,          *)
(* unplugged and fail between reads.                                       *)
(***************************************************************************)
EXTENDS ControlLogic, FiniteSets

CONSTANTS
  Sensors,                     \* addresses a sensor can have
  NoSensor,                    \* no address
  SENSOR_POWER_ON_VALUE_X10,   \* read by a sensor that has not converted
  SENSOR_MIN_X10, SENSOR_MAX_X10,
  Values,                      \* what a sensor can measure, rounded to 0.1 C
  cfg                          \* the thresholds

ASSUME SensorAssumption ==
  /\ NoSensor \notin Sensors
  /\ SENSOR_POWER_ON_VALUE_X10 \in Int
  /\ SENSOR_MIN_X10 \in Int /\ SENSOR_MAX_X10 \in Int
  /\ Values \subseteq Int
  /\ cfg \in CtlConfig

VARIABLES
  bus,            \* the sensors that answer now
  s_addr,         \* of the sensor found
  s_found,
  s_failures,
  s_state,        \* ctl_state_t, the part ctl_sensor keeps
  source,         \* history: the sensor of the last good reading
  quiet           \* history: reads since the bus last changed

vars == <<bus, s_addr, s_found, s_failures, s_state, source, quiet>>

Init ==
  /\ bus \in SUBSET Sensors
  /\ s_addr = NoSensor
  /\ s_found = FALSE
  /\ s_failures = 0
  /\ s_state = ctl_init(0)
  /\ source = NoSensor
  /\ quiet = 0

-----------------------------------------------------------------------------

\* A value a working sensor does not return, or one outside its range, is a bad read.
Plausible(value) ==
  /\ value # SENSOR_POWER_ON_VALUE_X10
  /\ SENSOR_MIN_X10 <= value /\ value <= SENSOR_MAX_X10

\* Reads since the bus changed are counted as far as a property asks for them.
QuietBound == 2 * SENSOR_FAIL_READS
Quieter == IF quiet < QuietBound THEN quiet + 1 ELSE quiet

\* The scan finds no sensor, or fails: the driver's own count is left alone.
NothingFound ==
  /\ ~s_found
  /\ s_state' = ctl_sensor(s_state, cfg, 0, FALSE, 0)
  /\ quiet' = IF bus = {} THEN Quieter ELSE 0
  /\ UNCHANGED <<bus, s_addr, s_found, s_failures, source>>

\* Bug: one read too early.
GivesUpEarly == s_failures + 1 >= SENSOR_FAIL_READS - 1

\* Bug: the driver never looks for another sensor.
GivesUpNever == FALSE

GivesUp == s_failures + 1 >= SENSOR_FAIL_READS

\* The sensor is there from an earlier read, or this scan finds it.
Addressed(a) == IF s_found THEN a = s_addr ELSE a \in bus

\* The measurement: a sensor that is not on the bus, an error or a value that is not
\* plausible make a bad read.
Measurement(a, error, value) ==
  LET good == a \in bus /\ ~error /\ Plausible(value)
  IN /\ Addressed(a)
     /\ s_addr' = a
     /\ s_found' = (good \/ ~GivesUp)
     /\ s_failures' = IF good \/ GivesUp THEN 0 ELSE s_failures + 1
     /\ s_state' = ctl_sensor(s_state, cfg, 0, good, value)
     /\ source' = IF good THEN a ELSE source
     /\ quiet' = IF good \/ a \notin bus THEN Quieter ELSE 0
     /\ UNCHANGED bus

\* Sensors are plugged and unplugged, in any combination: one step is a swap.
BusChanges ==
  /\ \E b \in SUBSET Sensors \ {bus} : bus' = b
  /\ quiet' = 0
  /\ UNCHANGED <<s_addr, s_found, s_failures, s_state, source>>

Reboot ==
  /\ s_addr' = NoSensor
  /\ s_found' = FALSE
  /\ s_failures' = 0
  /\ s_state' = ctl_init(0)
  /\ source' = NoSensor
  /\ quiet' = 0
  /\ UNCHANGED bus

temp_sensor_read ==
  \/ NothingFound
  \/ \E a \in Sensors, error \in BOOLEAN, value \in Values : Measurement(a, error, value)

Next == temp_sensor_read \/ BusChanges \/ Reboot

Spec == Init /\ [][Next]_vars

-----------------------------------------------------------------------------
(***************************************************************************)
(* Properties                                                              *)
(***************************************************************************)

\* Every variable has its type, and the driver has given up before it counts as many
\* bad reads as the fail-safe needs.
TypeOK ==
  /\ bus \subseteq Sensors
  /\ s_addr \in Sensors \union {NoSensor}
  /\ s_found \in BOOLEAN /\ (s_found => s_addr \in Sensors)
  /\ s_failures \in 0 .. SENSOR_FAIL_READS - 1
  /\ s_state \in CtlState
  /\ source \in Sensors \union {NoSensor}
  /\ quiet \in 0 .. QuietBound

\* The controller never goes on with another sensor's readings as if nothing had
\* happened: the readings change their source only out of the fail-safe.  (The driver's
\* count of bad reads never runs ahead of the controller's.)
SourceChangesUnderFailSafe ==
  [][source # NoSensor /\ source' \notin {source, NoSensor} => s_state.sensor_failed]_vars

\* A swapped sensor is found: with sensors on a bus that nobody touches and that does
\* not misread, whatever was counted before, the reads are good again after
\* SENSOR_FAIL_READS bad ones.
SwappedSensorIsFound ==
  bus # {} /\ quiet > SENSOR_FAIL_READS => s_state.failures = 0
=============================================================================
