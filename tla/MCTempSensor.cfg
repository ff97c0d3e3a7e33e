SPECIFICATION Spec
CONSTANTS
  OVERHEAT_CLEAR_X10 = 20
  SENSOR_FAIL_READS = 3
  UINT8_MAX = 255
  MAINTENANCE_INTERVAL_S = 604800
  MAINTENANCE_RUN_S = 60
  Sensors = {a, b}
  NoSensor = NoSensor
  SENSOR_POWER_ON_VALUE_X10 = 850
  SENSOR_MIN_X10 <- Min
  SENSOR_MAX_X10 = 1250
  Values <- SomeValues
  cfg <- Defaults
INVARIANT TypeOK
INVARIANT SwappedSensorIsFound
PROPERTY SourceChangesUnderFailSafe
