SPECIFICATION Spec
CONSTANTS
  OVERHEAT_CLEAR_X10 = 1
  SENSOR_FAIL_READS = 2
  UINT8_MAX = 2
  MAINTENANCE_INTERVAL_S = 2
  MAINTENANCE_RUN_S = 1
  CONTROL_READ_PERIOD_S = 2
  MANUAL_MIN_S = 1
  MANUAL_MAX_S = 3
  TASK_WDT_TIMEOUT_S = 5
  Temps = {1}
  SettingsValues <- OnlyLow
  Durations = {0}
  API_START_S = 0
  MaxTime = 7
INVARIANT PumpExercised
PROPERTY MaintenanceOnlyAfterIdle
INVARIANT OverrideEndsOnTime
