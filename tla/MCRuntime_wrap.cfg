SPECIFICATION RSpec
CONSTANTS
  OVERHEAT_CLEAR_X10 = 1
  SENSOR_FAIL_READS = 2
  UINT8_MAX = 3
  MAINTENANCE_INTERVAL_S = 20
  MAINTENANCE_RUN_S = 2
  CONTROL_READ_PERIOD_S = 2
  MANUAL_MIN_S = 2
  MANUAL_MAX_S = 3
  TASK_WDT_TIMEOUT_S = 5
  Temps = {1}
  SettingsValues <- OnlyLow
  Durations = {1}
  API_START_S = 2
  MaxTime = 5
  UINT32_MOD = 64
  MaxDay = 1
  MaxStarts = 2
INVARIANT RuntimeWithinUptime
