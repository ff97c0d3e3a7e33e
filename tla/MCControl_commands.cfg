SPECIFICATION Spec
CONSTANTS
  OVERHEAT_CLEAR_X10 = 1
  SENSOR_FAIL_READS = 2
  UINT8_MAX = 3
  MAINTENANCE_INTERVAL_S = 4
  MAINTENANCE_RUN_S = 2
  CONTROL_READ_PERIOD_S = 2
  MANUAL_MIN_S = 2
  MANUAL_MAX_S = 3
  TASK_WDT_TIMEOUT_S = 5
  Temps = {1, 5, 8}
  SettingsValues <- LowHigh
  Durations = {1, 9}
  API_START_S = 0
  MaxTime = 4
INVARIANT DecisionIsCurrent
INVARIANT OverheatForcesPump
INVARIANT StoppedByHandIsOff
INVARIANT LogMatchesState
INVARIANT HotWaterNeverStands
INVARIANT ColdWaterNotPumped
PROPERTY ImplementsPump
