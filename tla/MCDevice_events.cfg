SPECIFICATION DSpec
CONSTANTS
  OVERHEAT_CLEAR_X10 = 1
  SENSOR_FAIL_READS = 1
  UINT8_MAX = 1
  MAINTENANCE_INTERVAL_S = 2
  MAINTENANCE_RUN_S = 1
  EVENTS_RING_SIZE = 2
  NoEvent = NoEvent
  Events <- SomeEvents
  cfg <- Low
  Temps = {1, 5, 8}
  Duration = 1
  MaxTime = 2
  MaxEvents = 5
INVARIANT TypeOK
INVARIANT OverheatIsTold
PROPERTY ImplementsRecentLog
