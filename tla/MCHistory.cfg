SPECIFICATION PaceSpec
CONSTANTS
  HISTORY_SAMPLES = 3
  HISTORY_NO_READING = NoReading
  BYTE = 2
  SampleSet <- TwoSamples
  HISTORY_PERIOD_S = 3
  CONTROL_READ_PERIOD_S = 2
  MaxTime = 15
INVARIANT HistoryKeepsUp
INVARIANT RingCoversItsSpan
PROPERTY ImplementsRecentLog
