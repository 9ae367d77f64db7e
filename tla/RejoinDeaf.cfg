CONSTANTS
  Build <- OnlySleepyDevice
  TcThreshold = 1
  MaxPending = 2
  MaxSignals = 1
SPECIFICATION Spec
INVARIANT UserInputRestarts
CHECK_DEADLOCK FALSE
