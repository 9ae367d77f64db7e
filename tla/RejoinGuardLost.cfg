CONSTANTS
  Build <- OnlyRouter
  TcThreshold = 1
  MaxPending = 2
  MaxSignals = 1
SPECIFICATION Spec
INVARIANT SteeringGuarded
CHECK_DEADLOCK FALSE
