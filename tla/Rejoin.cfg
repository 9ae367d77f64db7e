CONSTANTS
  Build <- AnyBuild
  TcThreshold = 1
  MaxPending = 2
  MaxSignals = 1
SPECIFICATION FairSpec
INVARIANTS TypeOK NeverStranded AttemptEnds ProcedureResumes NoStaleGuard WaitMeansStopped PressIsHeard TouchlinkIsAnswered
PROPERTIES KeepsTrying EndsTrying
\* A device that has joined has nothing left to do.
CHECK_DEADLOCK FALSE
