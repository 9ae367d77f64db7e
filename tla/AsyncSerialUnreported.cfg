CONSTANTS
  TxLen <- Transfers
  RxLen = 1
  MaxRecvs = 0
  MaxBytes = 0
  RingLen = 1
  MaxSleeps = 0
  MaxFlushes = 0
  MayRefuse = FALSE
SPECIFICATION Spec
INVARIANT CompletionIsReported
CHECK_DEADLOCK FALSE
