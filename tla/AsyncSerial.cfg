CONSTANTS
  TxLen <- Transfers
  RxLen = 2
  MaxRecvs = 2
  MaxBytes = 3
  RingLen = 2
  MaxSleeps = 1
  MaxFlushes = 1
  MayRefuse = TRUE
SPECIFICATION FairSpec
INVARIANTS TypeOK TransferIsOwned TransferIsFaithful ReceptionIsOwned StreamIsIntact
PROPERTIES EveryTransferEnds PartialReceptionEnds
CHECK_DEADLOCK FALSE
