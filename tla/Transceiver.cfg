SPECIFICATION Spec
CONSTANTS
  Buffers = {b1, b2}
  NoBuffer = NoBuffer
  MaxFrames = 3
  MaxSends = 2
  MaxScans = 2
  MaxDeinits = 1
INVARIANTS
  TypeOK
  SlotForEveryFrame
  BuffersHaveOwners
  PendingBitIsOwn
  RssiIsFresh
PROPERTIES
  TransmissionIsAnswered
CHECK_DEADLOCK FALSE
