CONSTANTS
  isr = isr
  thread = thread
  alarm = alarm
  otherAlarm = otherAlarm
  cancel = cancel
  callback = callback
  buffer = buffer
  otherCallback = otherCallback
  Zboss = zboss
  Process = process
  Caller <- Callers
  Request <- Requests
  Kind <- MCKind
  Target <- MCTarget
  QueueLen = 2
  CbLen = 1
  TableLen <- MCTableLen
  MaxDeinit = 1
SPECIFICATION Spec
INVARIANTS TypeOK FlagIsHonest NoLostWakeup NoSleepOnWork OneProcessCall CancelIsNotOvertaken
PROPERTY HandedInOrder
