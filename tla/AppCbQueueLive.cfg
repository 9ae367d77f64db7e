CONSTANTS
  isr = isr
  thread = thread
  alarm = alarm
  otherAlarm = otherAlarm
  cancel = cancel
  callback = callback
  buffer = buffer
  otherCallback = otherCallback
  Zboss = zboss
  Process = process
  Caller <- OneCaller
  Request <- LiveRequests
  Kind <- MCKind
  Target <- MCTarget
  QueueLen = 2
  CbLen = 2
  TableLen <- MCTableLen
  MaxDeinit = 0
SPECIFICATION FairSpec
PROPERTIES AcceptedIsHandled
CHECK_DEADLOCK FALSE
