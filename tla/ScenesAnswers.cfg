SPECIFICATION Spec
CONSTANTS
  TableSize = 2
  Keys <- MCKeys
  Fields = {"onoff", "level"}
  Values = {0, 1}
  PowerOn <- MCPowerOn
  Accepted <- MCAccepted
  NoValue = NoValue
  NoScene = NoScene
  FreeRecord = FreeRecord
  Added <- MCAdded
  Requesters = {a, b}
  MaxEvents = 3
  MaxWaiting = 2
  MaxReboots = 0
PROPERTIES
  AnswersFit
CHECK_DEADLOCK FALSE
