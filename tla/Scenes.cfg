SPECIFICATION Spec
CONSTANTS
  TableSize = 2
  Keys <- MCKeys
  Fields = {"onoff", "level"}
  Values = {0, 1}
  PowerOn <- MCPowerOn
  Accepted <- MCAccepted
  NoValue = NoValue
  NoScene = NoScene
  FreeRecord = FreeRecord
  Added <- MCAdded
  Requesters = {a}
  MaxEvents = 4
  MaxWaiting = 1
  MaxReboots = 1
PROPERTIES
  ImplementsSceneStore
CHECK_DEADLOCK FALSE
