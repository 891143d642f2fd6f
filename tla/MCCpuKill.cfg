SPECIFICATION Spec
CONSTANTS
  p1 = p1
  p2 = p2
  Process = {p1}
  NoProcess = NoProcess
  Program <- MCSpin
  Priority <- MCPriority
  Register = {"A", "B"}
  Page = {0}
  Word = 4
  Leftover <- MCLeftover
  Planners = {"FIFO"}
  MaxTimers <- MCTimers
  MaxQueue = 1
  MaxKills <- MCKills
CHECK_DEADLOCK FALSE
PROPERTY KillTakesEffect
