SPECIFICATION Spec
CONSTANTS
  p1 = p1
  p2 = p2
  Process = {p1}
  Sleeper = {s1}
  NoProcess = NoProcess
  Planner = "FIFO"
  Priority <- MCPriority
  Degree0 = 1
  Degrees = {}
  MaxTokens = 1
  MaxKills = 1
CHECK_DEADLOCK FALSE
PROPERTY ExitIsFinal
