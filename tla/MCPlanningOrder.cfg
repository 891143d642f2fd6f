SPECIFICATION Spec
CONSTANTS
  p1 = p1
  p2 = p2
  p3 = p3
  Process = {p1, p2, p3}
  Sleeper = {s1}
  NoProcess = NoProcess
  Planner = "PRIORIDADES"
  Priority <- MCPriority
  Degree0 = 3
  Degrees = {}
  MaxTokens = 1
  MaxKills = 0
CHECK_DEADLOCK FALSE
INVARIANT ReadyOrdered
