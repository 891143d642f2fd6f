SPECIFICATION Spec
CONSTANTS
  p1 = p1
  p2 = p2
  Process = {p1, p2}
  Sleeper = {s1}
  NoProcess = NoProcess
  Planner = "PRIORIDADES"
  Priority <- MCPriority
  Degree0 = 1
  Degrees = {}
  MaxTokens = 1
  MaxKills = 1
CHECK_DEADLOCK FALSE
INVARIANT TypeOK SingleOwner QueueBacked OneExec
