SPECIFICATION FairSpec
CONSTANTS
  p1 = p1
  p2 = p2
  Process = {p1, p2}
  Sleeper = {s1}
  NoProcess = NoProcess
  Planner = "FIFO"
  Priority <- MCPriority
  Degree0 = 1
  Degrees = {0, 1, 2}
  MaxTokens = 1
  MaxKills = 0
CHECK_DEADLOCK FALSE
PROPERTY QueuedIsPicked ImplementsAdmission
INVARIANT SlotsConserved
