SPECIFICATION Spec
CONSTANTS
  p1 = p1
  p2 = p2
  Process = {p1, p2}
  NoProcess = NoProcess
  Program <- MCProgram
  Priority <- MCPriority
  Register = {"A", "B"}
  Page = {0}
  Word = 4
  Leftover <- MCLeftover
  Planners = {"RR", "PRIORIDADES"}
  MaxTimers <- MCTimers
  MaxQueue = 1
  MaxKills <- MCKills
CHECK_DEADLOCK FALSE
INVARIANTS TypeOK OnlyOwnInterruption EvictedOnce
PROPERTY RunsPrograms
