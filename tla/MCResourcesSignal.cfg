SPECIFICATION Spec
CONSTANTS
  r1 = r1
  r2 = r2
  Process = {p1, p2, p3}
  Resource = {r1}
  NoProcess = NoProcess
  NoResource = NoResource
  MaxQty <- MCOne
  MaxKills = 0
  MaxForged = 0
CHECK_DEADLOCK FALSE
INVARIANT SignalServes
