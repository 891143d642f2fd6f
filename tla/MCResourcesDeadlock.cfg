SPECIFICATION Spec
CONSTANTS
  r1 = r1
  r2 = r2
  Process = {p1, p2}
  Resource = {r1, r2}
  NoProcess = NoProcess
  NoResource = NoResource
  MaxQty <- MCOne
  MaxKills = 0
  MaxForged = 0
CHECK_DEADLOCK FALSE
PROPERTY CycleIsReported
