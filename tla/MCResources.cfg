SPECIFICATION Spec
CONSTANTS
  r1 = r1
  r2 = r2
  Process = {p1, p2, p3}
  Resource = {r1, r2}
  NoProcess = NoProcess
  NoResource = NoResource
  MaxQty <- MCMax
  MaxKills = 0
  MaxForged = 1
CHECK_DEADLOCK FALSE
SYMMETRY Symmetry
INVARIANT TypeOK Conserved NotStranded WaiterIsBlocked NoBarging
