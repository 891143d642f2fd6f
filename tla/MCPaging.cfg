SPECIFICATION Spec
CONSTANTS
  p1 = p1
  p2 = p2
  Process = {p1, p2}
  PageCount <- MCPageCount
  FrameCounts = {1, 2}
  SwapSizes = {3}
  Byte = 2
  Algorithms = {"FIFO", "LRU"}
  PageSize = 2
  Direccion <- MCDireccion
  MaxCausas = 1
  MaxPending = 2
CHECK_DEADLOCK FALSE
INVARIANTS TypeOK FramesAccounted SwapAccounted ContentsKept DirtyIsMarked LockLost
