SPECIFICATION Spec
CONSTANTS
  p1 = p1
  p2 = p2
  p3 = p3
  f1 = f1
  f2 = f2
  Process = {p1, p2, p3}
  File = {f1, f2}
  Cargas <- MCCargas
  MaxOpen = 2
  Ausente = Ausente
  BlockCount = 4
  BlockSize = 2
  Data = {0, 1}
  MaxCaidas = 1
  MaxIncidentes = 1
SYMMETRY MCSimetria
CHECK_DEADLOCK FALSE
INVARIANTS TypeOK WriterExclusive NoLostWaiter LocksMatch KernelStays ChainsDisjoint NoLeak SizeMatches SwapUntouched
PROPERTIES IsFileStore
