SPECIFICATION SpecTrace
CONSTANTS
  o1 = o1
  o2 = o2
  a1 = a1
  p1 = p1
  p2 = p2
  NULL = NULL
  Objects = {o1, o2}
  Addresses = {a1, p1, p2}
  Arena = {a1}
  PY_SSIZE_T_MAX = 3
  Sizes <- MCSizes
  MaxBlock = 2
  SmallRequest = 1
  MaxSurplus = 1
  MaxLost = 1
  MaxLines = 3
SYMMETRY Symmetry
INVARIANTS
  TypeOK
  BlocksAreAccounted
  Reconciles
CHECK_DEADLOCK FALSE
