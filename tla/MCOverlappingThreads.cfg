CONSTANTS
  None = None
  Threads = {t1, t2}
  Objects = {o1, o2, o3}
  Wrappers = {w1, w2, w3, w4}
  Usage = {"overlap"}
  MaxEvents = 2
SPECIFICATION Spec
SYMMETRY Symmetry
INVARIANT ReattachedFileIsOpen
CHECK_DEADLOCK FALSE
