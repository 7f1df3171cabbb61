CONSTANTS
  None = None
  Threads = {t1, t2}
  Simple = {s1, s2}
  Files = {f1, f2}
  Usage = {"mixed"}
  MaxEvents = 1
SPECIFICATION Spec
SYMMETRY Symmetry
PROPERTY ExitRestoresPrevious
