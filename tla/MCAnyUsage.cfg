CONSTANTS
  None = None
  Threads = {t1, t2}
  Objects = {o1, o2}
  Wrappers = {w1, w2, w3, w4}
  Usage = {"overlap", "again", "nested"}
  MaxEvents = 2
SPECIFICATION Spec
SYMMETRY Symmetry
INVARIANTS
  RefsAccount
  PopsNonEmpty
  HeadIsWritable
CHECK_DEADLOCK FALSE
