\* A failing assertion of suspend(), or of an exit after gc.collect() has failed, ends the program.
CHECK_DEADLOCK FALSE
CONSTANTS
  None = None
  Threads = {t1, t2}
  Simple = {s1, s2}
  Files = {f1, f2, f3}
  Usage = {"again", "gc fails"}
  MaxEvents = 2
SPECIFICATION Spec
SYMMETRY Symmetry
INVARIANTS
  TypeOK
  NoFault
  PreviousIsRestored
  AnnotationsAreTrue
PROPERTY ImplementsTracerStack
