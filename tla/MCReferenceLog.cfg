CONSTANTS
  x = x
  y = y
  a1 = a1
  a2 = a2
  builtin = builtin
  mine = mine
  frame = frame
  none = none
  None = none
  NoObject = NoObject
  Tracers = {x, y}
  Addresses = {a1, a2}
  Types <- MCTypes
  Builtins = {builtin}
  Unsafe = {frame}
  Filters <- MCFilters
  Paths = {given}
  MaxObjects = 2
  MaxBlocks = 3
  MaxEvents = 3
  MaxIncidents = 1
SPECIFICATION Spec
SYMMETRY Symmetry
INVARIANTS
  TypeOK
  LeaksAreFound
  QueriesMatchLog
  NestingIsReadable
PROPERTIES
  LogsAreAppendOnly
CHECK_DEADLOCK FALSE
