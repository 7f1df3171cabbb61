CONSTANTS
  Types = {a, b, c, d, e}
  Empty = Empty
  Hashes = {0, 3, 7}
  INITIAL_CAPACITY = 2
  MaxCapacity = 8
  MaxCount = 1
SPECIFICATION Spec
SYMMETRY Symmetry
INVARIANTS
  TypeOK
  LookupsEnd
  RetrievalMissesNothing
PROPERTY ImplementsLiveCounts
