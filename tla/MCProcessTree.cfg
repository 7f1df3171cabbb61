\* The program ends, and the processes with it.
CHECK_DEADLOCK FALSE
CONSTANTS
  Root = 1
  LastPid = 3
  Values = {1, 2}
  MaxChanges = 2
  MaxRecords = 2
SPECIFICATION Spec
INVARIANTS
  TypeOK
  DifferencesAddUp
  JsonIsAList
PROPERTY TreeIsCurrent
