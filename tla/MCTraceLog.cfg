CONSTANTS
  Rss = {1, 2, 3}
  Triggers = {0, 1, 2}
  MaxEvents = 4
  MaxMessages = 1
SPECIFICATION Spec
INVARIANTS
  TypeOK
  Grammar
  SkippedEventsAreCounted
  NothingIsMissed
CHECK_DEADLOCK FALSE
