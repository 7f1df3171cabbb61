\* join() may wait for ever, and when it has returned nothing is left to do.
CHECK_DEADLOCK FALSE
CONSTANTS
  Messages = {m1, m2, m3}
  None = None
  Usage = {"others", "process ends"}
SPECIFICATION FairSpec
INVARIANTS
  TypeOK
  EachMessageOnce
  JoinLosesNothing
  LoggedInOrder
PROPERTIES
  EveryMessageIsLogged
  JoinEndsWhenIdle
