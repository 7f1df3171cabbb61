CHECK_DEADLOCK FALSE
CONSTANTS
  Messages = {m1}
  None = None
  Usage = {}
SPECIFICATION FairSpec
PROPERTY JoinEnds
