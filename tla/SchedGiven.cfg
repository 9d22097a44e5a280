CONSTANTS
  NumNodes = 2
  NameKind <- OneDigitLed
  MaxSessions = 2
  MaxCancels = 1
  Requests <- AskGiven
  Subtrees <- NodeOrRack
  Commands = {"request", "up", "cancel"}
  StepDaemons = TRUE
  Faults = {}
  NULL = NULL
  ERROR = ERROR
  BAD = BAD
SPECIFICATION FairSpec
PROPERTY HandOversComplete
CHECK_DEADLOCK FALSE
