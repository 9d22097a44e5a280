CONSTANTS
  NumNodes = 2
  NameKind <- Plain
  MaxSessions = 2
  MaxCancels = 2
  Requests <- AskOneOrTwo
  Subtrees <- NodeOrRack
  Commands = {"request", "up", "cancel"}
  StepDaemons = TRUE
  Faults = {"step"}
  NULL = NULL
  ERROR = ERROR
  BAD = BAD
SPECIFICATION FairSpec
PROPERTY CancelReachesSteps
CHECK_DEADLOCK FALSE
