CONSTANTS
  NumNodes = 2
  NameKind <- Plain
  MaxSessions = 3
  MaxCancels = 1
  Requests <- AskUpToTwo
  Subtrees <- NodeOrRack
  Commands = {"request", "up"}
  StepDaemons = TRUE
  Faults = {}
  NULL = NULL
  ERROR = ERROR
  BAD = BAD
SPECIFICATION FairSpec
PROPERTY QueueDrains
CHECK_DEADLOCK FALSE
