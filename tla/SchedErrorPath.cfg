CONSTANTS
  NumNodes = 2
  NameKind <- Plain
  MaxSessions = 2
  MaxCancels = 1
  Requests <- AskGiven
  Subtrees <- NodeOrRack
  Commands = {"request", "up"}
  StepDaemons = TRUE
  Faults = {}
  NULL = NULL
  ERROR = ERROR
  BAD = BAD
SPECIFICATION Spec
INVARIANT TrackedSessionsRunning
CHECK_DEADLOCK FALSE
