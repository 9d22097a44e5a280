CONSTANTS
  NumNodes = 2
  NameKind <- Plain
  MaxSessions = 1
  MaxCancels = 1
  Requests <- AskOne
  Subtrees <- NodeOrRack
  Commands = {"request", "up", "cancel"}
  StepDaemons = FALSE
  Faults = {}
  NULL = NULL
  ERROR = ERROR
  BAD = BAD
SPECIFICATION Spec
INVARIANT CancelHonoured
CHECK_DEADLOCK FALSE
