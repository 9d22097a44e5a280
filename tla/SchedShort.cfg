CONSTANTS
  NumNodes = 2
  NameKind <- Plain
  MaxSessions = 2
  MaxCancels = 1
  Requests <- AskOneOrTwo
  Subtrees <- NodeOrRack
  Commands = {"request", "up"}
  StepDaemons = FALSE
  Faults = {}
  NULL = NULL
  ERROR = ERROR
  BAD = BAD
SPECIFICATION Spec
INVARIANT ShortAllocationSurvived
CHECK_DEADLOCK FALSE
