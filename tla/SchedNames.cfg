CONSTANTS
  NumNodes = 2
  NameKind <- TwoFields
  MaxSessions = 1
  MaxCancels = 1
  Requests <- AskOneOrTwo
  Subtrees <- NodeOrRack
  Commands = {"request", "up"}
  StepDaemons = FALSE
  Faults = {}
  NULL = NULL
  ERROR = ERROR
  BAD = BAD
SPECIFICATION Spec
INVARIANT NamesSurvive
CHECK_DEADLOCK FALSE
