CONSTANTS
  NumNodes = 2
  NameKind <- Plain
  MaxSessions = 2
  MaxCancels = 1
  Requests <- AskOne
  Subtrees <- NodeOrRack
  Commands = {"request", "up"}
  StepDaemons = FALSE
  Faults = {}
  NULL = NULL
  ERROR = ERROR
  BAD = BAD
SPECIFICATION Spec
INVARIANT NodesExclusive
CHECK_DEADLOCK FALSE
