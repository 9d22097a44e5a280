CONSTANTS
  NumNodes = 1
  NameKind <- Plain
  MaxSessions = 1
  MaxCancels = 1
  Requests <- AskOne
  Subtrees <- NodeOrRack
  Commands = {"up", "drain", "resume"}
  StepDaemons = FALSE
  Faults = {}
  NULL = NULL
  ERROR = ERROR
  BAD = BAD
SPECIFICATION Spec
INVARIANT OnlineNodeSchedulable
CHECK_DEADLOCK FALSE
