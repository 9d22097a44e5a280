CONSTANTS
  NumNodes = 2
  NameKind <- Plain
  MaxSessions = 3
  MaxCancels = 1
  Requests <- AskOneOrTwo
  Subtrees <- NodeOrRack
  Commands = {"request", "up", "info"}
  StepDaemons = TRUE
  Faults = {}
  NULL = NULL
  ERROR = ERROR
  BAD = BAD
SPECIFICATION Spec
INVARIANTS AllocatedNodesOwned CheckInsAddUp
PROPERTY NoOvertaking
CHECK_DEADLOCK FALSE
