CONSTANTS
  NumNodes = 2
  NameKind <- Plain
  MaxSessions = 2
  MaxCancels = 1
  Requests <- AskAny
  Subtrees <- NodeOrRack
  Commands = {"request", "up", "down", "drain", "resume", "cancel"}
  StepDaemons = TRUE
  Faults = {"step", "send"}
  NULL = NULL
  ERROR = ERROR
  BAD = BAD
SPECIFICATION Spec
INVARIANTS TypeOK IndInv TerminationSound TrackedSessionsRunning KillFollowsLaunch CheckInsBelowNodes SessionInOnePlace
CHECK_DEADLOCK FALSE
