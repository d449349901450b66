CONSTANTS
  Capacity = 3
  Rounds = 3
  CreateMayFail = TRUE

SPECIFICATION Spec

INVARIANT FreedAfterThreads

CHECK_DEADLOCK FALSE
