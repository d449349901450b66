CONSTANTS
  ThreadCount = 3
  MaxIterations = 4
  CreateMayFail = TRUE
  Units <- MCRows
  Chunk <- MCChunk

SPECIFICATION Spec

INVARIANTS
  TypeOK
  StableWhileComputing
  DecisionIsInformed
  ExitTogether
  OneTurnstileOpen
  ResultWithinOne
  FailedTeamHangs

PROPERTIES
  EventuallyReturns
  ImplementsLockstep

CHECK_DEADLOCK FALSE
