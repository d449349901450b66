CONSTANTS
  WorkersCount = 2
  MaxJobs = 2
  Buffered = TRUE
  ReadMayFail = FALSE
  Shape <- MCShape

SPECIFICATION Spec

INVARIANT ResultsIntact

CHECK_DEADLOCK FALSE
