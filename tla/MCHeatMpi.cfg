CONSTANTS
  WorkersCount = 3
  MaxJobs = 4
  Buffered = FALSE
  ReadMayFail = TRUE
  Shape <- MCShape

SPECIFICATION Spec

INVARIANTS
  TypeOK
  ResultsIntact
  OneJobEach
  CompleteReport

PROPERTIES
  EventuallyWritten
  ImplementsJobFarm

CHECK_DEADLOCK FALSE
