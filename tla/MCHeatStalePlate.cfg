CONSTANTS
  ThreadCount = 3
  MaxIterations = 4
  CreateMayFail = FALSE
  Units <- MCRows
  Chunk <- MCChunk

SPECIFICATION Spec

INVARIANT ResultIsFinalPlate

CHECK_DEADLOCK FALSE
