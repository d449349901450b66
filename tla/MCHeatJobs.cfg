SPECIFICATION Spec
CONSTANTS
  Plates <- MCPlates
  MaxJobs = 2
  MaxRows = 2
  MaxIterations = 3
  Durations = {59, 2678399, 28857600}
  Word = 2
  UpperHalves = {0, 1}
  IntMax = 63071999
INVARIANTS
  PlatesOwned
  ReportFaithful
PROPERTIES
  EachJobLockstep
