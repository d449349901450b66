CONSTANTS
  ThreadCount = 3
  MaxIterations = 4
  CreateMayFail = TRUE
  TotalCells = 12
  Units <- MCUnits

SPECIFICATION DynamicSpec

INVARIANTS
  CellsTypeOK
  CellComputedOnce
  CounterBounded
  DecisionIsInformed

PROPERTIES
  EventuallyReturns
  ImplementsLockstep

CHECK_DEADLOCK FALSE
