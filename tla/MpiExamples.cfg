SPECIFICATION Spec
CONSTANTS
  MaxSize = 4
  Buffer = 2
INVARIANTS
  DataArrives
PROPERTIES
  ImplementsOrdered
  Progress
