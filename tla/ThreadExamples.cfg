SPECIFICATION Spec
CONSTANTS
  MaxThreads = 3
  MaxHardness = 2
  MaxShot = 1
  GrowthFactor = 2
INVARIANTS
  UsesAreLive
  PositionsDistinct
  OneBreaker
  ReportsFailure
PROPERTIES
  ImplementsOrdered
  Terminates
