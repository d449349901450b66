CONSTANTS
  Capacity = 3
  Rounds = 3
  CreateMayFail = TRUE

SPECIFICATION FairSpec

INVARIANTS TypeOK EveryItemTaken
PROPERTIES ImplementsChannel Terminates

CHECK_DEADLOCK FALSE
