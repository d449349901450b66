CONSTANTS
  Team <- BuildingTeam
  Capacity <- BuildingCapacity
  Semaphores <- BuildingSemaphores
  Waits <- BuildingWaits
  Posts <- BuildingPosts
  Dependencies <- GraphOfReadme
  MaxFailures = 1

SPECIFICATION FairSpec

INVARIANTS DependenciesRespected DestroyedLast
PROPERTIES GraphCompletes

CHECK_DEADLOCK FALSE
