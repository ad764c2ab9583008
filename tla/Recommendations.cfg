SPECIFICATION Spec
CONSTANTS
  Node <- MCNode
  NoCapacity = NoCapacity
  None = None
  StudyAreaCap = 14
  AreaUnit = 12
  Networks <- MCNetworks
  InitialFailures <- MCInitialFailures
  UserScenarios <- MCUserScenarios
  MaxWaves = 3
  DefaultWaves = 5
  Limit = 2
  MaxRuns = 3
  MaxPosted = 20
INVARIANTS
  TypeOK
  PromisesAreKept
  SupplyClaimsAreTrue
  CountsEachResidentOnce
CHECK_DEADLOCK FALSE
