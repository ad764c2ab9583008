SPECIFICATION Spec
CONSTANTS
  Node <- SevenNode
  NoCapacity = NoCapacity
  None = None
  StudyAreaCap = 14
  AreaUnit = 12
  Networks <- TwoWays
  InitialFailures <- FirstFails
  UserScenarios <- NoScenario
  MaxWaves = 50
  DefaultWaves = 50
  Limit = 10
  MaxRuns = 1
  MaxPosted = 20
INVARIANTS
  NoMitigationMakesItWorse
CHECK_DEADLOCK FALSE
