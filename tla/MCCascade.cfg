CONSTANTS
  a = a
  b = b
  c = c
  d = d
  ghost = ghost
  NoCapacity = NoCapacity
  Node <- MCNode
  Networks <- MCNetworks
  InitialFailures <- MCInitialFailures
  MaxWaves <- MCMaxWaves
SPECIFICATION Spec
INVARIANTS
  TypeOK
  FrontierExact
  WavesPartitionFailures
  DeltasFromOneSnapshot
  NoLoadCreated
  SpreadsAlongLinks
  FlagTellsTheTruth
  NeverTruncatedByLargeBound
PROPERTIES
  LatchedForGood
  EveryRunReturns
  ImplementsFullSweep
CHECK_DEADLOCK FALSE
