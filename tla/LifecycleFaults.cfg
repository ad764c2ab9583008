CONSTANTS
  Simulation = {s1, s2}
  Scenario = {c1}
  FailureSet = {f1, f2}
  Worker = {w1, w2}
  None = None
  Faults = {"exception", "database", "publish", "crash", "hard_limit", "dispatch", "duplicate", "api_crash"}
  MaxFaults = 2
SYMMETRY Symmetry
SPECIFICATION SafetySpec
INVARIANTS
  TypeOK
  ServedResultsAreStored
  ToldCompletedCanRead
PROPERTIES
  ShowsTheLatestRun
  SettledStatusIsFinalWithoutFaults
  StoredResultsSurvive
CHECK_DEADLOCK FALSE
