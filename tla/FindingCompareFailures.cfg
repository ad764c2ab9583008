CONSTANTS
  Simulation = {s1, s2}
  Scenario = {c1}
  FailureSet = {f1, f2}
  Worker = {w1, w2}
  None = None
  Faults = {}
  MaxFaults = 2
SYMMETRY Symmetry
SPECIFICATION SafetySpec
INVARIANT ComparedRunsShareFailures
CHECK_DEADLOCK FALSE
