CONSTANTS
  Simulation = {s1, s2}
  Scenario = {c1}
  FailureSet = {f1, f2}
  Worker = {w1, w2}
  None = None
  Faults = {"dispatch", "database"}
  MaxFaults = 2
SYMMETRY Symmetry
SPECIFICATION SafetySpec
INVARIANT PendingIsTracked
CHECK_DEADLOCK FALSE
