CONSTANTS
  Simulation = {s1, s2}
  Scenario = {}
  FailureSet = {f1}
  Worker = {w1, w2}
  None = None
  Faults = {"exception", "crash", "dispatch"}
  MaxFaults = 2
SPECIFICATION Spec
INVARIANTS
  AcceptedIsTracked
  OneExecutionAtATime
PROPERTIES
  AcceptedRunsSettle
  ListenerHearsTheEnd
CHECK_DEADLOCK FALSE
