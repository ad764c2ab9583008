SPECIFICATION Spec
CONSTANTS
  r1 = r1
  NotCached = NotCached
  Topology <- MCTopology
  Invocations = 2
  Request = {r1}
  Metric = {"betweenness"}
CHECK_DEADLOCK FALSE
INVARIANTS
  TypeOK
  MirrorFollowsRows
  AnswersAreOfTheNetwork
PROPERTIES
  CacheSettles
