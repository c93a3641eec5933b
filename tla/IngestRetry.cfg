SPECIFICATION Spec
CONSTANTS
  RobotIds = {r1}
  SeededRobots = {r1}
  SourceIds = {s1, s2}
  o1 = o1
  o2 = o2
  o3 = o3
  Observations <- MCTwoObservations
  RecordedAt <- MCTwoRecordedAt
  Ids = {i1, i2}
  Calls = {c1, c2}
  TelemetryRetention = 1
  MaxNow = 0
  None = None
INVARIANT
  SameContentIsAccepted
