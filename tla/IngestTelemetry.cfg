SPECIFICATION FairSpec
CONSTANTS
  RobotIds = {r1, r2}
  SeededRobots = {r1}
  SourceIds = {s1, s2}
  o1 = o1
  o2 = o2
  o3 = o3
  Observations <- MCObservations
  RecordedAt <- MCRecordedAt
  Ids = {i1, i2}
  Calls = {c1, c2}
  TelemetryRetention = 1
  MaxNow = 2
  None = None
INVARIANTS
  TypeOK
  AcceptedOncePerWindow
  CurrentIsNewest
  AnswersAreTrue
PROPERTIES
  CurrentNeverRegresses
  ImplementsLedger
  EveryRequestAnswered
CHECK_DEADLOCK FALSE
