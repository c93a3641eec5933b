SPECIFICATION FairSpec
CONSTANTS
  r1 = r1
  e1 = e1
  e2 = e2
  e3 = e3
  bad = bad
  Robots = {r1}
  Events <- MCEvents
  Malformed = {bad}
  RobotOf <- MCRobotOf
  EventRecordedAt <- MCRecordedAt
  Reading <- MCReading
  Handlers = {w1, w2}
  ProcessedRetention = 1
  MaxNow = 2
  None = None
INVARIANTS
  AlertsAreTheTransitions
  CriticalStretchAlertsOnce
  HealthIsNewest
  CompletedIsProcessed
PROPERTIES
  ImplementsLedger
  EveryDeliverySettles
CHECK_DEADLOCK FALSE
