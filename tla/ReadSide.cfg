SPECIFICATION FairSpec
CONSTANTS
  Rows <- MCRows
  FirstRows <- MCFirstRows
  Queries <- MCQueries
  Retention = 0
  MaxNow = 1
  None = None
INVARIANTS
  WalkIsComplete
PROPERTIES
  RetentionCatchesUp
CHECK_DEADLOCK FALSE
