SPECIFICATION FairSpec
CONSTANTS
  Robots = {r1, r2}
  FirstFleet = {r1}
  Sockets = {s1, s2}
  r1 = r1
  r2 = r2
  LastSample <- MCLastSample
  MaxInbox = 1
  MaxMounts = 2
  None = None
INVARIANTS
  OneLink
  ShownIsLatest
  ReloadCatchesUp
PROPERTIES
  NeverRegresses
  LinkComesUp
CHECK_DEADLOCK FALSE
