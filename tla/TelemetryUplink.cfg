SPECIFICATION FairSpec
CONSTANTS
  Bounds <- MCBounds
  Margin = 1
  DroneFloor = 1
  MaxDelta = 2
  BehaviorProfiles <- MCBehaviorProfiles
  Noise <- MCNoise
  Fleet <- MCFleet
  Batteries <- MCBatteries
  SeededRobots <- MCSeededRobots
  Elapsed <- MCElapsed
  MaxAttempts = 2
  MaxSamples = 2
  MaxTicks = 2
  None = None
INVARIANTS
  TypeOK
  NeverRefused
  StoredAsCaptured
  OneSendAtATime
PROPERTIES
  MotionIsLawful
  ShutdownCompletes
CHECK_DEADLOCK FALSE
