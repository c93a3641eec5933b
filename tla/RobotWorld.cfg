SPECIFICATION Spec
CONSTANTS
  r1 = r1
  r2 = r2
  Robots <- MCRobots
  Samples <- MCSamples
  Unplaced <- MCUnplaced
  Sizes <- MCSizes
  MaxAge = 3
  MaxSamples = 3
  Delay = 2
  MaxNow = 5
  MaxScene = 2
  None = None
CONSTRAINT Scene
INVARIANT
  SceneMatchesHost
  PairKept
PROPERTY
  RenderedNeverGoesBack
  CameraIsTheUsers
CHECK_DEADLOCK FALSE
