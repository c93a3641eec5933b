SPECIFICATION FairSpec
CONSTANTS
  Events = {e1, bad}
  Unparsable = {bad}
  Copies = {m1, m2, m3, m4}
  Consumers = {w1, w2}
  MaxDelivery = 3
  Prefetch = 2
  MaxPublishes = 1
  MaxCrashes = 1
  None = None
INVARIANTS
  NoMessageLost
  DeadLetterJustified
PROPERTIES
  QueuesDrain
CHECK_DEADLOCK FALSE
