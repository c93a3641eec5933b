SPECIFICATION FairSpec
CONSTANTS
  Events = {1, 2}
  Publishers = {p1, p2}
  BatchSize = 2
  ClaimTicks = 1
  RetentionTicks = 1
  BrokerConfirms = TRUE
INVARIANT TypeOK
INVARIANT NoEventLost
INVARIANT ClaimExclusive
INVARIANT ClaimHeld
PROPERTY PublishedIsFinal
PROPERTY EventualPublication
