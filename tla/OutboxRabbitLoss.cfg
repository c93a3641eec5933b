SPECIFICATION Spec
CONSTANTS
  Events = {1}
  Publishers = {p1}
  BatchSize = 1
  ClaimTicks = 1
  RetentionTicks = 1
  BrokerConfirms = FALSE
INVARIANT NoEventLost
