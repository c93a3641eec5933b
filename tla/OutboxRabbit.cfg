SPECIFICATION Spec
CONSTANTS
  Events = {1, 2}
  Publishers = {p1, p2}
  BatchSize = 2
  ClaimTicks = 1
  RetentionTicks = 1
  BrokerConfirms = FALSE
SYMMETRY Symmetry
VIEW WithoutNotes
INVARIANT LostOnlyUnflushed
