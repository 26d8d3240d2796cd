SPECIFICATION FairBrokerSpec
CONSTANTS
  NumSlots = 3
  Variants = {1, 2}
  variant_idx <- MCvariant_idx
  MaxTrials = 5
  MaxAttempts = 1
  Workers = {w1, w2}
  Limit = 1
INVARIANTS
  OwnedOnce
  VariantCap
  SleepsForAReason
  NoProtocolFault
PROPERTIES
  WorkersExit
CHECK_DEADLOCK FALSE
