SPECIFICATION FairEngineSpec
CONSTANTS
  NumSlots = 2
  Variants = {1}
  variant_idx <- MCvariant_idx
  MaxTrials = 6
  MaxAttempts = 4
  Workers = {w1, w2}
  Limit = 2
  MaxFailures = 1
  Budgets <- MCCrash
INVARIANTS
  NoSlotIsStranded
PROPERTIES
  EngineStops
  ScheduleCompletes
