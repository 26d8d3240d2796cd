\* One slot (operations on different slots commute), three connections to either database.
SPECIFICATION TxSpec
CONSTANTS
  NumSlots = 1
  Variants = {1, 2}
  variant_idx <- MCvariant_idx
  MaxTrials = 2
  MaxAttempts = 2
  Conns = {k1, k2, k3}
  Backends = {"sqlite", "postgres"}
INVARIANTS
  JournalMatchesRows
PROPERTIES
  ImplementsStore
  ImplementsLedger
