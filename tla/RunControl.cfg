\* One trial with up to three operations one after the other, or two trials at
\* once with one operation; the first trial has a sidecar.
CONSTANTS
  MaxSlots = 2
  WithSidecar = {1}
  Capacity = 2
  Grading = TRUE
  MaxOps = 3
SPECIFICATION Spec
\* The engine ends, and the operations are used up.
CHECK_DEADLOCK FALSE
INVARIANTS
  CompletedRunIsQuiet
  KillSweepsDeadRun
PROPERTIES
  EngineEnds
