\* Docker: two trials that do not fit at once, a sidecar both stages list and one of the
\* grader's own, a grading container: four units each.  Modal: two trials with separate
\* graders, one at a time.
CONSTANTS
  Trials = {t1, t2}
  Cap = 7
  MaxAttempts = 2
  AgentSidecars = {"s1"}
  GraderSidecars = {"s1", "s2"}
  Strategy = "Separate"
  ModalCap = 2
  Grading = "separate"
  MaxFaults = 1
SPECIFICATION MCSpec
\* The trials return, or recovery ends.
CHECK_DEADLOCK FALSE
INVARIANTS
  ContainersAreAccounted
  RuntimeIsFound
PROPERTIES
  TrialsReturn
