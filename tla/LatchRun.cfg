\* Two cases, of one directory or of two, with each kind of grader; an agent that may be idle
\* for one poll and run for two.
CONSTANTS
  CaseCount = 2
  Graders = {"none", "diff", "unchanged", "file", "presence", "command", "llm_judge"}
  Wall = 2
  Idle = 1
  OnStdin = TRUE
SPECIFICATION Spec
\* A run is over when it has a result or has failed.
CHECK_DEADLOCK FALSE
INVARIANTS
  CaseStandsAlone
PROPERTIES
  RunEnds
