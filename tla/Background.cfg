\* An engine, the one that continues its run, and a recovery, with a clock past the first
\* expiry; two callers of a latch daemon that may die, and a request that may fail.
CONSTANTS
  Engines = {p1, p2}
  Recoveries = {r1}
  TTL = 3
  Gap = 1
  Lag = 1
  MaxClock = 5
  MaxCommits = 1
  Callers = {p1, p2}
  Dispatches = {x}
  Daemons = {m1, m2}
  Tools = {"start", "refresh", "status", "current", "cancel"}
  MaxCalls = 2
  MaxCrashes = 1
  MaxGiveUps = 0
  MaxFailures = 1
  Nobody = Nobody
SPECIFICATION MCSpec
SYMMETRY Interchangeable
\* The clock is at its bound; the callers have made their calls.
CHECK_DEADLOCK FALSE
INVARIANTS
  SubmissionIsTrue
PROPERTIES
  LiveEngineIsSafe
  SnapshotIsCurrent
