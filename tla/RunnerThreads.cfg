\* Three threads that pull one image for two platforms, one pull at a time, one call each;
\* three callers of the writer with two writes each; three lines of events, two attempts, a
\* commit with the first or the second attempt of its slot; a trial of two attempts, graded or
\* not, under three retry policies; every package over two images
\* and two variants, with two probe threads; two processes, or one and the next, with two
\* threads each and an artifact of two entries.
CONSTANTS
  Threads = {t1, t2, t3}
  Refs = {r1}
  Platforms = {"amd64", "arm64"}
  MaxPulls = 1
  MaxCalls = 1
  Callers = {c1, c2, c3}
  MaxWrites = 2
  MaxLines = 3
  MaxAttempts = 2
  SlotAttempts = {1, 2}
  PkgImages = 2
  Variants = 2
  Probers = {w1, w2}
  Procs = {p1, p2}
  Jobs = {j1, j2}
  Entries = 2
SPECIFICATION MCSpec
\* Each part comes to its end.
CHECK_DEADLOCK FALSE
INVARIANTS
  PullsAreSerialized
  RecordsAreTrue
  StartedRunWasTried
  CachesAreWhole
PROPERTIES
  ThreadsFinish
