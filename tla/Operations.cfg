\* The lease: three operations, a clock past the second expiry.  Reruns: two and a
\* recovery, and a lease that lapses in the next second.  Packages: two commands and two
\* edits, the first of which makes the tasks fail their checks.  Login: two shells, three
\* tokens (a login and two refreshes of it, or two logins and one), a command that is killed.
CONSTANTS
  Ops = {op1, op2, op3}
  NoOp = NoOp
  TTL = 1
  MaxClock = 3
  Reruns = {p1, p2}
  Recoveries = {q1}
  LeaseTTL = 0
  LastSecond = 1
  Commands = {p1, p2}
  MaxEdits = 2
  Flawed = {2}
  Shells = {p1, p2}
  MaxIssued = 3
  MaxDeaths = 1
SPECIFICATION MCSpec
SYMMETRY Invocations
\* Operations are done and the clock is at its bound; the last token is issued.
CHECK_DEADLOCK FALSE
INVARIANTS
  ExclusiveUnlessRaced
  RerunsAndRecoveryAgree
  StartedRunIsItsPackage
  LoginIsKept
PROPERTIES
  FreshLeaseStays
