\* One run, two workers, four attempts of it; and one caller of latch that keeps asking, a
\* daemon that may die, one Cloud request that fails and one wait that ends too early; a
\* request for access that two loops of its worker serve with two commands and one lost call;
\* logs of five bytes, four events of two trials and the Cloud, two resources.
CONSTANTS
    Runs = {r1}
    Workers = {w1, w2}
    None = None
    MaxAttempts = 4
    MaxFaults = 2
    MaxCrashes = 1
    Callers = {c1}
    Dispatches = {x}
    Daemons = {m1, m2}
    Tools = {"start", "refresh"}
    MaxCalls = 0
    MaxGiveUps = 1
    MaxFailures = 1
    Nobody = Nobody
    MaxCommands = 2
    MaxLost = 1
    Letters = {"a", "b"}
    MaxBytes = 5
    Tails = {0, 1, 2}
    Trials = {1, 2}
    MaxRows = 4
    Limits = {1, 2, 10}
    EventLines = 2
    WatchLines = 1
    Resources = {"x", "y"}
    MaxVersion = 2
SPECIFICATION MCSpec
\* All runs are at their end.
CHECK_DEADLOCK FALSE
INVARIANTS
    AttemptsSettleTheRun
    ClientIsToldTheTruth
PROPERTIES
    WorkReachesTheCloud
