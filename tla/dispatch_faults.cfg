SPECIFICATION Spec

CONSTANTS
    Jobs = {report, watchdog}
    RedeliverJobs = {}
    WatchdogJob = watchdog
    Ids = {i1, i2}
    Schedulers = {s1}
    Workers = {w1, w2}
    MaxRunningTasks = 2
    MaxOccurrence = 1
    MaxBodies = 2
    Forced = TRUE
    Faults <- AllFaults
    MaxFaults = 1
    None = None

SYMMETRY Symmetry

INVARIANTS
    TypeOK
    RunOwnsClaim
    OneOwnedRunPerJob
    ClaimAccounted
    FencedOnce

PROPERTIES
    ReleaseOnlyOwn
    RowNeverRequeued

CHECK_DEADLOCK FALSE
