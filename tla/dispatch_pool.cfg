SPECIFICATION Spec
CONSTANTS
  Jobs = {report, watchdog}
  RedeliverJobs = {}
  WatchdogJob = watchdog
  Ids = {i1, i2}
  Schedulers = {s1, s2}
  Workers = {w1, w2}
  MaxRunningTasks = 1
  MaxOccurrence = 2
  MaxBodies = 2
  Forced = FALSE
  Faults = {"stamp", "expiry"}
  MaxFaults = 1
  None = None
SYMMETRY Symmetry
INVARIANT PoolCap
CHECK_DEADLOCK FALSE
