SPECIFICATION FairSpec
CONSTANTS
  Jobs = {report, watchdog}
  RedeliverJobs = {report}
  WatchdogJob = watchdog
  Ids = {i1, i2}
  Schedulers = {s1}
  Workers = {w1}
  MaxRunningTasks = 2
  MaxOccurrence = 1
  MaxBodies = 2
  Forced = FALSE
  Faults = {"publish", "stamp", "db", "inspect", "worker", "scheduler"}
  MaxFaults = 1
  None = None
PROPERTY ClaimReleased WatchdogReclaims
CHECK_DEADLOCK FALSE
