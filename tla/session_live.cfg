SPECIFICATION FairSpec
CONSTANTS
  Ids = {a, b}
  Threads = {t1}
  Remotes = {r1}
  Cleaner = cleaner
  Ops = {"login", "logout"}
  Faults = {"lease", "ttl"}
  MaxFaults = 1
  None = None
PROPERTY StaleSessionClosed RequestsReturn
CHECK_DEADLOCK FALSE
