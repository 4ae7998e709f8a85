SPECIFICATION Spec
CONSTANTS
  Ids = {a, b}
  Threads = {t1, t2}
  Remotes = {r1}
  Cleaner = cleaner
  Ops = {"call", "auth_logout"}
  Faults = {}
  MaxFaults = 0
  None = None
SYMMETRY Symmetry
INVARIANT NestedCallsDoNotDeadlock
CHECK_DEADLOCK FALSE
