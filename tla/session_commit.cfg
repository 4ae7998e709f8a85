SPECIFICATION Spec
CONSTANTS
  Ids = {a, b}
  Threads = {t1, t2}
  Remotes = {}
  Cleaner = cleaner
  Ops = {"update", "login"}
  Faults = {}
  MaxFaults = 0
  None = None
SYMMETRY Symmetry
INVARIANT CallsOnlyFlush
CHECK_DEADLOCK FALSE
