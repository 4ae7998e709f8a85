SPECIFICATION Spec
CONSTANTS
  Ids = {a, b}
  Threads = {t1, t2}
  Remotes = {}
  Cleaner = cleaner
  Ops = {"update", "info", "call", "logout", "auth_logout"}
  Faults = {"ttl", "lease", "crash", "body", "rollback", "store", "busy"}
  MaxFaults = 1
  None = None
SYMMETRY Symmetry
INVARIANT TypeOK BodyKeepsSession EndClosesSession
PROPERTY ImplementsSandbox ClaimLostToOwnEnd EndIsFinal
CHECK_DEADLOCK FALSE
