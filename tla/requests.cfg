SPECIFICATION Spec

CONSTANTS
    Users = {u1}
    Clients <- MCClients
    Sessions = {s1, s2}
    Threads = {q1, q2}
    Life = 4
    Window = 2
    Grace = 2
    MaxNow = 4
    None = None
    Addresses = {a1}
    AccessKeys = {k1, k2}
    Calls = {c1, c2}
    CountWindow = 2
    MaxHits = 2
    BlockFor = 2
    KeyLife = 3
    LastTime = 8
    Horizon = 8
    PathClients = {p1}
    UserClients = {p2}
    MonitorClients = {p3}
    Arrivals = {v1, v2, v3}
    LimitWindow = 3
    LimitMax = 2
    Penalty = 2
    LastTick = 5
    Entries = {e1, e2, e3}
    Recorders = {d1, d2}
    MaxBuffered = 1
    Readers = {r1, r2, r3}
    Writers = {w1}
    Polls = 2
    MaxVersion = 2
    Free = Free

SYMMETRY Symmetry

INVARIANTS
    RequestsTypeOK
    RotationKeepsTokens
    AdmissionsBounded
    QuietFlushLosesNothing
    StaleOnlyFromRace

PROPERTIES
    BlocksOnlyGrow
    LockFreedByHolder

CHECK_DEADLOCK FALSE
