SPECIFICATION Spec

CONSTANTS
    Files = {f1, f2}
    LastDay = 1
    GroupAfter = 1
    KeepFor = 1
    Nothing = Nothing
    Runs = {n1, n2}
    NoJob = NoJob
    Exports = {e1, e2}
    TaskKeys = {k}
    TokenLife = 2
    LastMinute = 6
    NoZip = NoZip
    Launchers = {l1, l2}
    Modes = {"main", "monitor"}
    Forceful = {l2}
    Windows = TRUE
    MaxPid = 3
    NoFile = NoFile
    LastRev = 4
    Faulty = 1
    MaxMoves = 1
    NoDb = NoDb
    RoleIds = {r1, r2}
    Users = {u1}
    Admins = {u1}
    Groups = {"a", "b"}
    Parent <- MCParent
    Methods = {"GET", "PUT"}
    Requests <- MCRequests
    Calls = {c1, c2}
    NoRole = NoRole
    DeviceSockets = {s1, s2, s3}
    DeviceCodes = {d1, d2}
    MaxAttempts = 2
    NoDevice = NoDevice

SYMMETRY Symmetry

INVARIANTS
    OperationsTypeOK
    LogsKept
    LogReachable
    LinkServes
    SessionListed
    VerdictHonest
    RolesSound
    NewestStaysRegistered

CHECK_DEADLOCK FALSE
