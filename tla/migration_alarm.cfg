SPECIFICATION MigrationSpec

CONSTANTS
    LastRev = 4
    Faulty = 1
    MaxMoves = 0
    NoDb = NoDb

INVARIANT AlarmsAreTrue

CHECK_DEADLOCK FALSE
