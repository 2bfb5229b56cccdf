SPECIFICATION MigrationFairSpec
CONSTANTS
    Procs = {p1, p2}
    Origins <- AllOrigins
    MaxBoots = 3
    MaxFaults = 1
    Drifts <- DriftObjects
INVARIANT RowsKept
PROPERTIES ServesVerifiedSchema KeepsHistory StartupEnds
CHECK_DEADLOCK FALSE
