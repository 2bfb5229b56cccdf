SPECIFICATION MigrationSpec
CONSTANTS
    Procs = {p1}
    Origins <- AllOrigins
    MaxBoots = 3
    MaxFaults = 1
    Drifts = {}
INVARIANT CompleteSchemaResolvable
CHECK_DEADLOCK FALSE
