CONSTANTS
    NoOne = NoOne
    Workers = {w1}
    Reapers = {r1, r2}
    Cancellers = {}
    MaxAttempts = 2
    DbFaults = FALSE
SPECIFICATION Spec
CHECK_DEADLOCK FALSE
SYMMETRY Symmetry
INVARIANTS
    ExhaustedOnlyAtLimit
PROPERTIES
    LapsedLeaseWritesNothing
