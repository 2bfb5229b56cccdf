CONSTANTS
    NoOne = NoOne
    Workers = {w1}
    Reapers = {r1}
    Cancellers = {c1}
    MaxAttempts = 2
    DbFaults = FALSE
SPECIFICATION Spec
CHECK_DEADLOCK FALSE
PROPERTY OwnershipFollowsContract
