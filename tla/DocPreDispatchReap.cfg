CONSTANTS
    NoOne = NoOne
    Workers = {w1}
    Reapers = {r1}
    Cancellers = {}
    MaxAttempts = 2
    DbFaults = FALSE
SPECIFICATION FairSpec
CHECK_DEADLOCK FALSE
PROPERTY ExpiredRequestIsReaped
