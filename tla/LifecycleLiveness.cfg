CONSTANTS
    NoOne = NoOne
    Workers = {w1}
    Reapers = {r1}
    Cancellers = {}
    MaxAttempts = 2
    DbFaults = TRUE
SPECIFICATION FairSpec
CHECK_DEADLOCK FALSE
PROPERTIES
    DispatchedRunEnds
    AuthorityLossStopsProcess
