CONSTANTS
    NoOne = NoOne
    Workers = {w1, w2}
    Reapers = {r1}
    Cancellers = {}
    MaxAttempts = 2
    DbFaults = TRUE
SPECIFICATION Spec
CHECK_DEADLOCK FALSE
SYMMETRY Symmetry
INVARIANTS
    TerminalMeansNoLiveProcess
    AtMostOneLaunch
    OwnershipNamesTheProcess
    SuccessIsNatural
    OrphanIsRecoverable
PROPERTIES
    TerminalIsFinal
    LostAuthorityStartsNothing
