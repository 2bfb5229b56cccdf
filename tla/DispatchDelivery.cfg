CONSTANTS
    MaxDeliveries = 2
    MaxEntries = 2
    NumOps = 1
    Workers = {w1, w2}
    Apis = {a1}
    Operators = {}
    OtherWires = {}
SPECIFICATION Spec
CHECK_DEADLOCK FALSE
SYMMETRY Symmetry
INVARIANTS
    HandlerEntriesBounded
    ChildClaimedOnce
    PublishedOnce
