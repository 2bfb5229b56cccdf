CONSTANTS
    MaxDeliveries = 1
    MaxEntries = 1
    NumOps = 1
    Workers = {w1}
    Apis = {a1}
    Operators = {}
    OtherWires = {}
SPECIFICATION Spec
CHECK_DEADLOCK FALSE
SYMMETRY Symmetry
PROPERTIES
    OutcomeKept
