CONSTANTS
    MaxDeliveries = 2
    MaxEntries = 1
    NumOps = 2
    Workers = {w1, w2}
    Apis = {a1}
    Operators = {}
    OtherWires = {}
SPECIFICATION Spec
CHECK_DEADLOCK FALSE
SYMMETRY Symmetry
INVARIANTS
    ScanNotStranded
