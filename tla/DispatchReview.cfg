CONSTANTS
    MaxDeliveries = 1
    MaxEntries = 1
    NumOps = 1
    Workers = {w1, w2}
    Apis = {a1}
    Operators = {p1}
    OtherWires = {"LEGACY", "REJECTED"}
SPECIFICATION Spec
CHECK_DEADLOCK FALSE
SYMMETRY Symmetry
INVARIANTS
    DispatchInv
PROPERTIES
    UnreviewedEvidenceKept
