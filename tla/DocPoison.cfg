CONSTANTS
    MaxDeliveries = 1
    MaxEntries = 1
    NumOps = 1
    Workers = {w1}
    Apis = {a1}
    Operators = {}
    OtherWires = {}
SPECIFICATION DecidingSpec
CHECK_DEADLOCK FALSE
PROPERTIES
    PoisonQuarantined
