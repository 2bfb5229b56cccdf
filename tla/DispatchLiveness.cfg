CONSTANTS
    MaxDeliveries = 2
    MaxEntries = 1
    NumOps = 1
    Workers = {w1}
    Apis = {a1}
    Operators = {}
    OtherWires = {}
SPECIFICATION FairSpec
CHECK_DEADLOCK FALSE
PROPERTIES
    IntentSettled
