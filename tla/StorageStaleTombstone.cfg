CONSTANTS
    Node = {n1, n2}
    NoEntry = NoEntry
    MaxStamp = 2
    MaxFaults = 0
    Faulty = {}
SPECIFICATION Spec
PROPERTY RemovesOnlyDeleted
CHECK_DEADLOCK FALSE
