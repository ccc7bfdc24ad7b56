CONSTANTS
    Node = {n1, n2}
    NoEntry = NoEntry
    MaxStamp = 2
    MaxFaults = 1
    Faulty = {n1}
SPECIFICATION FairSpec
INVARIANTS
    TypeOK
    NewestIsHeld
PROPERTIES
    MergeNeverRegresses
    Converges
CHECK_DEADLOCK FALSE
