CONSTANTS
    Node = {1, 2}
    Nowhere = Nowhere
    MaxCrashes = 1
SPECIFICATION FairSpec
PROPERTY TaskLeavesDeadNode
CHECK_DEADLOCK FALSE
