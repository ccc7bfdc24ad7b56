CONSTANTS
    Node = {1, 2}
    Nowhere = Nowhere
    MaxCrashes = 2
    task = task
    self = self
    other = other
    NoNode = NoNode
    Local = Local
    MaxRuns = 3
SPECIFICATION ProgressSpec
INVARIANT TypeOK
PROPERTIES
    DeadIsNoticed
    
    WorkSettles
CHECK_DEADLOCK FALSE
