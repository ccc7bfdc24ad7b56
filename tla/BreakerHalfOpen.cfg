CONSTANTS
    Node = {n1, n2}
    Slot = {s1}
    FailureThreshold = 1
    SuccessThreshold = 2
    OpenDuration = 1
    MaxOpenDuration = 3
SPECIFICATION ProbingSpec
PROPERTY HalfOpenResolves
CHECK_DEADLOCK FALSE
