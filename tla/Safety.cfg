CONSTANTS
    Op = {o1, o2, o3}
    CheckpointInterval = 1
    MaxCrashes = 1
    none = none
    n1 = n1
    n2 = n2
    n3 = n3
    p1 = p1
    m1 = m1
    m2 = m2
    rename = rename
    extraction = extraction
    c1 = c1
    c2 = c2
    c3 = c3
    x1 = x1
    x2 = x2
    x3 = x3
    x4 = x4
SPECIFICATION SafetySpec
INVARIANTS
    TypesOK
    MarkersMatch
    LossBounded
    PlansAreSound
PROPERTY ImplementsPendingOps
CHECK_DEADLOCK FALSE
