CONSTANTS
    a = a
    b = b
    Step = {a, b}
    Graphs <- MCGraphs
    MaxExecs = 2
    MaxFaults <- MCFaults
SPECIFICATION FairSpec
INVARIANTS
    TypeOK
    DependenciesFirst
    CompletedIsWhole
    NoStepOutlivesItsRun
PROPERTIES
    NoCompletedStepRepeats
    
CHECK_DEADLOCK FALSE
