CONSTANTS
    Op = {o1, o2}
    CheckpointInterval = 2
    MaxCrashes = 1
SPECIFICATION Spec
INVARIANT AckedIsDurable
CHECK_DEADLOCK FALSE
