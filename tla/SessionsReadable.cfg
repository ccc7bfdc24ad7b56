CONSTANTS
    Message = {m1, m2}
    Rename = {r1}
    Extraction = {}
    MinNew = 2
    MaxBatch = 2
SPECIFICATION Spec
INVARIANT SessionIsReadable
CHECK_DEADLOCK FALSE
