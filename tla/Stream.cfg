CONSTANTS
    NumInputs = 2
    RowCounts <- OneLonger
    BatchSizes = {1, 2}
    MaxRetry = 2
    MaxFiles = 2
    MaxOverlap = 2

SPECIFICATION FairSpec

INVARIANTS
    TypeOK
    CheckpointSound
    OutputComplete
    LostFilesAreResults

PROPERTIES
    Completes

CHECK_DEADLOCK FALSE
