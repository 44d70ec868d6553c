CONSTANTS
    max_size_  = 2
    NoFile     = NoFile
    MaxLen     = 2
    MaxBatches = 3
    MaxSecond  = 1
    MaxCrashes = 1
SPECIFICATION Spec
CHECK_DEADLOCK FALSE
INVARIANTS
    TypeOK
    FlushedSurvives
    BytesInOrder
    OverrunIsOneBatch
