CONSTANTS
    BufferSize   = 1
    Threshold    = 4
    LinearGrowth = 2
    MaxBytes     = 6
    Byte         = {0, 1}
    Zero         = 0
    MaxPush      = 3
SPECIFICATION Spec
INVARIANT TypeOK
PROPERTIES
    IsByteQueue
    GrowsOnlyWhenFull
    GrowthIsTight
