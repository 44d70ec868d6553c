CONSTANTS
    BufferSize        = 1
    Threshold         = 4
    LinearGrowth      = 2
    MaxBytes          = 12
    Producers         = {p1, p2, p3}
    Worker            = Worker
    Nobody            = Nobody
    Lengths           = {1, 3}
    Limited           = TRUE
    max_buffer_bytes_ = 5
    MaxSends          = 1
SPECIFICATION FairSpec
INVARIANTS
    TypeOK
    NoLossAtExit
    SwapIsSignalled
    LimitBoundsMemory
PROPERTIES
    ImplementsLogChannel
    AcceptedIsDelivered
    StopEndsThread
