CONSTANTS
    Callers      = {c1, c2}
    NumSinks     = 2
    Limited      = TRUE
    PoolCapacity = 1
    MaxLogs      = 3
SPECIFICATION FairSpec
CHECK_DEADLOCK FALSE
INVARIANTS
    TypeOK
    SinksAreInStep
    CallerOrderIsKept
    SinksOutliveWorker
PROPERTY AcceptedReachesSinks
