CONSTANTS
    Workers     = {w1, w2, w3}
    Clients     = {c1, c2}
    Nobody      = Nobody
    queue_size_ = 2
    MaxTasks    = 2
SPECIFICATION FairSpec
INVARIANTS
    TypeOK
    FrontDefined
    NoTaskSleptOver
    NoStrandedTask
PROPERTIES
    ImplementsTaskPool
    AcceptedTaskRuns
