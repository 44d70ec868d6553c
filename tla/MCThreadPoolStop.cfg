CONSTANTS
    Workers     = {w1}
    Clients     = {c1}
    Nobody      = Nobody
    queue_size_ = 1
    MaxTasks    = 1
SPECIFICATION FairSpec
PROPERTY StopEndsWorkers
