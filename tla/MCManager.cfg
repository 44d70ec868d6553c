CONSTANTS
    Threads       = {t1, t2}
    Paths         <- MCPaths
    DottedNames   = {"c."}
    Home          <- MCHome
    Nowhere       = Nowhere
    Names         = {"n1"}
    Loggers       = {1, 2}
    DefaultLogger = 0
    NoLogger      = NoLogger
    NoThread      = NoThread
    Configs       = {"noBufferSize", "noLinearGrowth", "mistyped"}
    MaxCalls      = 3
    MaxMessages   = 1
SPECIFICATION FairSpec
CHECK_DEADLOCK FALSE
INVARIANTS
    TypeOK
    FolderIsThere
    LoggersLiveWhileHeld
PROPERTY CallsReturn
