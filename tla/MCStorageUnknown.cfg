CONSTANTS
    Names        = {f}
    None         = None
    Sizes        = {1, 2}
    SizeBits     = 4
    MaxUploads   = 2
    MaxDownloads = 2
    MaxSecond    = 2
    MaxCrashes   = 0
SPECIFICATION Spec
CHECK_DEADLOCK FALSE
INVARIANT UnknownUrlIsRefused
