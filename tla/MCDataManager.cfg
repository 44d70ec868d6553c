CONSTANTS
    Threads    = {t1, t2, t3}
    Urls       = {u1, u2}
    Paths      = {p1, p2}
    Infos      = {1, 2}
    NoThread   = NoThread
    NoRequest  = NoRequest
    NoAnswer   = NoAnswer
    MaxCalls   = 3
    MaxCrashes = 1
SYMMETRY Symmetry
SPECIFICATION Spec
CHECK_DEADLOCK FALSE
INVARIANT  TypeOK
PROPERTY   ImplementsTable
