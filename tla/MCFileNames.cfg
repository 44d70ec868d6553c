CONSTANTS
    Inputs           <- MCInputs
    LineLengths      = {0, 64, 76}
    download_prefix_ <- MCPrefix
    NoLink           = NoLink
SPECIFICATION NamesSpec
CHECK_DEADLOCK FALSE
INVARIANTS
    RoundTrip
    LinkLeadsBack
