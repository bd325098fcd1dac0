SPECIFICATION RanksSpec
CONSTANTS
    DrGrpo = FALSE
    None = None
INVARIANT RanksInSync
CHECK_DEADLOCK FALSE
