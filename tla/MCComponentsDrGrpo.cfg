SPECIFICATION StepSpec
CONSTANTS
    DrGrpo = TRUE
    None = None
INVARIANT DenominatorPerResponse
CHECK_DEADLOCK FALSE
