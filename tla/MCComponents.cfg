SPECIFICATION Spec
CONSTANTS
    DrGrpo = FALSE
    None = None
INVARIANTS
    TokensTrainedExactly
    ParallelismExact
    TrainerConsistent
    DeploymentSound
    ReportsTruthful
CHECK_DEADLOCK FALSE
