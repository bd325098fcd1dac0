SPECIFICATION Spec
CONSTANTS
    BatchSize = 2
    MaxPolicyLag = 1
    RequiresGroupScoring = FALSE
    Shape <- MCShapes
    MaxGroups = 3
    MaxSteps = 3
    MaxPolicy = 2
    MaxCrashes = 1
INVARIANTS
    TypeOK
    RolloutsUsedOnce
    BatchesHomogeneous
    TrainedOnRecordedBatches
    NeverWedged
PROPERTIES
    FreshWhenRecorded
