SPECIFICATION Spec
CONSTANTS
    BatchSize = 2
    MaxPolicyLag = 0
    RequiresGroupScoring = FALSE
    Shape <- MCShapes
    MaxGroups = 2
    MaxSteps = 2
    MaxPolicy = 1
    MaxCrashes = 0
INVARIANTS
    BatchesHoldGroups
