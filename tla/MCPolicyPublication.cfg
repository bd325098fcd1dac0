SPECIFICATION FairSpec
CONSTANTS
    MaxSteps = 3
    KeepLast = 1
    Distributed = TRUE
    MaxFaults = 3
INVARIANTS
    TypeOK
    ActiveResumable
    HandoffWhole
    OneLineage
    ActivatedDownloadable
PROPERTIES
    BatchesBecomePolicies
CHECK_DEADLOCK FALSE
