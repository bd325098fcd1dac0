SPECIFICATION Spec
CONSTANTS
    s1 = s1
    s2 = s2
    p1 = p1
    p2 = p2
    q1 = q1
    q2 = q2
    q3 = q3
    q4 = q4
    None = None
    Session = {s1, s2}
    Payload = {p1}
    Request = {q1, q2, q3}
    AttemptLimit = 2
    LeaseDuration = 2
    RetryBase = 1
    RetryMax = 2
    Source <- MCSource1
    Kind <- MCTrain
    GroupSize <- MCTwo
    MaxAttempts <- MCTwo
    Timeout <- MCTimeout
    Cost <- MCOne
    Slots = 1
    MaxPolicyLag = 0
    Preference = 0
    MaxGroups = 1
    MaxPolicy = 1
    LoadedSets <- MCNothingLoaded
    Horizon = 4
    MaxClock = 4
SYMMETRY Symmetric
INVARIANTS
    TypeOK
    OneActiveLease
    OneOutcome
    RetryBudget
    CancelledWorkEnds
    LeasesEndByDeadline
    StaleWorkCancelled
    ReadyMeansSettled
    SlotsRespected
    LeaseAnswersOneRequest
PROPERTIES
    LateAnswersLose
    NoStaleLease
