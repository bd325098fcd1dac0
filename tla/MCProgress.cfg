SPECIFICATION ProgressSpec
CONSTANTS
    s1 = s1
    s2 = s2
    p1 = p1
    p2 = p2
    q1 = q1
    q2 = q2
    q3 = q3
    q4 = q4
    None = None
    Session = {s1}
    Payload = {p1}
    Request = {q1, q2}
    AttemptLimit = 2
    LeaseDuration = 2
    RetryBase = 1
    RetryMax = 2
    Source <- MCSource2
    Kind <- MCTrainEval
    GroupSize <- MCOnes
    MaxAttempts <- MCTwos
    Timeout <- MCTimeouts
    Cost <- MCCosts
    Slots = 1
    MaxPolicyLag = 0
    Preference = 0
    MaxGroups = 2
    MaxPolicy = 1
    LoadedSets <- MCNothingLoaded
    Horizon = 1
    MaxClock = 3
PROPERTIES
    WorkEnds
    QueueMoves
