SPECIFICATION FairServingSpec
CONSTANTS
    None = None
    Nobody = Nobody
    Requests = {r1, r2}
    Answers = {ok}
    Calls = {1, 2}
    MaxEpochs = 2
    MaxGiveUps = 1
    Slots = {s1, s2}
    Prefetch = prefetch
    Adapters = {p1, p2}
    Bases = {base}
    Size <- MCSize
    MaxBytes = 2
    MaxLoaded = 1
    MaxLeases = 3
    MaxCrashes = 1
    Attempts = 2
    Duration = 2
    Deadline = 3
    Handlers = {1, 2}
    MaxRequests = 1
    MaxFaults = 1
    EpisodeSlots = 1
    LastPolicy = 1
    Wanted = 1
    Blocks = 1
    Tries = 1
    External = FALSE
    Fallback = TRUE
    MaxVersions = 2
    MaxStops = 0
PROPERTIES
    ServingProgress
CHECK_DEADLOCK FALSE
