SPECIFICATION ServingSpec
CONSTANTS
    None = None
    Nobody = Nobody
    Requests = {r1, r2}
    Answers = {ok, bad}
    Calls = {1, 2}
    MaxEpochs = 2
    MaxGiveUps = 2
    Slots = {s1, s2}
    Prefetch = prefetch
    Adapters = {p1, p2, p3, p4}
    Bases = {}
    Size <- MCSize
    MaxBytes = 3
    MaxLoaded = 1
    MaxLeases = 3
    MaxCrashes = 1
    Attempts = 2
    Duration = 2
    Deadline = 3
    Handlers = {1, 2}
    MaxRequests = 2
    MaxFaults = 1
    EpisodeSlots = 1
    LastPolicy = 3
    Wanted = 2
    Blocks = 2
    Tries = 3
    External = TRUE
    Fallback = TRUE
    MaxVersions = 2
    MaxStops = 2
INVARIANTS
    InferenceSafe
    PoliciesSafe
    EpisodesSafe
    TransfersExact
PROPERTIES
    ImplementsService
CHECK_DEADLOCK FALSE
