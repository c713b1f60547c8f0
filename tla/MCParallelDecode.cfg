SPECIFICATION FairSpec
CONSTANTS
    NumWorkers = 2
    Requests = {r1, r2}
    MaxChunks = 3
    None = None
INVARIANTS
    LeftoversAreAhead
    NobodyWaitsForClosedPool
PROPERTIES
    EveryRequestAnswered
    ImplementsTranscription
CHECK_DEADLOCK FALSE
