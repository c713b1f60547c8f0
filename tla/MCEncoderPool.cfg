SPECIFICATION FairSpec
CONSTANTS
    NumWorkers = 2
    Jobs = {j1, j2, j3, j4}
    None = None
INVARIANTS
    TypeOK
    JobsConserved
    ReleasedUnderInference
    SentinelsSuffice
PROPERTIES
    NoInferenceAfterRelease
    ImplementsService
    ShutdownReturns
CHECK_DEADLOCK FALSE
