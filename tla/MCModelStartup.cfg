SPECIFICATION FairSpec
CONSTANTS
    Settings <- AllSettings
    Cores = 3
    Rooms <- UpToThree
    Memory <- SomeMemory
    Unknown = Unknown
    EncoderNeed = 3
    DecoderNeed = 1
INVARIANTS
    ServingIsComplete
    PickIsUsable
    ProbedSessionsFit
    LoadedWasChecked
    TakenFileIsWhole
PROPERTIES
    SecondResolutionAgrees
    StartupEnds
CHECK_DEADLOCK FALSE
