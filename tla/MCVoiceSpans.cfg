SPECIFICATION FairSpec
CONSTANTS
    Settings <- Limits
    Lengths <- AllLengths
    Frame = 2
INVARIANTS
    TypeOK
    CutsInSilence
PROPERTIES
    SpansPartition
    LongestPauseChosen
    PlanningEnds
CHECK_DEADLOCK FALSE
