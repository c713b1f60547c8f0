SPECIFICATION FairSpec
CONSTANTS
    Settings <- SmallSettings
    Context = 8
    Words = {"a"}
    Stamps = {"t0", "t1"}
    Lead = "lead"
    Trail = "trail"
    EOT = "eot"
    Empty = "empty"
INVARIANTS
    CacheIsTheText
    OnlyRepetitionDropped
    SegmentsAreThePairs
    OnlyStopsCutCharacters
PROPERTIES
    DecodeEnds
CHECK_DEADLOCK FALSE
