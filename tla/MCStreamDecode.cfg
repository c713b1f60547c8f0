SPECIFICATION Spec
CONSTANTS
    Settings <- SmallSettings
    Lengths <- ShortLengths
    Speeches <- AnySpeech
    Quiet = 0
    MaxMerge = 2
INVARIANTS
    SpansCover
    SaidOnce
    OnlyEchoesDropped
CHECK_DEADLOCK FALSE
