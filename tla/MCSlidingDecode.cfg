SPECIFICATION Spec
CONSTANTS
    Settings <- SmallSettings
    Lengths <- ShortLengths
    Window = 6
    Ticks <- AllTicks
    HalfSecond = 1
INVARIANTS
    TypeOK
    NextIsAhead
    SegmentsInOrder
    WholeAudioHeard
    NoAudioSkipped
CHECK_DEADLOCK FALSE
