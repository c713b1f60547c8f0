SPECIFICATION Spec
CONSTANTS
    Settings <- DefaultTimestamps
    Lengths <- LongLengths
    Window = 30
    Ticks <- EndOrEarly
    HalfSecond = 0
INVARIANTS
    FullUtterance
CHECK_DEADLOCK FALSE
