SPECIFICATION Spec
CONSTANTS
    Settings <- DefaultSettings
    Lengths <- OneMinute
    Speeches <- NoSilence
    Quiet = 0
    MaxMerge = 48
INVARIANTS
    OverlapDropped
CHECK_DEADLOCK FALSE
