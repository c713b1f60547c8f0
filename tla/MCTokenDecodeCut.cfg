SPECIFICATION Spec
CONSTANTS
    Settings <- DefaultSettings
    Context = 7
    Words = {"a"}
    Stamps = {"t0", "t1"}
    Lead = "lead"
    Trail = "trail"
    EOT = "eot"
    Empty = "empty"
INVARIANTS
    TruncationIsNoError
CHECK_DEADLOCK FALSE
