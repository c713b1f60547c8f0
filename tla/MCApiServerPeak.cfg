SPECIFICATION Spec
CONSTANTS
    Requests = {r1}
    None = None
    BodySizes = {5}
    MaxUpload = 25
    Ram = 8000
    OtherUses = {0}
    Expansion = 20
    MaxPcm = 37
    Fixed = 148
    Cache = 18
    Pcms = {37}
    SpanRam = 60
    MaxSpans = 20
    Environments <- EasyAudio
INVARIANTS
    EstimateIsPeak
CHECK_DEADLOCK FALSE
