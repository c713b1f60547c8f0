SPECIFICATION FairSpec
CONSTANTS
    Requests = {r1, r2, r3}
    None = None
    BodySizes = {2, 3, 4}
    MaxUpload = 3
    Ram = 19
    OtherUses = {0, 2}
    Expansion = 4
    MaxPcm = 12
    Fixed = 1
    Cache = 1
    Pcms = {8, 12}
    SpanRam = 1
    MaxSpans = 1
    Environments <- EachDecoder
INVARIANTS
    EnoughForTwo
    TempFilesAccounted
    LoadsIfAnyCanUnlessRead
PROPERTIES
    EveryUploadAnswered
CHECK_DEADLOCK FALSE
