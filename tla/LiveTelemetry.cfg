CONSTANTS
    s1 = s1
    closed = closed
    NoLabel = NoLabel
    NoFrame = NoFrame
    Serials <- OneOperator
    Labels <- OneLabel
    Cycles <- OneCycle
    TTL = 2
    ScanInterval = 2
    SlowInterval = 3
    ForceFloor = 2
    MaxReady = 1
SPECIFICATION FairSpec
INVARIANTS
    CacheAndDataAgree
    FollowLabelEndsWithFollow
PROPERTIES
    RadioRests
    FollowEnds
    TelemetryGoesOn
