CONSTANTS
    p1 = p1
    Unknown = Unknown
    Presses <- OnePress
    Cycles <- TwoCycles
    FollowTime = 1
    TTL = 1
    MaxFollowers = 2
SPECIFICATION FairSpec
INVARIANTS
    OneFollower
PROPERTIES
    FollowEnds
    ShownWhereItRests
