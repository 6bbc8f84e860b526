CONSTANTS
    Versions <- ThreeVersions
    Acceptances <- StrictAndLenient
    Misread <- AnyCode
    MaxCalls = 2
SPECIFICATION FairSpec
CHECK_DEADLOCK FALSE
INVARIANTS
    TrueExactlyWhenActed
PROPERTIES
    ActsAgainOnlyIfLate
    HandshakeEnds
