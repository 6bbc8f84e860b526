CONSTANTS
    s1 = s1
    s2 = s2
    Serials <- TwoOperators
    BackoffMin = 1
    BackoffMax = 3
    Healthy = 2
    MaxReady = 2
SPECIFICATION FairSpec
INVARIANTS
    ActiveIsSubscribed
    NothingLeftBehind
PROPERTIES
    BackoffOnlyResetsWhenHealthy
    ImplementsChannel
    DropFallsBack
    KeepsTrying
    ThreadReleased
