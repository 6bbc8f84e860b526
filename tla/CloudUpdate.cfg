CONSTANTS
    cycle1 = cycle1
    user1 = user1
    user2 = user2
    job1 = job1
    job2 = job2
    open = open
    closed = closed
    low = low
    high = high
    Unknown = Unknown
    Nothing = Nothing
    Cycles <- OneCycle
    Users <- TwoUsers
    Jobs <- TwoJobs
    Positions <- TwoPositions
    Balances <- TwoBalances
    DiagAge = 1
    Attempts = 2
    MaxPulses = 1
SPECIFICATION MCSpec
PROPERTIES
    SwitchedAsAsked
    WorldIsShown
    BalanceIsShown
