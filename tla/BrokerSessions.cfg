CONSTANTS
    read = read
    follow = follow
    listener = listener
    Presses <- NoPress
    Reads <- OneRead
    Follows <- OneFollow
    Listeners <- OneListener
SPECIFICATION BrokerFairSpec
PROPERTIES
    RefusedByItsOwnKind
    ListenerReturns
