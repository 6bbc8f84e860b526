CONSTANTS
    gate = gate
    io1 = io1
    p1 = p1
    p2 = p2
    NoIo = NoIo
    NotListed = NotListed
    Actions <- OneAction
    Ios <- OneIo
    Presses <- TwoPresses
    Cycles <- TwoCycles
    MaximumTriggers = 1
    SharedInterval = 1
    MaxEdits = 1
    MaxTriggers = 3
SPECIFICATION MCSpec
INVARIANTS
    OpensAccounted
    EndedAccessMovesNothing
    LimitOverrunBounded
PROPERTIES
    ListCatchesUp
