CONSTANTS
    c1 = c1
    c2 = c2
    NoCode = NoCode
    Calls <- TwoCalls
    Gates <- GateModels
    Garages <- TaggedGarages
SPECIFICATION FairSpec
INVARIANTS
    RunOnlyToGarages
    GateControlsOnlyOnGates
    KnownGarageOpens
PROPERTIES
    ControlsAppear
