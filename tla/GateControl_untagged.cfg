CONSTANTS
    c1 = c1
    c2 = c2
    NoCode = NoCode
    Calls <- OneCall
    Gates <- GateModels
    Garages <- UntaggedGarage
SPECIFICATION Spec
INVARIANT
    HolidayLockNeverToKnownGarage
