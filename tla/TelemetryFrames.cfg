CONSTANTS
    NoCode = NoCode
    Lengths <- BoundaryLengths
    Codes <- BoundaryCodes
SPECIFICATION Spec
INVARIANTS
    BodyNotOverrun
    GarageReadAsGarage
    ClassifiedByReportedCode
