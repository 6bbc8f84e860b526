CONSTANTS
    za = za
    au = au
    t1 = t1
    t2 = t2
    n1 = n1
    n2 = n2
    c1 = c1
    Regions <- TwoRegions
    Tokens <- TwoTokens
    NewForms <- TwoForms
    RegionForms <- OneChange
    MaxReloads = 2
SPECIFICATION FairSpec
INVARIANTS
    TokenTakesEffect
PROPERTIES
    TokenOfItsRegion
    NeverReplaced
    Recovers
