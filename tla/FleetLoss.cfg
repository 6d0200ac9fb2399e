SPECIFICATION FairSpec
CONSTANTS
    c1 = c1
    h1 = h1
    Cloud = {c1}
    Local = {}
    Tick = tick
    Traits <- AnyTraits
    MaxClaims = 2
    MaxFaults = 2
    None = None
PROPERTY LostJobLeaves
CHECK_DEADLOCK FALSE
