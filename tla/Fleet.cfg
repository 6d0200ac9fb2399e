SPECIFICATION Spec
CONSTANTS
    c1 = c1
    h1 = h1
    Cloud = {c1}
    Local = {h1}
    Tick = tick
    Traits <- AnyTraits
    MaxClaims = 2
    MaxFaults = 1
    None = None
INVARIANTS TypeOK CompletedStored
PROPERTY PromiseKept
CHECK_DEADLOCK FALSE
