SPECIFICATION Spec
CONSTANTS
    ref = ref
    other = other
    island = island
    EL <- Three
    Minority = island
    Ref = ref
    MinHeight = 1
    Depth = 3
    TipMargin = 1
    WedgeTicks = 3
    MaxHeight = 6
    EarlyHeight = 2
    Doomed = 1
    MaxFaults = 1
    MaxFails = 1
INVARIANTS
    OkMeansUnwound
    
    AnchorTellsThemApart
CHECK_DEADLOCK FALSE
