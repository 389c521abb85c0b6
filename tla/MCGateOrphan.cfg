SPECIFICATION FairSpec
CONSTANTS
    OpInfo <- MCOpInfo
    NoOp = 0
    PostOp = 99
    NoHold <- MCNoTime
    NoTime <- MCNoTime
    StartLag = 25
    HealLag = 80
    ReleaseBy = 1080
    RunsPostOp = TRUE
    Window = 150
    DoneTimes <- Any
    Fallible <- NoCalls
    DriverDies = TRUE
    MeshSplits = FALSE
    Signals = FALSE
    TickLen = 15
    MaxTime = 1560

    
PROPERTIES
    OrphanHealed
CHECK_DEADLOCK FALSE
