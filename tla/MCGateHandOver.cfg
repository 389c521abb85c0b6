SPECIFICATION Spec
CONSTANTS
    OpInfo <- MCOpInfo
    NoOp = 0
    PostOp = 99
    NoHold <- MCNoTime
    NoTime <- MCNoTime
    StartLag = 25
    HealLag = 80
    ReleaseBy = 1080
    RunsPostOp = TRUE
    Window = 150
    DoneTimes <- MidwayOrLate
    Fallible <- PartitionAndClear
    DriverDies = TRUE
    MeshSplits = TRUE
    Signals = TRUE
    TickLen = 15
    MaxTime = 1710

    
PROPERTIES
    HealsOnlyUnheld
CHECK_DEADLOCK FALSE
