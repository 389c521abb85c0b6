SPECIFICATION FairSpec
CONSTANTS
    Handlers = {h1, h2}
    Fork = fork
    Whole = whole
    None = none
    Fallible <- AllCalls
    QueueCap = 2
    Quiesces = TRUE
    Signals = TRUE
    ClientsStop = "briefly"
INVARIANTS
    StatusIsTrue
    OneFork
    IdleIsWhole
PROPERTIES
    NeverOverlap
    DrainedForGood
    
CHECK_DEADLOCK FALSE
