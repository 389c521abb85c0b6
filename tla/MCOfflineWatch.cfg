SPECIFICATION FairSpec
CONSTANTS
    NullLimit = 2
    SlowReplay = TRUE
    MaxLost = 1
    MaxLate = 1

    
PROPERTIES
    HeardAgain
CHECK_DEADLOCK FALSE
