SPECIFICATION FairSpec
CONSTANTS
    N = 2
    Fork = 1
    MaxHeight = 3
    Crossings <- Sparser
    Gap = 1
    Grace = 0
    Heals = TRUE
    MaxFails = 1

    
    
PROPERTIES
    EveryoneSettles
CHECK_DEADLOCK FALSE
