SPECIFICATION FairSpec
CONSTANTS
    N = 2
    Fork = 1
    MaxHeight = 3
    Crossings <- Sparser
    Gap = 1
    Grace = 1
    Heals = FALSE
    MaxFails = 0
PROPERTY DisagreementFires
CHECK_DEADLOCK FALSE
