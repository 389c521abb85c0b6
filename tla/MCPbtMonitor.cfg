SPECIFICATION FairSpec
CONSTANTS
    Clients = 2
    DTail = 2
    ETail = 3
    ProbeEvery = 2
    Settle = 1
    MaxCuts = 1
    MaxFaults = 1

    
PROPERTIES
    RejectionsAreTold
    StuckIsFound
CHECK_DEADLOCK FALSE
