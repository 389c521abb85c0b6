SPECIFICATION Spec
CONSTANTS
    Inputs <- MCInputs
    Laps <- MCLaps
    OfflineLaps <- MCOfflineLaps
    Lags = {0, 15}
    Depths = {5, 12}
    Registered = {1, 2}
    Keeps = {2}
    SwapExpected = 100
    SwapTimeout = 160
    MaxTroubles <- MCMaxTroubles
INVARIANTS
    StartsMeetTheirEnds
    EveryOpIsSwept
    CalmIsCalm
    IslandsLose
    CutsAreCovered
    VerdictsAreTrue
    
    AcceptedIsSound
CHECK_DEADLOCK FALSE
