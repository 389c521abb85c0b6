SPECIFICATION FairSpec
CONSTANTS
    Profile = "compositeSmoke"
    Acts <- MCActs
    OpInfo <- MCOpInfo
    NoOp = 0
    NoHold <- MCNoHold
    Quiet <- MCQuiet
    Fork <- MCFork
    SlotSeconds = 5
    Injector = TRUE
    AnswersLost = TRUE
    LaunchTimes <- OnTime
    TickLen = 5
    Slack = 0
PROPERTIES
    StraddleIsReady
    EarlyHealMeansAllCrossed
    ImplementsOwner
    Terminates
