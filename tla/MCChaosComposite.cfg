SPECIFICATION Spec
CONSTANTS
    Profile = "composite"
    Acts <- MCActs
    OpInfo <- MCOpInfo
    NoOp = 0
    NoHold <- MCNoHold
    Quiet <- MCQuiet
    Fork <- MCFork
    SlotSeconds = 10
    Injector = TRUE
    AnswersLost = TRUE
    LaunchTimes <- AnyLaunch
    TickLen = 10
    Slack = 10
INVARIANTS
    OverstayIsKnown
    EndsWhole
PROPERTIES
    AlarmsAreEarned
