SPECIFICATION FairSpec
CONSTANTS
    Converters = {"geth"}
    Exporters = {"erigon"}
    Queue <- MCQueue
    Source <- MCSource
    Fork = 960
    ExportAfter = 60
    Margin = 180
    Expected = 120
    Timeout = 180
    Windows <- MCWindows
    None = "none"
    Failures = TRUE
    Signals = TRUE
    TickLen = 60
    MaxTime = 1020
INVARIANTS
    OneDown
    OkMeansImported
    DownOutsideChaos
PROPERTIES
    Terminates
CHECK_DEADLOCK FALSE
