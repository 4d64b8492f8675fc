SPECIFICATION FairSpec
CONSTANTS
    Paths = {"a", "b", "c"}
    StartupPaths <- MCStartupPaths
    MaxClicks = 4
INVARIANT
    OwnResultsWhenOrderly
PROPERTIES
    FinishedRowsAreFinal
    ClosedWindowWindsDown
    ComesToRest
CHECK_DEADLOCK FALSE
