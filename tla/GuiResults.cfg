SPECIFICATION Spec
CONSTANTS
    Paths = {"a", "b", "c"}
    StartupPaths <- MCStartupPaths
    MaxClicks = 4
INVARIANT
    RowsOwnTheirResults
CHECK_DEADLOCK FALSE
