SPECIFICATION FairSpec
CONSTANTS
    Inputs = {1, 2, 3}
    Priorities = {0, 1}
    Chunks = {1, 2}
    InlineBytes = 2
    PerReportBytes = 2
    WordMax = 6
    RenderBound = 3
    Interference = TRUE
PROPERTY
    TemporaryDirectoryRemoved
