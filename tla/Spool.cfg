SPECIFICATION Spec
CONSTANTS
    Inputs = {1, 2, 3, 4}
    Priorities = {0, 1}
    Chunks = {1, 2}
    InlineBytes = 4
    PerReportBytes = 2
    WordMax = 9
    RenderBound = 3
    Interference = FALSE
INVARIANTS
    Accounting
    PeakIsHonest
    NoInternalFailure
    NoFalseAlarm
    GreedySelection
    NoNeedlessLoss
    ReasonsAreTrue
