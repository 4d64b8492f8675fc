SPECIFICATION FairSpec
CONSTANTS
    Directories <- MCDirectories
    Options <- MCOptions
    Contents = {"self", "code", "lib"}
    High = {"self", "code", "lib"}
    SizeOf <- MCSizeOf
    ReportSizes = {1, 3}
    PreBytes = 3
    PreFiles = 2
    MaxBytes = 5
    MaxFiles = 4
    MaxDepth = 1
    MaxNodes = 2
    MaxChildBytes = 1
    SemTargets = 1
    MaxTargets = 1
    TotalMs = 3
    TimeoutMs = 2
    Producers = {"pck", "elf"}
    MaxOutput = 2
    MaxEvents = 1
INVARIANTS
    HardBound
    GraphIsHonest
    NoReportLost
    RetentionCoversMutation
    RuntimeWithinBudget
    StatesMatchDisk
PROPERTY
    Terminates
