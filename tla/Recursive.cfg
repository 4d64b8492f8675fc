SPECIFICATION FairSpec
CONSTANTS
    Contents <- MCContents
    SizeOf <- MCSizeOf
    MaxMembers = 2
    KindOf <- MCKindOf
    Selective <- MCSelective
    RootLists <- MCRootLists
    MaxDepth = 1
    MaxNodes = 4
    MaxBytes = 4
INVARIANTS
    WithinBudgets
    OnlyRootsRepeat
    CutsAreTold
    AllowanceIsEnough
    RefusalIsFinal
PROPERTY
    Terminates
