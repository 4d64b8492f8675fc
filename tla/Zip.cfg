SPECIFICATION Spec
CONSTANTS
    Archives <- MCArchives
    MaxMemberBytes = 2
    MaxTotalBytes = 2
    MaxRatio = 2
    MaxMembers = 3
    MaxDepth = 1
    Callers = {"c1", "c2"}
    Chunks = 2
    MaxCalls = 3
    MaxFaults = 1
INVARIANTS
    MembersKeepApart
    PublishedIsWhole
    LeftoversExplained
