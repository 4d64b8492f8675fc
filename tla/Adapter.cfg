SPECIFICATION Spec
CONSTANTS
    Contents <- MCContents
    Target <- MCTarget
    Names = {"cleaned", "other"}
    InputLimit = 2
    TimeoutLimit = 2
    MemoryLimit = 2
    SwapLimit = 1
    ProcessLimit = 2
    OutputLimit = 2
    LogLimit = 2
    MaxFiles = 1
    MaxEvents = 3
INVARIANT ToolSeesAuthorizedBytes
INVARIANT SuccessIsClean
INVARIANT ProofIsOneLauncher
PROPERTY AnswersAndReaps
