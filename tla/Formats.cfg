SPECIFICATION Spec
CONSTANTS
    WordLimit = 64
    PakEntryBudget = 5
    IoEntryBudget = 3
    IoBlockBudget = 3
    SignatureBudget = 1
    kMaxFunctions = 3
    kMaxDecodedStringBytes = 4
    kMaxOpcodeBytes = 4
    kMaxLibraries = 2
    kMaxStrings = 3
    kMaxStringBytes = 7
    kMaxConstants = 3
    kMaxCanonicalNames = 3
    kMaxPath = 10
    kMaxSources = 2
    kMaxSourceBytes = 140
    kMaxLineStarts = 3
    MaxDirectString = 6
    MaxProblems = 2
    kMaxIndexedNodes = 4
    kMaxFeatures = 3
    kMaxNesting = 4
    kMaxMethodCodeUnits = 9
    kMaxAggregateCodeUnits = 15
    kMaxLibraryLoads = 2
    max_facts = 5
    kMaxPoolStrings = 12
    kMaxEntryCount = 2
    kMaxSpecEntries = 2
    kMaxPackageName = 128
    kMaxDepth = 3
    kMaxInstructions = 11
    kMaxRows = 3
    kMaxEvidence = 4
    kMaxHermesProbeEntries = 3
    kMaxHermesProbeBytes = 4
    kMaxDexDeepEntryBytes = 2
    kMaxDexDeepTotalBytes = 4
    kMaxDexDeepEntries = 2
    kMaxNativeDeepEntryBytes = 3
    kMaxNativeDeepTotalBytes = 4
    kMaxUnityMetadataParses = 1
    kMaxUnityMetadataParseBytes = 3
    kMaxUnityMetadataBytes = 2
    kMaxManifestBytes = 1
    kMaxResourceTableBytes = 1
    kMaxGodotLegacyConfigBytes = 1
    kMaxRootFileBytes = 4
    kMaxJniEvidence = 3
    kMaxRelations = 5
    kMaxTableCount = 3
    kMaxVariantDepth = 1
    kMaxVariantNodes = 3
    max_decompressed_size = 10
    kMaxConstantTable = 8
    kMaxConstantDepth = 3
    kMaxConstantNodes = 6
    SummaryCap = 16
    SummaryDepth = 2
    SummaryItems = 4
    MAX_RECORD_STRIDE = 3
    MAX_RECORD_COUNT = 6
    MAX_CANDIDATE_EVALUATIONS = 22
    MAX_INDIRECT_CALLS_PER_FUNCTION = 4
    kMaxInitInstructions = 6
    kMaxBackwardInstructions = 3
    kMaxMethods = 2
    kMaxSlots = 2
    kMaxInittab = 3
    kMaxModuleSize = 2
    kMaxDirectHelpers = 3
    kMaxTypeMethods = 2
    kMaxEntries = 3
    kMaxDistinctKeyCandidates = 2
    kMaxProbeEntries = 1
    kMaxScriptValidations = 1
    kMaxEncryptedFileProbes = 2
    kMaxStream = 4
    max_output_bytes = 3
    max_output_files = 2
    kMaxStringArray = 4
    kMaxCallDepth = 2
    kMinResolved = 3
    kMaxDescriptors = 2
    kMaxScripts = 2
    kMaxScriptBytes = 2
    kMaxTail = 8
    kMaxEntryLength = 3
    kMaxMember = 4
    kMaxSections = 3
    kRangeCap = 2
    kMaxTypes = 3
    kMaxFieldDescriptors = 3
    kMaxFields = 3
    kMaxPointers = 19
    kMaxSwiftStrings = 7
    kMaxSwiftStringBytes = 17
    kMaxString = 2
    kMaxContextDepth = 2
    TraceSteps = 4
    ChainHops = 3
    MaxFunctionBytes = 9
    MaxDecoded = 8
    MaxSehCount = 20
    kMaxHookFunctions = 3
    kMaxSites = 3
    kMaxBlocks = 2
    EntryWindow = 6
    LowImports = 4
    kMaxApis = 2
    kCPythonTextBlockSize = 2
    kShallowBlocks = 2
    kMinTable = 4
    kMinHandlers = 3
    kStrayEntries = 1
    kMaxOpcodes = 8
    kMaxFrozenCandidates = 1
    kMaxMarshalDepth = 5
    kMaxFrozenTables = 3
    kMaxFrozenEntries = 3
    kMaxFrozenName = 3
    kMaxFrozenBlob = 60
    kMaxGetterBytes = 4
    kMaxGetterInstructions = 5
    kPy311CodeAdaptiveOffset = 3
    kMaxPy311CodeUnits = 2
    kMinHelperCalls = 6
    ByteBase = 32
    kMaxCodecNodes = 12
    kMaxCodecStringBytes = 15
    kMaxCodecDepth = 3
    kScriptCap = 2
    kReferenceCap = 3
    kScriptBytes = 3
    kTotalBytes = 4
    InterestingPaths = 3
    kMaxAlwaysInit = 2
    kDependencyCap = 2
    kBridgeMethodCap = 2
    kMethodRanges = 4
INVARIANT RangesInside
INVARIANT ContainersAreExact
INVARIANT BytecodeIsExact
INVARIANT RelationsAreExact
INVARIANT GenerationsAreEarned
CHECK_DEADLOCK FALSE
