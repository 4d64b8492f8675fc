--------------------------- MODULE StaticAnalyses ---------------------------
(***************************************************************************)
(* The static parsers as one machine: an input of one of the formats is    *)
(* there, the parser of that format runs and leaves its result.  The       *)
(* parsers themselves are operators of the modules instantiated here; the  *)
(* inputs are a well-formed one per format and all that differ from it in  *)
(* at most two fields.  The builder of the materialization graph is one of *)
(* them: its input stands for the recorded timeline of a run.              *)
(***************************************************************************)
EXTENDS Words

CONSTANTS PakEntryBudget, IoEntryBudget, IoBlockBudget, SignatureBudget,
          kMaxFunctions, kMaxDecodedStringBytes, kMaxOpcodeBytes,
          kMaxLibraries, kMaxStrings, kMaxStringBytes, kMaxConstants, kMaxCanonicalNames, kMaxPath, kMaxSources, kMaxSourceBytes,
          kMaxLineStarts, MaxDirectString, MaxProblems, kMaxIndexedNodes, kMaxFeatures,
          kMaxNesting, kMaxMethodCodeUnits, kMaxAggregateCodeUnits, kMaxLibraryLoads, max_facts,
          kMaxPoolStrings, kMaxEntryCount, kMaxSpecEntries, kMaxPackageName, kMaxDepth, kMaxInstructions, kMaxRows, kMaxEvidence,
          kMaxHermesProbeEntries, kMaxHermesProbeBytes, kMaxDexDeepEntryBytes, kMaxDexDeepTotalBytes, kMaxDexDeepEntries,
          kMaxNativeDeepEntryBytes, kMaxNativeDeepTotalBytes, kMaxUnityMetadataParses, kMaxUnityMetadataParseBytes, kMaxUnityMetadataBytes,
          kMaxManifestBytes, kMaxResourceTableBytes, kMaxGodotLegacyConfigBytes, kMaxRootFileBytes,
          kMaxJniEvidence, kMaxRelations,
          kMaxTableCount, kMaxVariantDepth, kMaxVariantNodes, max_decompressed_size,
          kMaxConstantTable, kMaxConstantDepth, kMaxConstantNodes, SummaryCap, SummaryDepth, SummaryItems,
          MAX_RECORD_STRIDE, MAX_RECORD_COUNT, MAX_CANDIDATE_EVALUATIONS, MAX_INDIRECT_CALLS_PER_FUNCTION,
          kMaxInitInstructions, kMaxBackwardInstructions, kMaxMethods, kMaxSlots, kMaxInittab, kMaxModuleSize,
          kMaxDirectHelpers, kMaxTypeMethods,
          kMaxEntries, kMaxDistinctKeyCandidates, kMaxProbeEntries, kMaxScriptValidations, kMaxEncryptedFileProbes, kMaxStream, max_output_bytes, max_output_files, kMaxStringArray,
          kMaxCallDepth, kMinResolved, kMaxDescriptors, kMaxScripts, kMaxScriptBytes,
          kMaxTail, kMaxEntryLength, kMaxMember,
          kMaxSections, kRangeCap,
          kMaxTypes, kMaxFieldDescriptors, kMaxFields, kMaxPointers, kMaxSwiftStrings, kMaxSwiftStringBytes, kMaxString, kMaxContextDepth,
          TraceSteps, ChainHops, MaxFunctionBytes, MaxDecoded, MaxSehCount,
          kMaxHookFunctions, kMaxSites, kMaxBlocks, EntryWindow, LowImports, kMaxApis,
          kCPythonTextBlockSize, kShallowBlocks, kMinTable, kMinHandlers, kStrayEntries, kMaxOpcodes, kMaxFrozenCandidates,
          kMaxMarshalDepth, kMaxFrozenTables, kMaxFrozenEntries, kMaxFrozenName, kMaxFrozenBlob, kMaxGetterBytes, kMaxGetterInstructions,
          kPy311CodeAdaptiveOffset, kMaxPy311CodeUnits, kMinHelperCalls, ByteBase,
          kMaxCodecNodes, kMaxCodecStringBytes, kMaxCodecDepth, kScriptCap, kReferenceCap, kScriptBytes, kTotalBytes, InterestingPaths,
          kMaxAlwaysInit, kDependencyCap, kBridgeMethodCap, kMethodRanges

VARIABLES input, result

vars == <<input, result>>

U == INSTANCE Unreal

H == INSTANCE AppRuntimes

K == INSTANCE Dart

D == INSTANCE Dex

R == INSTANCE AndroidResources

P == INSTANCE Apk

G == INSTANCE GdScript

L == INSTANCE ControlRecords

Y == INSTANCE PythonExtension

N == INSTANCE Continuations

T == INSTANCE Cython

Z == INSTANCE GodotPck

E == INSTANCE GdExtension

I == INSTANCE PyInstaller

W == INSTANCE MachoSwift WITH kMaxStrings <- kMaxSwiftStrings, kMaxStringBytes <- kMaxSwiftStringBytes

M == INSTANCE MaterializationGraph

X == INSTANCE PeExceptions

V == INSTANCE PeSurfaces

B == INSTANCE CPythonReference

C == INSTANCE CPythonMarshal

O == INSTANCE CPythonPairing

S == INSTANCE GdVariants WITH kMaxTableCount <- kMaxConstantTable, kMaxVariantDepth <- kMaxConstantDepth, kMaxVariantNodes <- kMaxConstantNodes

None == [state |-> "NOT_RUN", valid |-> FALSE, ranges |-> <<>>]

\* An input of a format is built when the format has been chosen.
Formats == {"pak", "iostore", "hermes", "kernel", "snapshot", "aot", "dex", "code", "axml", "arsc", "signing", "natives",
            "apk", "gdscript", "gdcalls", "gdvalue", "gdname", "control", "pyext", "coroutine", "cython", "pck", "gdsource", "enginecfg", "gdext",
            "gdlink", "carchive", "pyz", "pyboot", "pyextract", "r2r", "swift", "timeline", "pe", "hooks", "loader",
            "cpython", "trust", "delta", "pyc", "rewrite", "frozen", "opmodule", "select", "pairing",
            "v8cache", "assets", "asarjs", "unityreg", "clr"}

Init ==
    /\ result = None
    /\ input \in [part : {"none"}, format : Formats]

Is(format) == input.part = "none" /\ input.format = format /\ UNCHANGED result

Given ==
    \/ Is("pak") /\ IsVariant(input', U!PakBase, U!PakAlt)
    \/ Is("iostore") /\ IsVariant(input', U!IoBase, U!IoAlt)
    \/ Is("hermes") /\ IsVariant(input', H!HermesBase, H!HermesAlt)
    \/ Is("kernel") /\ K!KernelInput(input')
    \/ Is("snapshot") /\ IsVariant(input', K!SnapshotBase, K!SnapshotAlt)
    \/ Is("aot") /\ IsVariant(input', K!AotBase, K!AotAlt)
    \/ Is("dex") /\ IsVariant(input', D!DexBase, D!DexAlt)
    \/ Is("code") /\ input' \in D!CodeInputs \cup D!HandlerInputs
    \/ Is("axml") /\ input' \in R!AxmlInputs
    \/ Is("arsc") /\ R!ArscInput(input')
    \/ Is("signing") /\ IsVariant(input', R!SigningBase, R!SigningAlt)
    \/ Is("natives") /\ input' \in P!NativeInputs
    \/ Is("apk") /\ P!ApkInput(input')
    \/ Is("gdscript") /\ G!GdInput(input')
    \/ Is("gdcalls") /\ input' \in G!CallInputs
    \/ Is("gdvalue") /\ S!ValueInput(input')
    \/ Is("gdname") /\ S!NameInput(input')
    \/ Is("control") /\ L!ControlInput(input')
    \/ Is("pyext") /\ input' \in Y!PyInputs
    \/ Is("coroutine") /\ N!ContInput(input')
    \/ Is("cython") /\ T!CyInput(input')
    \/ Is("pck") /\ Z!PckInput(input')
    \/ Is("gdsource") /\ input' \in Z!TextInputs
    \/ Is("enginecfg") /\ IsVariant(input', Z!CfgBase, Z!CfgAlt)
    \/ Is("gdext") /\ input' \in E!ExtInputs
    \/ Is("gdlink") /\ IsVariant(input', E!LinkBase, E!LinkAlt)
    \/ Is("carchive") /\ I!ArchiveInput(input')
    \/ Is("pyz") /\ input' \in I!PyzInputs
    \/ Is("pyboot") /\ I!BootInput(input')
    \/ Is("pyextract") /\ IsVariant(input', I!ExtractBase, I!ExtractAlt)
    \/ Is("r2r") /\ IsVariant(input', V!R2rBase, V!R2rAlt)
    \/ Is("swift") /\ IsVariant(input', W!SwiftBase, W!SwiftAlt)
    \/ Is("timeline") /\ input' \in M!TimelineInputs
    \/ Is("pe") /\ X!PeInput(input')
    \/ Is("hooks") /\ V!SurfaceInput(input')
    \/ Is("loader") /\ IsVariant(input', V!LoaderBase, V!LoaderAlt)
    \/ Is("cpython") /\ B!CpInput(input')
    \/ Is("trust") /\ B!TrustInput(input')
    \/ Is("delta") /\ IsVariant(input', B!DeltaBase, B!DeltaAlt)
    \/ Is("pyc") /\ C!PycInput(input', "pyc")
    \/ Is("rewrite") /\ C!PycInput(input', "rewrite")
    \/ Is("frozen") /\ C!FrozenInput(input')
    \/ Is("opmodule") /\ O!OpModuleInput(input')
    \/ Is("select") /\ IsVariant(input', O!SelectBase, O!SelectAlt)
    \/ Is("pairing") /\ O!PairInput(input')
    \/ Is("v8cache") /\ H!V8Input(input')
    \/ Is("assets") /\ H!AssetInput(input')
    \/ Is("asarjs") /\ H!AsarInput(input')
    \/ Is("unityreg") /\ IsVariant(input', V!UnityBase, V!UnityAlt)
    \/ Is("clr") /\ IsVariant(input', V!ClrBase, V!ClrAlt)

Runs(part, r) ==
    /\ input.part = part /\ result = None
    /\ result' = r
    /\ UNCHANGED input

Pak == Runs("pak", U!detect_pak(input))

IoStore == Runs("iostore", U!detect_iostore(input))

HermesBytecode == Runs("hermes", H!parse_hermes_bytecode(input))

Kernel == Runs("kernel", K!parse_dart_kernel(input))

Snapshot == Runs("snapshot", K!parse_dart_snapshot(input))

Aot == Runs("aot", K!detect_dart(input))

DexFile == Runs("dex", D!dex_finding(input))

DexInstructions == Runs("code", D!parse_code(input))

BinaryManifest == Runs("axml", R!parse_binary_manifest(input))

ResourceTable == Runs("arsc", R!ResourceTable(input))

SigningBlock == Runs("signing", R!parse_signing_block(input))

Natives == Runs("natives", P!recover_register_natives(input))

Package == Runs("apk", P!AndroidPackage(input))

GdBuffer == Runs("gdscript", G!analyze_gdscript_buffer(input))

SuperCalls == Runs("gdcalls", G!native_super_calls(input))

ScriptConstants == Runs("gdvalue", S!ScriptConstants(input))

ScriptNames == Runs("gdname", S!ScriptName(input))

ControlTables == Runs("control", L!detect_control_records(input))

PythonModules == Runs("pyext", Y!analyze_cpython_extension(input))

Coroutines == Runs("coroutine", N!detect_cpp20_continuations(input))

CythonModules == Runs("cython", T!analyze_cpython_cython(input))

GodotPacks == Runs("pck", Z!GodotPackage(input))

GodotExternal == Runs("pckext", Z!ExternalPack(input))

ScriptSource == Runs("gdsource", Z!gdscript_source_structure(input))

LegacyConfig == Runs("enginecfg", Z!parse_godot_legacy_engine_config(input))

Extensions == Runs("gdext", E!analyze_gdextension_pck_bundle(input))

ScriptLinks == Runs("gdlink", E!analyze_godot_gdextensions(input))

PyArchive == Runs("carchive", I!detect_pyinstaller(input))

PyzMember == Runs("pyz", I!pyinstaller_pyz_member_bytes(input))

PyBootstrap == Runs("pyboot", I!analyze_pyinstaller_bootstrap(input))

PyExtraction == Runs("pyextract", I!extract_pyinstaller(input))

NativeImage == Runs("r2r", V!ready_to_run_finding(V!detect_ready_to_run(input)))

SwiftMetadata == Runs("swift", W!analyze_macho_swift(input))

Timeline == Runs("timeline", M!build_materialization_graph(M!Recorded(input)))

PeExceptions == Runs("pe", X!PeExceptionFlow(input))

HookSurface == Runs("hooks", V!HookSurface(input))

LoaderSurface == Runs("loader", V!LoaderSurface(input))

PythonRuntime == Runs("cpython", B!analyze_cpython_static(input))

TrustReport == Runs("trust", B!Trusted(input))

SemanticDelta == Runs("delta", B!DeltaReport(input))

CompiledModule == Runs("pyc", C!detect_python_bytecode(input))

CompiledRewrite == Runs("rewrite", C!Rewrite(input))

FrozenModules == Runs("frozen", C!analyze_cpython_frozen(input))

OpcodeModule == Runs("opmodule", O!RecoveredModule(input))

ReferenceSelection == Runs("select", O!Selected(input))

ReferencePairing == Runs("pairing", O!pair_cpython_pyinstaller_reference(input))

CodeCache == Runs("v8cache", H!V8CodeCache(input))

AssetManifest == Runs("assets", H!parse_flutter_asset_manifest(input))

ArchiveScripts == Runs("asarjs", H!analyze_asar_script_references(input))

UnityRegistration == Runs("unityreg", V!RegistrationLayout(input))

ManagedBoundary == Runs("clr", V!analyze_dotnet_boundary(input))

Next == Given \/ Pak \/ IoStore \/ HermesBytecode \/ Kernel \/ Snapshot \/ Aot \/ DexFile \/ DexInstructions
        \/ BinaryManifest \/ ResourceTable \/ SigningBlock \/ Natives \/ Package \/ GdBuffer \/ SuperCalls
        \/ ScriptConstants \/ ScriptNames \/ ControlTables \/ PythonModules \/ Coroutines \/ CythonModules \/ GodotPacks \/ GodotExternal
        \/ ScriptSource \/ LegacyConfig \/ Extensions \/ ScriptLinks \/ PyArchive \/ PyzMember \/ PyBootstrap
        \/ PyExtraction \/ NativeImage \/ SwiftMetadata \/ Timeline \/ PeExceptions \/ HookSurface \/ LoaderSurface
        \/ PythonRuntime \/ TrustReport \/ SemanticDelta \/ CompiledModule \/ CompiledRewrite \/ FrozenModules
        \/ OpcodeModule \/ ReferenceSelection \/ ReferencePairing \/ CodeCache \/ AssetManifest \/ ArchiveScripts
        \/ UnityRegistration \/ ManagedBoundary

Spec == Init /\ [][Next]_vars

\* Whatever a parser says of the file, the ranges it names lie in the file,
\* sums that wrap around included.
RangesInside ==
    \A i \in DOMAIN result.ranges : Inside(result.ranges[i], input.size)

Reads(part, Exact(_, _)) == input.part = part /\ result # None => Exact(input, result)

\* A package that is taken for valid has the entries, keys and payloads the
\* bytes have: nothing is opened by the wrong key, taken from the wrong copy,
\* counted twice or written outside its budget.
ContainersAreExact ==
    /\ Reads("pak", U!PakExact)
    /\ Reads("iostore", U!IoExact)
    /\ Reads("apk", P!ApkExact)
    /\ Reads("signing", R!SigningExact)
    /\ Reads("pck", Z!PckExact)
    /\ Reads("pckext", Z!ExternalExact)
    /\ Reads("enginecfg", Z!ConfigExact)
    /\ Reads("carchive", I!ArchiveExact)
    /\ Reads("pyz", I!PyzExact)
    /\ Reads("pyextract", I!ExtractExact)

\* A bytecode, image or table format that is confirmed has one reading, and it
\* is the published one; a comparison with a reference says no more of a runtime
\* than the bytes show, and is trusted no further than its strongest evidence.
BytecodeIsExact ==
    /\ Reads("hermes", H!HermesExact)
    /\ Reads("kernel", K!KernelExact)
    /\ Reads("snapshot", K!SnapshotExact)
    /\ Reads("aot", K!AotExact)
    /\ Reads("dex", D!DexExact)
    /\ Reads("axml", R!AxmlExact)
    /\ Reads("arsc", R!ArscExact)
    /\ Reads("gdscript", G!GdExact)
    /\ Reads("gdvalue", S!ValueExact)
    /\ Reads("gdname", S!NameExact)
    /\ Reads("gdsource", Z!SourceExact)
    /\ Reads("r2r", V!R2rExact)
    /\ Reads("swift", W!SwiftExact)
    /\ Reads("loader", V!LoaderExact)
    /\ Reads("cpython", B!CPythonExact)
    /\ Reads("trust", B!TrustExact)
    /\ Reads("delta", B!DeltaExact)
    /\ Reads("pyc", C!PycExact)
    /\ Reads("rewrite", C!RewriteExact)
    /\ Reads("frozen", C!FrozenExact)
    /\ Reads("opmodule", O!OpModuleExact)
    /\ Reads("select", O!SelectExact)
    /\ Reads("pairing", O!PairExact)
    /\ Reads("v8cache", H!V8Exact)
    /\ Reads("assets", H!AssetsExact)
    /\ Reads("unityreg", V!UnityExact)

\* A relation recovered from code (who registers, calls or loads what) follows
\* from the instructions: registers a call changes, values an earlier
\* instruction left and targets that are not unique give no relation.
RelationsAreExact ==
    /\ Reads("code", D!CodeExact)
    /\ Reads("natives", P!NativesExact)
    /\ Reads("gdcalls", G!CallsExact)
    /\ Reads("control", L!ControlExact)
    /\ Reads("pyext", Y!PyExact)
    /\ Reads("coroutine", N!ContExact)
    /\ Reads("cython", T!CyExact)
    /\ Reads("gdext", E!ExtensionExact)
    /\ Reads("gdlink", E!LinkExact)
    /\ Reads("pyboot", I!BootExact)
    /\ Reads("pe", X!PeExact)
    /\ Reads("hooks", V!HookExact)
    /\ Reads("asarjs", H!AsarExact)
    /\ Reads("clr", V!ClrExact)

\* A generation that the graph of a traced run (build_materialization_graph)
\* gives to a region, backing or image rests on bytes that were seen before an
\* execution that was seen; it is the next one after what its writer was
\* running, threads, forks and rewritten mappings included; no later event takes
\* it back, and a dump is hung on what was executed when it was taken.
GenerationsAreEarned == Reads("timeline", M!TimelineExact)
=============================================================================
