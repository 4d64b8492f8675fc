# auto-refirst: TLA+ models, model checks and proofs

auto-refirst is a static preprocessor for binaries: a C++ command line program
that maps a file, parses and classifies it, extracts what is packed in it under
budgets, optionally runs it under a tracer and replaces it by a validated
reconstruction; a directory mode that does this for many files with one bounded
report; a Qt window that drives the program over a queue of inputs; and an
adapter that may start one external tool in a sandbox. This project models the
parts that keep state, share budgets, touch files others may touch, or run in
handlers whose order nobody controls, and the parsers and recovery passes that
claim to be exact.

## Inventory

| Component | State | Operations | What is hard | What makes it correct |
|---|---|---|---|---|
| Report spool (`include/prts/directory_report_spool.hpp`) | records, four byte counters, peak, the files of a temporary directory | `add` (open, staged writes with evictions, close, defer), `finalize_selection`, `validate`, output, destructor | two budgets shared by cached and staged bytes, unsigned subtractions, priorities that change after the eviction, I/O failing inside loops | counters exact, disk never above the advertised peak, final choice greedy, reasons true, directory removed |
| Replacement (`runtime.cpp` 127, 858-1001, 1196, 1710) | target, candidate, backup, pre-run copy, snapshots | rename, hash checks, entry validation, three rollbacks | any call fails, crash between calls, the program rewrites its own file, outsiders | the original is never lost, the verdict is true |
| Recursive artifact graph (`main.cpp` 2383-2428) | queue, reports, known hashes, byte and node budgets | analyse a node, admit or refuse its extracted files, finish | self-containing archives, allowance computed before and checked after an extraction, order of the checks | budgets hold, cycles are cut, what a budget cut off is told, it ends |
| Qt queue (`tools/qt_gui/main.cpp` 127-165, 494-547, 668-1083) | rows, current row, flags, one QProcess, one timer, posted calls | drop, clear, start, cancel, close, process signals, time-out | handlers in any order, late starts, kill racing exit | rows own their results, finished rows stay, a closed window winds down, the queue comes to rest |
| Directory pipeline and child analyses (`main.cpp` 1370-1506, 2180-2330, `orchestration.cpp`) | candidates, compact index, retained and spooled reports, artifact and runtime budgets, child graphs | per-file analysis with rollback, children, relationships, key composition, runtime, spooling | what is retained must cover what later steps change; a two-level artifact budget; a root over budget is rolled back; hashes are recorded before the child exists | aggregate bound, honest child graphs, no report lost, states that say what is on disk |
| ZIP ingress (`extract/container_ingress.cpp`) | central directory, files under the output root, temporary files | inspect, materialize a member | names that denote one file, callers that overlap, die or fail half-way, file systems that ignore case | one file holds one member, a published file is whole, what is left behind has a reason |
| de4dotEx adapter (`tools/de4dotex/adapter.py`) | authorization, digests, the copied input, launcher identity, the tool's process, its output and logs | 23 steps from the manifest to the classification | files that change while they are read, a launcher that is updated, a tool that floods, hangs or ends between two polls | the tool sees the authorized bytes, success is clean, an answer always comes |
| Parsers and recovery passes (`extract/`, `core/gdscript_buffer.cpp`, `core/gdextension.cpp`, `core/exception_flow.cpp`, `reference/`, `detect/control_record.cpp`, `detect/continuation.cpp`, `detect/native_hook_surface.cpp`, `detect/pe_loader_surface.cpp`, `formats/macho_swift.cpp`) | none between calls; inside a call cursors, budgets, register knowledge | see *StaticAnalyses* | words that wrap around, budgets shared by many entries, several layouts that fit, what a call destroys, duplicates found late | ranges lie in the file, what is CONFIRMED is what the bytes say, budgets show as PARTIAL |
| Reference models (`reference/`, `extract/cpython_frozen.cpp`, the marshal part of the bytecode detector) | observations with a strength, an opcode map under construction | compare an image, module or archive with a reference, judge the observations, rewrite | weak and strong evidence that disagree, a map that is complete only by number, self-referring data | nothing weaker decides, exactness is earned, a rewrite reads back as what was meant |
| Materialization graph (`runtime/materialization_graph.cpp`) | nodes, edges, what each thread runs, regions and backings known so far | one handler per kind of recorded event, artifacts, summary | the depth of a piece of code depends on what its writer was running; threads, children and rewritten mappings carry that on; events come with holes | no generation without seen bytes and a seen execution, no gap, nothing taken back |
| Runtime plan (`main.cpp` 1546-1582) | plan steps, authorization | select and run steps | authorization separate from eligibility | nothing runs or is replaced unasked |
| Tracers (`runtime.cpp`) | tracees, breakpoints (four slots on Linux), event queues | wait loop, attach, detach, dump | signals of several processes, time-outs, exhausted slots | no tracee left behind, no region missed silently |
| Repair (`unpack/repair.cpp`) | `.part` file, destination | `write_atomic` | two writers share one `.part` name | a published repair is complete |
| Other parsers, detectors, report rendering, search | none between calls | functions of bytes | byte formats | no claim of exactness, or the input of a modelled analysis |

Interactions: the command line calls either the recursive graph, the directory
pipeline or a single analysis; the pipeline owns one spool and one artifact
budget, which the child analyses draw on; an analysis calls the parsers, and an
extractor writes within the allowance it is given; `--run` hands over to a
tracer, which with `--apply` ends in the replacement; the window starts the
command line program as a process and talks to it by its output and exit code;
the adapter is started beside the program and answers with one JSON object.

## Modules

| Module | Role |
|---|---|
| `DirectoryReportSpool`, `DirectoryReportSpoolProofs` | the spool, as `analyze_directory_spooled` drives it, and its theorems |
| `ReplacementContract`, `TransactionalInstall`, `TransactionalInstallProofs` | what `--run --apply` promises on any platform; the two replacements, call by call, as its refinement, and theorems |
| `RecursiveArtifactGraph`, `MCRecursiveArtifactGraph`, `RecursiveArtifactGraphProofs` | the artifact graph, its instance and theorems |
| `GuiQueue`, `MCGuiQueue`, `GuiQueueProofs` | the window's job queue, its instance and theorems |
| `DirectoryPipeline`, `MCDirectoryPipeline`, `DirectoryPipelineProofs` | the directory analysis with both child loops, its instance and theorems |
| `ZipIngress`, `MCZipIngress`, `ZipIngressProofs` | ZIP containers and concurrent materialization, their instance and theorems |
| `De4dotAdapter`, `MCDe4dotAdapter`, `De4dotAdapterProofs` | the adapter and the world beside it, its instance and theorems |
| `Words` | unsigned words, checked operations, ranges and findings, shared by the parsers |
| `StaticAnalyses` | the parsers below as one machine |
| `Unreal` | Pak footers and IoStore tables |
| `AppRuntimes` | Hermes bytecode, V8 code caches, Flutter asset manifests, scripts of ASAR archives |
| `Dart` | Kernel components, snapshots; ahead-of-time snapshots in ELF |
| `Dex` | DEX tables and class data; library loads and implicit entries in code |
| `AndroidResources`, `Apk` | binary XML, resource table, signing block; the package, its extraction and RegisterNatives |
| `GdScript`, `GdVariants`, `GodotPck`, `GdExtension` | token buffers; constants, their summaries and names; packs, keys and extraction; native extensions and their links to scripts |
| `ControlRecords`, `Continuations` | tables of code pointers; C++20 coroutine frames |
| `PythonExtension`, `Cython`, `PyInstaller` | init functions and method tables; Cython bindings; archives, PYZ and normalization |
| `MachoSwift` | Swift metadata |
| `PeExceptions` | handlers, triggers and resuming contexts in x64 PE code |
| `PeSurfaces` | code that writes import slots or code, images made for another loader, the native part of a .NET image and what leads out of its managed part, the tail of a Unity registration |
| `ModelTrust`, `ModelTrustProofs` | how far the model of a runtime may be trusted, and which difference of semantics is exact; its theorems |
| `CPythonReference` | an interpreter image beside its reference: functions, tables, dispatch, the compiler probe, frozen modules and what they say of trust |
| `CPythonMarshal` | the marshal reader, its semantic hash, and the rewrite of a compiled module to reference opcodes |
| `CPythonPairing` | the opcode module recovered from code, the choice of a reference and its pairing with a PyInstaller archive |
| `MaterializationGraph` | the graph that is built from the timeline of a traced run |

In every module the definitions named `<definition>_<fault>` are mutants: what a
plausible slip would make of the definition after them. No specification uses
them; each shows that one property can fail.

### DirectoryReportSpool

A report is named by its input; inputs are numbered in the order of
`spool_path_key`. `added`, `full`, `priority`, `selected`, `payload`, `reason`
are the fields of the records, `files` and `size` the temporary directory,
`cur`, `total`, `written`, `take` the add in progress (`CappedSpoolStreambuf`).
Each iteration of a loop of the code is a step, so that the invariants are also
checked in the middle of an eviction or a selection. A renderer is any sequence
of chunks. Errors keep their cause: `InternalErrors` are the ones the code calls
invariants (and the one its arithmetic excludes), `ExternalErrors` the rest; the
general message that `add` puts over a refusal of `reserve_staging` is not kept.
`spool_sat_add` is `SatAdd` with the largest word as a constant; the plain
subtractions of the code are plain here, and `Accounting` says that they never
go below zero. Texts of `annotate_plan` and `rendering` are left out.

### TransactionalInstall and ReplacementContract

`fs` gives the content of four paths. The platform is chosen at the start. Every
file-system call is a step that succeeds or fails; a rename that falls back to
copy and remove is `MoveRename`, `MoveCopy`, `MoveRemove`, and a copy may stop
half-way. `Crash` may come between any two steps, the analysed program may
rewrite or delete its own file while it runs, and `Meddle` is one write by
somebody else. The contract sees only where the original is, whether the new
image is at the target, and the verdict; `ImplementsContract` is the refinement.
`choose_backup_path` is taken to find a free name.

### RecursiveArtifactGraph

A file is its content. A container is the sequence of what is packed in it,
chosen when it is first analysed and fixed from then on, so that every finite
shape occurs: nested, shared, cyclic. Above the depth limit the extractors share
one allowance (`permit_extract`); at the limit only automatic extraction is
left, where each ecosystem has the allowance to itself (`auto_core_budget`),
modelled as two parts that each keep to it. `trusted` chooses between extractors
that keep to their allowance and ones that write everything. An extractor may
also pass over members for a reason that is not a budget (`ComesTo`, see *Observations*);
`reached` are the members it did not pass over, and only what is cut from those
truncates the graph. `KindOf` tells how a content shows at the depth limit that
it is a container: by being valid, or by the files written from it. The checks of
an extracted file are taken in the order of the code (`Refusal`).

### GuiQueue

Every handler is a step. `posted` are the calls of `QTimer::singleShot(0)`; they
keep their order, but a click, a drop or a process signal may come first: Qt
does not order posted calls and window-system events. `QProcess` is external and
modelled by what the code relies on: `start()` and new arguments are ignored
unless it is `NotRunning`, `waitForStarted()` succeeds on a process that already
runs, a crash signals `errorOccurred` and then `finished`. `startNext` takes the
state its caller leaves behind as parameters because it is called from four
places. `orderly`, chosen at the start, is the assumption that the CLI starts
within two seconds, that the user does not act while a posted call waits and
does not edit the search text during an analysis. Two of the properties speak of
such runs only; `FinishedRowsAreFinal` and `ClosedWindowWindsDown` are about all.
The end of the program after `closeEvent` and the screenshot hook of the smoke
test are not modelled.

### DirectoryPipeline

One directory from its first candidate to its last spooled report. An artifact
is its content and a candidate its kind, which decides what the relationships
later want of it. `used` is the budget (`kDirectory...Artifact...`), `disk` what
really lies under each root, and `mstate`, `omitted`, `graph` what the report
says of it, so that properties compare the two. The automatic and the bounded
child loop are one loop with the check order of either; `call` is what one
relationship step has to say of itself. An extractor writes any choice of
contents within its allowance, and of two extractors each has the allowance to
itself, as in the code. `Chmod` is one change of an execute permission between
two reads of it; every call that may fail is an action of its own, and
`env.leaked` records that a failed call left bytes nobody counts. `disk` and
`used` are about static artifacts: what a run dumps, and the children analysed
from it, is written under the artifact root too (main.cpp 1469-1497, 1572, 2193),
but outside the budget, as docs/CLI_CONTRACT.md says, and `RuntimeStep` leaves
it out. The spool
itself is `DirectoryReportSpool`; here a spooled report is only a member of
`spooled`.

### ZipIngress

`inspect_zip_container` is an operator, evaluated once per container. The code
passes the members once and marks duplicates and collisions as it meets them,
reaching back to the earlier member; the operator says in closed form which
members that marks, so that it can be reasoned about without induction.
`materialize_zip_member` is a sequence of steps of any number of callers over one
file system, which may ignore case: open the temporary file, write chunk by
chunk, rename, hash. A name is a sequence of tokens, so that the classification
of components is computed and not assumed. A failing call takes the code's
clean-up path (`OpenFails` when the file cannot be opened at all), whose `remove`
may fail as well, which nobody is told (`NotRemoved`); `Crash` stops a caller for
ever. A temporary name is an ordinary name in the member's directory
(`Temporary`), and another member may bear it; `NoPartNames` is that none does.
Members inside a directory called like a temporary file are left out: rename and
remove would then act on directories.

### De4dotAdapter

`env` is what does not change during the call. Each block of checks is an
action that goes on or answers with the reason code of the first check that
fails; the file operations (`lstat`, `open`, one chunk, `fstat`) are steps of
their own because the world (`Rewrite`, `Replace`, `Update`, and the tool) acts
between them. A file is the sequence of its chunks and a digest is that
sequence. The polling loop walks the output directory name by name.

### StaticAnalyses

The parsers keep nothing between calls, so that one machine serves them all: a
state is an input and, after the one step that its kind allows, the result. `Init`
picks a format, `Given` builds an input of it, the format's action runs the parser.
The inputs are the point. For each format there is a well-formed input, and
`Variants` gives all inputs that differ from it in at most two of its fields,
where the alternatives of a field are the boundary values and the wrong values
the code distinguishes; where order or length matters (instruction sequences,
entries of an archive, nodes of a tree, bytes of a name) the module enumerates short sequences
instead. An off-by-one, a missing check or two checks that only together are
wrong show as a result that contradicts the input.

The parsers are folds and recursive functions over abstract units instead of
bytes: a fixed-width element is one unit long, and each module's head comment
says which elements are longer. `WordLimit` (64) stands for 2^64, or 2^32 where
the source uses 32 bits, so that sums really wrap around; `checked_add`,
`span_in_bounds` and the like are in `Words`. Bytes that are only compared are
Booleans; a key, a hash or a text is the value that decides the comparison.

Each module ends with predicates `<Format>Exact(x, r)` that say independently of
the parser's course what the result must be: for instance that the published
entries are those the directory lists, that a confirmed key is the only one
that opens what tells keys apart, that the bytes written are within the limit
and whole, that the layout of a stripped buffer is the only one that fits, that a summary
said to be complete shows all of a constant, or
that a recovered call has its register values on every path. Three properties
collect them: `ContainersAreExact`, `BytecodeIsExact`, `RelationsAreExact`, and
`RangesInside` is about all of them (`MaterializationGraph` names no ranges). Where the code is knowingly an
approximation the predicate is restricted by a named condition (`Telling`,
`Agreeing`, `Forward`, `Kept`, `Straight`, `Recognized`, `Explicit`), and the restriction is listed under
*Observations*.

### ModelTrust and the CPython references

`ModelTrust` is what `reference/model_trust.cpp` and `semantic_delta.cpp`
decide: a fact has a subject, a level of evidence and what it says of the stock
model; `assess_group` judges the facts of one subject, `aggregate_guidance` all
groups, `assess_semantic_delta` a difference between two semantics. It is used by
`CPythonReference`, where the facts come from comparisons, and kept free of
recursion so that the theorems can be stated about it. An interpreter is its
functions, texts, tables and the targets of its dispatch table, compared by
value. A marshal value in `CPythonMarshal` is a tree whose encoding is a
sequence of tags, lengths and children, with reference slots and sharing; the
canonical form and the rewrite are computed over it, and the reference
predicates read the tree instead of the bytes. In `CPythonPairing` code is a
sequence of abstract Python instructions of the bootstrap, archives and
registries are small sets of hashes.

### MaterializationGraph

`build_materialization_graph` is a fold over the timeline that a finished run
left, and one more input of `StaticAnalyses`: `Handle` is the `switch` of
`Builder::run`, one operator per handler, and the artifacts, the edges' source
generations and the summary follow. A builder is a record; a lookup that may
make a node gives the grown builder and the node. An event has the fields the
handlers read; the CSV files, paths and descriptive fields are left out.

The timelines are those of small programs, and an input names the program only:
`Recorded` is the run that it stands for. A plan is a sequence of things a
program does (map and run, change what ran, start a thread, fork, write, run or
hand over to a backing; on Windows allocate, inject, arm, hollow, patch), and
`Burst` gives the events the tracer records of each. `May` keeps a plan to what
the tracer really reports: after an exec nothing of before is named again, a
mutation is watched only in a process of one thread and once. `GenerationsAreEarned`
never looks at the builder: it reads the timeline again and asks for the writes,
the executions and the one who wrote. The dumps are there or not, so that
bytes are also known to have been there without a write that was seen.

## Runs

| Run | Shows |
|---|---|
| `spool` | 942,487 states. `Accounting`, `PeakIsHonest`, `NoInternalFailure`, `NoFalseAlarm`, `GreedySelection`, `NoNeedlessLoss`, `ReasonsAreTrue` |
| `spool_interference` | 257,746 states. `TemporaryDirectoryRemoved` with another process deleting spool files |
| `install` | 1,651 states. `NoTraceWhenWithheld`, `RestoreIsChecked`, `ImplementsContract` |
| `install_pristine` | violation: on Linux the backup called pristine is the file as the analysed program left it |
| `recursive` | 2,015,518 states. `WithinBudgets`, `OnlyRootsRepeat`, `CutsAreTold`, `AllowanceIsEnough`, `RefusalIsFinal`, `Terminates` |
| `gui` | 572,409 states. `OwnResultsWhenOrderly`, `FinishedRowsAreFinal`, `ClosedWindowWindsDown`, `ComesToRest` |
| `gui_results` | violation: the end of one row's process decides another row |
| `directory` | 374,923 states. `HardBound`, `GraphIsHonest`, `NoReportLost`, `RetentionCoversMutation`, `RuntimeWithinBudget`, `StatesMatchDisk`, `Terminates` |
| `zip` | 1,609,661 states. `MembersKeepApart`, `PublishedIsWhole`, `LeftoversExplained` |
| `adapter` | 461,080 states. `ToolSeesAuthorizedBytes`, `SuccessIsClean`, `ProofIsOneLauncher`, `AnswersAndReaps` |
| `adapter_attempted` | violation: an answer with `attempted=false` although bubblewrap was started for its version |
| `formats` | 318,864 states (159,407 inputs, before and after their parser). `RangesInside`, `ContainersAreExact`, `BytecodeIsExact`, `RelationsAreExact`, `GenerationsAreEarned` |

### Bounds

- `spool`: four inputs, reports of 0 to 4 bytes in chunks of 1 and 2, inline
  budget 4, per report 2, so a disk budget of 6. Three full reports fill the
  disk; the fourth forces evictions and, with the two priorities moved at the
  end, re-selections. A report of 3 or 4 bytes is oversized. `WordMax` 9 lets
  the known total of the four reports saturate. `RenderBound` ends a
  renderer.
- `spool_interference`: three inputs and tighter budgets; the loops that could
  run for ever need one cached report that is gone and one that is staged.
- `install`: no counters; the only bound is one outside write.
- `recursive`: three contents, one of each kind and one of size 2; up to two
  members, of which the extractors of one content may pass over some (`Selective`,
  the .NET bundle); depth 1, four nodes, four bytes. Each limit can be reached
  before the others, the smallest cycles (a container in itself, two in each
  other) occur, and five given files exceed the node limit.
- `gui`: three paths, four user actions. The overlap of two `startNext` needs
  two drops; the remaining actions cancel, clear, restart or close on top.
- `directory`: four directories of one to three candidates: a Unity player
  between its payload and its runtime, a single data file, two players, a pack
  before a program. Three contents, one of size 2, and reports of size 1 or 3;
  the budget before the relationships (3 bytes, 2 files) is smaller than the
  whole (5, 4), so that a root can fit the one and a later composition only the
  other; two graph nodes and one child byte make every refusal occur; time 3
  with 2 per target makes the last grant a remainder. `MaxEvents` 1: one fault
  or one chmod.
- `zip`: pairs, triples and one quadruple of names that clash by case,
  separator, repetition or nesting; a member called like the first one's temporary
  file, also in other letters; each unusual kind beside an ordinary file;
  two callers, three calls, two chunks, one fault and one death. Two callers
  are enough to share a temporary file, the third call meets what they left.
- `adapter`: every argument, file and limit wrong one at a time; with none
  wrong three surprises, which is a rewrite, a replacement and an update, or a
  tool that writes twice and ends. Files of up to three chunks, one more than
  the adapter reads.
- `formats`: one or two wrong fields; short sequences of instructions; every type
  of constant alone, and up to four constants nested in each other; budgets so
  small that one or two changed fields meet and exceed them. Code of six or seven instructions with any two of them
  replaced lets a registration, its removal, a trap and a jump around each of
  them meet; four instructions of `TraceSteps` end a search before the argument is
  found. Timelines: three
  steps after each of seven beginnings (two processes, two threads, two
  backings), enough for third generations, for a layer that a thread or a child
  carries on, and for a mapping that is rewritten twice before it runs again.

### Fairness

The command line program has one thread that nothing blocks, its renderers and
extractors end: weak fairness of its steps (`Step` of the spool and of the
pipeline, `Next` of the graph). In the window the event loop runs what was
posted, the timer fires, a process comes out of `fork` (or its start fails), and
a killed process dies; a process that is left alone may run for ever, so
`ComesToRest` really depends on the time-out. The adapter is scheduled and its
clock runs (`WF_vars(Adapter)`, `WF_vars(Deadline)`); the tool owes nothing, so
`AnswersAndReaps` depends on the deadline and on the kill. `ZipIngress` and
`StaticAnalyses` state no liveness: a library call ends when its caller lets it
run, and a parser is one step.

## Theorems

Assumptions are those stated in the modules: budgets and sizes are naturals,
the disk budget is below the largest word, inputs are finitely many, chunks and
limits are not empty where the code divides by them or loops over them. Nothing
else is assumed: the theorems hold for any directories, containers, contents,
callers, faults and budgets, and every strengthening named here was checked
on its run before it was proved. What a theorem does not cover is a condition in
its own statement (`orderly`, `NoPartNames`, no unsafe files, no leaked bytes) or
left out of the model (see *Modules*).

- `DirectoryReportSpoolProofs`: `IInv` is inductive. `Accounting` alone is not:
  that a subtraction keeps the totals needs that selected records have payloads
  and payloads have at most `PerReportBytes` (`RecordsInv`); that the disk stays
  below the peak needs what the open file holds (`StreamInv`), which files exist
  (`DiskInv`) and that room was reserved before the write (`BudgetInv`). The
  heart of `NoInternalFailure`: outside `enforce` what is selected takes at most
  `InlineBytes`, so when nothing is evictable `PerReportBytes` are free. Totals
  are cardinalities of sets of byte cells, which makes adding, removing and
  comparing files lemmas about finite sets, without induction. From `IInv`
  follow `TypeCorrect`, `AccountingCorrect`, `DiskBudget`,
  `InternalErrorsUnreachable` and `ValidationHasNoFalseAlarm`.
  `OutcomeInv`, on top of it, says what the decisions of the spool mean. The
  reason of a record tells at every moment what happened to it (`ReasonInv`,
  for `ReasonsSayWhatHappened`). The known bytes are the sum of all reports,
  saturated (`KnownInv`), so that an eviction, which only happens when the room
  to stage is short, shows that the reports seen exceed the disk budget
  (`LossInv`, for `LossesAreNeeded`; that saturation hides nothing is where the
  disk budget must be below the largest word). While
  `finalize_selection` visits the records from the best to the worst, the ones
  visited are better than the rest, and each one that was passed over did not
  fit beside the better ones that were taken (`GreedyInv`, for
  `SelectionIsGreedy`).
- `RecursiveArtifactGraphProofs`: `GraphInv` (types, the fixed world, budgets)
  is inductive: a node is paid for when it is queued, and admitted bytes are
  part of materialized bytes, which were compared with the limit. It gives
  `GraphTypeCorrect` and `GraphBudgets` for all limits and containers.
  On top of `GraphInv`, `KnownInv` and
  `AloneInv` say that every extracted node's content is known and its own, from
  which `CyclesAreCut`; `DepthInv` says that depths in the queue grow by at most
  one, so that after a refusal for depth everything left is at the limit, and
  `RefusedInv` that after a refusal for want of a node all are taken: together
  `RefusalsAreFinal`. `TodoInv` says that in a graph that is not truncated what
  is known is analysed, current or waiting, and that what an extractor came to is
  known or still to be handled: at the end nothing waits, which is
  `CutsAreReported`. It is about budgets: members passed over for other reasons
  are in no report of a CONFIRMED graph.
  `AllowanceInv` says that what is left of a node's allowance covers its files
  that are still to be handled. That alone is not inductive: at the depth limit
  two extractors may overdraw the bytes together, and only the breadth-first
  order says that nothing shallower, whose allowance would then be wrong, is
  left. It gives `AllowancesSuffice`; the sum of the sizes in a sequence is the
  cardinality of its cells, split at the head.
- `TransactionalInstallProofs`: the contract is not inductive, for the original
  must be known place by place and in the middle of a rename that has become a
  copy (`KeptInv`, `Returning`); that needs which rename is under way
  (`PathInv`), that nothing moves before the snapshots (`StartInv`) and where
  rollbacks happen (`DoneInv`). It gives `TypeCorrect`, `VerdictsAreSeen` (with
  `GateInv`, and also with an outsider), `WithheldLeavesNoTrace` and
  `ReplacementImplementsContract`: every step is a step of
  `ReplacementContract` or a stutter.
- `GuiQueueProofs`: `QueueInv` is `TypeOK` and that only a row decided by a
  process has a result. The second part is what `FinishedRowsAreFinal` needs:
  the end of a cancelled row's process books the empty result, which leaves the
  row as it was. It gives `QueueTypeCorrect` and `FinishedRowsStay`, for every
  order of handlers, the ones that `RowsOwnTheirResults` fails on included.
  `OrderlyInv` is about runs that keep to the assumption of `orderly`: the
  process, when there is one, is the current row's and was started with the
  search text as it still is; a posted `startNext` is the last call posted and
  waits only while nothing runs and the window is open. The parts need each
  other, and give `ResultsStayWithTheirRows`. `ClosingWindsDown` needs no such
  assumption: from `QueueInv` alone, each handler is shown to kill what runs when
  it closes the window, and afterwards to start no more analyses than it takes
  posted calls.
- `De4dotAdapterProofs`: `BytesInv` says what is known at each of the adapter's
  steps: from the authorization check on the digest is the authorized content,
  and from the comparison on so is the copy. It gives `AuthorizedBytes` for
  files of any length and any number of rewrites. `LauncherInv` says that
  versions only go up and what the first digest, the probe and the second digest
  have in common; it gives `LauncherIdentity`. `CleanInv` says that nothing but
  the classification settles a result as finished, that it does so after the
  tool has ended, and that from then on nobody touches what the result speaks
  of; it gives `FinishedResultIsClean`. All rest on lemmas about `OneCheck`,
  that a chain of checks that refuses nothing holds throughout, and that the
  code it answers with is one of its own.
- `ZipIngressProofs`: `ZipInv`. The inspection comes first: of two safe members
  neither is spelled like the other (`PathInv` then says that a path under the
  root stands for one member, also when case is ignored), from which
  `NamesDenoteOneMember`. All three theorems are about containers with
  `NoPartNames`: without that condition TLC shows `MembersKeepApart` violated, by
  the bytes of one member under the name of the other. `PublishedFilesAreWhole` is not a matter of
  one caller's chunks, because any number of callers may write one temporary
  file: `LastOpenerInv` says that whoever emptied a file last still writes it
  and has its chunks so far in it, or the file is whole. Hence a rename, which
  only follows a complete pass, finds a whole file unless somebody emptied it
  later and is still at work; `AloneInv` is the stronger fact for calls that never overlap.
  `OwnedInv` says that a temporary file has a caller that writes its
  member, or a call of that member died over it or could not remove it;
  `StrandedInv` that without overlap it stays there, that nobody works on the
  member and that it is never published. Together they are `LeftoversHaveAReason`.
- `DirectoryPipelineProofs`: `PipeInv` is inductive, for any directory and any
  budgets, both child loops and any faults. `BudgetInv` says that what is
  charged is what lies on the disk, root by root, unless a failed call lost track of
  bytes; it gives `BudgetIsHard`, and the bound itself does not depend on the
  exception. `StateInv` gives `StatesAreTrue`: while the children of a candidate
  are analysed its state is not settled yet, and `StatePending` says what the
  relationship step has already written or refused on its behalf. `GraphInv`
  gives `GraphsAreHonest`: in a graph that is not truncated everything known is
  the input or analysed, so that a duplicate always points at something.
  `OrderInv` says that each report seen so far is spooled or retained and not
  both, and that the retained ones are spooled in their order at the end; it
  gives `ReportsReachTheSpool`. `RetentionInv` says, as long as no permission
  bit has changed, that what has to be retained is, and that only such reports
  are changed later; it gives `RetentionSuffices`. `RunInv` says that time is
  granted candidate by candidate; it gives `RuntimeIsBounded`.

- `ModelTrustProofs`: the judgements of `ModelTrust` have no state, so that
  the theorems are about the operators themselves, for every finite set of
  facts or groups. `strength` is a maximum; the lemma that says so (`Strength`)
  carries the first two. `TheCeilingDecides`: a group is judged by its strongest
  facts alone, and a support is able to open a contradiction only at the same
  strength. `LowerEvidenceNeverWins`: adding a weaker fact, whatever it says,
  leaves the judgement as it was; a cheap scan cannot talk an exact comparison
  down or up. `GuidanceIsEarned`: over all groups the guidance never promises
  more than each of them supports, and one contradicted group decides.
  `ExactDeltaIsProven` lists what an exact delta has behind it.

Only model-checked: everything under fairness (`TemporaryDirectoryRemoved`,
`Terminates`, `ComesToRest`, `AnswersAndReaps`), which the prover does not
reach, and the properties of the parsers (`RangesInside`, `ContainersAreExact`,
`BytecodeIsExact`, `RelationsAreExact`, `GenerationsAreEarned`), which are
recursive functions over data and so beyond a prover without induction.
Every other property of a passing run is a theorem. The runs do not name the
theorems of `ModelTrustProofs`, which are about single judgements;
`RelationsAreExact` checks what these judgements come to on whole reports.

Two attempts failed for a good reason. `StatesMatchDisk` once said that a
partly materialized candidate always has files; the step of a composition
refused by the budget does not keep that, and reports of another size show
it to TLC too (see *Observations*, and the property as it is now). The duplicate
checks of the ZIP inspection were a fold, about which nothing could be proved;
they are now said in closed form.

## Observations

Met while modelling; none has a run, because no document of the repository
promises the contrary or because the case is outside what the models tell apart.

Replacement, graph and window

- Windows: the pre-run copy stays beside the target when `CreatePipe` fails or
  the installation fails before its first rename, and the replacement has none
  of the hash and post-install gates that SECURITY.md lists.
- `choose_backup_path` returns `.bak.overflow` after 10000 backups, and a rename
  onto it replaces the backup before.
- The recursive graph counts unsafe files but does not become PARTIAL, unlike
  the automatic one; two given files with the same content are both analysed;
  a copy of analysed content is reported as refused when the byte limit is
  reached, because bytes are checked before duplicates.
- The recursive graph stays CONFIRMED when members are missing for another
  reason than a budget: compressed members of a .NET bundle (main.cpp:1029), an
  output directory that is refused (main.cpp:1005, 1023), an extractor that
  fails, entries of a PyInstaller archive that are no candidates (main.cpp:610),
  entries that extraction of the core leaves out. At the depth limit .NET resources
  and bundles count only by the files written from them, a ZIP with a Hermes
  bundle not at all (main.cpp:600-605).
- The window reads the search text again when a process ends: text typed during
  an analysis makes its JSON report a search report without hits.
- A `startNext` that was posted before the window is closed runs after it and
  starts an analysis nobody sees: `m_closing` is looked at when a process ends
  (tools/qt_gui/main.cpp:1002), not when one is started. `ClosedWindowWindsDown`
  says how far that goes.
- A path dropped while a cancelled process dies stays queued, although the
  status line says that it is being analysed.

Directory pipeline

- The automatic child graph records a hash before it has made the child's
  directory, so a later copy is a duplicate of a child that was not analysed
  (`GraphIsHonest` holds because the graph is then truncated).
- A child report that is skipped for want of the budget before the relationships
  does not make the artifact section partial, though a comment (main.cpp:2273)
  says that all fit; the state of a candidate is overwritten by MATERIALIZED.
- A composition without bound that the remaining budget refuses altogether
  leaves MATERIALIZED_PARTIAL on a candidate with nothing under its root
  (main.cpp:2101); the artifact section then says that something was omitted.
- The execute permission is read twice (`RetentionCoversMutation` excludes a
  chmod); bytes left by a failed write are counted nowhere (`env.leaked`).
- A composition without bound analyses all artifacts again, and the analysis
  after a repair is outside the budget.

ZIP ingress

- `x` and `x/y` are both safe, but only one of them can be written.
- Callers that overlap share a temporary file; the hash that one of them records
  can be that of a torn file, and after a failure or a death a torn file can be
  published (`PublishedIsWhole` excludes it).
- After a death, or when the removal of a temporary file fails (the outcome is
  ignored, container_ingress.cpp:612, 619), the name is taken and the member is
  refused for ever.
- The inspection does not look for members called like the temporary file of
  another (`x` and `x.auto-refirst-part-0`). Both are safe; callers that overlap, a
  death or a file that was not removed may then put one member's bytes under the
  other's name, or refuse it.

Adapter

- Logs are not measured again after the tool has ended: a burst just before the
  end is COMPLETE although README.md says that excessive output is PARTIAL.
- `unsafe_output` does not stop the polling loop; the output directory stays
  after a failure, so a retry with the same path is refused; the launcher may
  still be updated between its validation and the start, and an update that is
  undone in between is not noticed.

Android and Hermes

- Exception handlers are no edges of the control flow graph (android.cpp:1419),
  so an exact constant of a `loadLibrary` in a handler may be wrong.
- A native library that is a symbolic link or has an unsafe path gets a PACKAGED
  relation without a deep analysis and without PARTIAL; the first of two equal
  paths is analysed and uses the budget before it is withdrawn.
- RegisterNatives: on x86-64 the last writer in the text counts, calls destroy
  nothing and code reached by a jump backwards can overwrite; on AArch64 the
  nearest `FindClass` counts even with another call between. `NativesExact` is
  about code that only jumps forward and keeps its registers.
- Hermes: a structural failure after the opcode budget is PARTIAL, not FAILED.
- The extraction of a package removes what has the name of the next temporary file
  (apk.cpp:3105-3107): an entry called like it that was written before is gone,
  though it is counted and listed.

Unreal, Dart, ReadyToRun, Swift

- The Unreal finding names the range of the primary index even when FAILED.
- Dart AOT: with overlapping segments the flags and the file range of a symbol
  may come from different ones; a standalone pair that fails is not redeemed by
  Flutter's. Ranges of Kernel classes and procedures may overlap.
- Dart Kernel: of the names whose path is too long only the one that was cut is
  marked (dart.cpp:1068); a short name below it is not, although its path has
  `::...` in the middle. Sources are told apart by their URI as decoded, so a
  lone surrogate and the letters of its escape are one URI and the file is refused.
- Sections listed by a ReadyToRun header may overlap the header.
- Swift: the key of a type is the module's name, an empty string and the type's
  name (macho_swift.cpp:406: `"\0"` adds no character), so type `na` of module
  `m` and type `a` of `mn` are one, and the second is dropped as a duplicate.
  A string pointer to the start of the file counts as an empty name. The check
  for cycles of contexts is subsumed by the depth budget.

Materialization graph

- A failed handoff (`RUNTIME_BACKING_EXEC_HANDOFF_FAILED`) is marked executed like
  a confirmed one, because the state is searched for the word only
  (materialization_graph.cpp:264).
- A truncation is recorded as a write without a length and so counts as a
  confirmed write of bytes.
- The tracer forgets mappings and backings at an exec, the builder does not: the
  thread keeps its generation and a region is its addresses, whatever was
  unmapped in between. A plan therefore does not map again after an exec.
- A backing keeps the generation of its first execution when deeper code rewrites
  it, and a child's copy does not follow what the parent writes later.
- A forked child starts at generation 0 even when its parent ran something else;
  a handoff does not count as the first generated execution of its process.
- `value_or(event_region(...))` makes a region for an execution even when another
  one is found; the dump of a mutated mapping's second execution is hung on the
  first node that covers it.

Recovery from code

- Control records: a table whose scan ends at `MAX_RECORD_COUNT` can be accepted
  with a shifted base when the loop's limit is that number; calls beyond the
  limit of a function are dropped; unrolled calls of one slot count as records.
- CPython extensions: at a join only the first path's registers are used, and
  one path that does not decode rejects the init function. An instruction that
  changes a register without naming it is passed over, and a write of a part of
  one counts as the whole (cpython_extension.cpp:128-136), so that a version may
  be wrong; `Explicit` is about code without either.
- Continuations: a register that was once given the frame is taken for it
  everywhere; a store over the resume pointer that is not code is ignored.
- Cython: an earlier store of the module's dictionary counts even when
  overwritten, a store of an unknown value does not erase what a global held,
  implicit register writes are not seen, code is read in address order.
- GDExtension: names survive a store over their slot, and jumps and other
  instructions than moves, pushes and additions are ignored (`Kept`).

Exceptional control flow

- A removal that is called through a thunk beginning with ENDBR64 is seen by the
  targeted scan only, not by `pe_api_calls`: a trigger may be HIGH although its
  handler is gone. An import held in a register survives a call that is not
  recognized. `PeExact` is about code whose calls all are (`Recognized`).
- Arguments are traced back in address order whatever jumps there are, and a
  data cell is read from the file even if the code writes it; CONTEXT.Rip counts
  as rewritten by the first matching store even when it is on one branch only or
  overwritten (`Straight`). Whether rcx still holds the EXCEPTION_POINTERS is not
  asked. A function that does not decode is skipped without PARTIAL.

Reference models

- `build_cpython_model_trust` is called by the tests only; the program prints the
  comparisons without the judgement.
- An opcode whose handler several reference opcodes share is PERMUTED but gets
  no entry in the validated map, although the fact says complete and exact. The
  map may come from the compiler probe when the dispatch table gives none.
- An image whose bytes are exact but whose table has another shape is reported
  HANDLER_MODIFIED.
- A pointer to an area of zeros is a confirmed frozen table without modules, also
  in an executable section.
- `i32()` and `u8()` of the marshal reader give 0 at the end of the data; strings,
  tuples and references read their length with them, so that a module cut within
  its last length is accepted. The canonical form begins a new set of active
  values for the members of a set, and a set that contains itself has no end.
- The opcode module is recovered without asking whether a helper is bound again
  in the region, calls outside the region are counted, and the raw scan ignores
  EXTENDED_ARG. A version like "13.8.5" is read as 3.8.5. The pairing validates
  by its witnesses only the opcodes that occur in them.

Application runtimes and Unity

- Scripts of an ASAR archive: a slash after a keyword (`return /'/`) is a division to the
  scanner, and the quote in it begins a string, so that calls behind it are
  missed and text in strings is taken for calls. `AsarExact` is about texts
  without that.
- At the limit `promote` puts the new path in the place of the last promoted one
  (asar_script.cpp:164), so that an extraction of the core may lack the script
  or an earlier target.
- A V8 cache of 32 bytes or more that fits both header layouts is refused.
- Two pairs of a Unity registration that are zero settle nothing unless the
  version of the engine is known.

Godot and PyInstaller

- An empty encrypted child decrypts under any key, so that one wrong candidate
  can be confirmed (godot.cpp:678-709), though the empty directory is excluded;
  `PckExact` requires something that tells keys apart (`Telling`).
- `extract_godot` compares the directory's size with the budget and adds the
  decrypted length (godot.cpp:768): when they differ `output_bytes` may exceed
  the limit and the rest wraps around (`Agreeing`). A wrong MD5 of a plain child
  is only a warning. `decrypt_stream` forms `o + 40` unchecked.
- GDScript: a modified layout is only looked for in version 101.
- PyInstaller: PYZ offsets and lengths are cut to 32 bits; malformed duplicates
  do not count as duplicates; only the first of duplicate bootstrap entries is
  compared; a name stays claimed after a refused write; a full extraction that
  succeeds may have skipped unsafe, colliding or blocked entries with warnings;
  entries may overlap the table or the cookie; nesting of marshal data is not
  bounded.

## Plan

Done: the spool, the replacement, both graphs, the window, the pipeline, the ZIP
ingress, the adapter, the parsers and recovery passes, the reference models and the
materialization graph. Left, in order:

1. The runtime plan and the publication of repairs with two analysers and a
   crash.
2. An abstract specification of the spool (what is cached, what is chosen) that
   `DirectoryReportSpool` implements.
3. The Linux tracer: breakpoint slots, attached children, detach.

## Not modelled

- The tracers (`runtime.cpp` 1-1004 and 1036-1709, except the replacement): one
  loop each, whose steps depend on the traced program and on the processor; a
  model would have to invent both.
- The runtime plan and `unpack/repair.cpp`: in the plan; the pipeline has the
  runtime's budget.
- The ELF, PE and Mach-O tables below the analyses: their results are inputs of
  the modelled ones. Unity (except the layout of the registration), Nuitka and nested
  executables: signatures and version tables. The header of an ASAR archive and
  its extraction.
- Packers, Authenticode, interpreter boundaries: scores and classifications that
  claim no exactness. The ELF half of `exception_flow.cpp` (1497-1720 and what it
  calls): the same questions about signals, with a libc and a raw system call
  plane of its own.
- Report rendering, search, mapped files: formatting, byte scans, thin wrappers.
  The compiler probe is modelled by what it returns;
  how the dispatch table is found in an evaluator is left out. Vendored libraries are third-party code.
- Inside modelled parts: the C-API export table
  of Cython, the collision handling of script sidecar files, the contents of
  texts and names.
