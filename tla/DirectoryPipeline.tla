------------------------- MODULE DirectoryPipeline -------------------------
(***************************************************************************)
(* The directory analysis (main.cpp: analyze_directory_spooled): every     *)
(* admitted file is analysed in turn, its artifacts share one byte and     *)
(* file budget, their HIGH members are analysed as children, reports that  *)
(* the cross-file relationships or the runtime may still change are        *)
(* retained and the others spooled; then relationships, the Godot key      *)
(* composition, the runtime and the final spooling.                        *)
(*                                                                         *)
(* An artifact is its content, "self" being a copy of the input.  What an  *)
(* extractor writes is chosen freely within what it is allowed; two        *)
(* extractors of one file have the allowance each to themselves.           *)
(***************************************************************************)
EXTENDS Integers, Sequences, SequencesExt, FiniteSets

CONSTANTS
    Directories,      \* the directories that may be given: inputs |-> kind
    Options,          \* the command lines: [extract, run, run_all]
    Contents, High,   \* artifacts, and those of HIGH priority
    SizeOf, ReportSizes,
    PreBytes, PreFiles, MaxBytes, MaxFiles,   \* kDirectory...Artifact...
    MaxDepth, MaxNodes, MaxChildBytes,        \* --artifact-depth/nodes/bytes
    SemTargets,                               \* kMaxTargets: encrypted packs tried
    MaxTargets, TotalMs, TimeoutMs,
    Producers, MaxOutput, MaxEvents           \* bounds of the model: kinds with output,
                                              \* files at a time, chmods and faults

ASSUME PipelineAssumption ==
    /\ \A d \in Directories : d \in Seq(STRING)
    /\ Options \subseteq [extract : BOOLEAN, run : BOOLEAN, run_all : BOOLEAN]
    /\ High \subseteq Contents /\ "self" \in High
    /\ SizeOf \in [Contents -> Nat] /\ ReportSizes \subseteq Nat
    /\ PreBytes \in Nat /\ PreFiles \in Nat /\ MaxBytes \in Nat /\ MaxFiles \in Nat
    /\ PreBytes <= MaxBytes /\ PreFiles <= MaxFiles
    /\ MaxNodes \in Nat /\ MaxChildBytes \in Nat /\ MaxOutput \in Nat
    /\ MaxTargets \in Nat /\ TotalMs \in Nat /\ TimeoutMs \in Nat

VARIABLES
    dir, opt,          \* the directory and the command line
    pc, cur, sem,      \* stage, candidate, and retained report it is about
    call,              \* what the post-relationship step has to say of itself
    todo, known,       \* child loop: artifacts to come, first_by_sha
    arts, graph,       \* per input: report.artifacts (--extract reads them again),
                       \* report.artifact_graph
    disk, used,        \* bytes and files under a root; charged to the budget
    mstate, omitted,   \* artifact_materialization_state, materialization.partial
    partial,           \* artifact_rendering.partial
    compact, retained, spooled, failed,
    mutated, exec,     \* relationship-mutated reports; execute permission
    rstate, spent,     \* runtime: state and granted time of each candidate
    env,               \* chmods and i/o faults so far; bytes nobody counted
    exit

analysis == <<todo, known, arts, graph, disk, used, mstate, omitted, partial>>
books == <<compact, retained, spooled, failed, mutated>>
runtime == <<rstate, spent>>
vars == <<dir, opt, pc, cur, sem, call, analysis, books, exec, runtime, env, exit>>

Inputs == DOMAIN dir

NoGraph == [enabled |-> FALSE, nodes |-> 0, bytes |-> 0, truncated |-> FALSE, edges |-> {}]

NewGraph == [NoGraph EXCEPT !.enabled = TRUE, !.nodes = 1]

NoCall == [refused |-> FALSE, skips |-> FALSE, added |-> FALSE]

Nothing == [bytes |-> 0, files |-> 0]

Stages == {"next", "children", "index", "semantics", "runtime", "spool", "done"}

TypeOK ==
    /\ pc \in Stages /\ cur \in Nat /\ sem \in Nat
    /\ known \subseteq Contents /\ mutated \subseteq Inputs /\ failed \subseteq Inputs
    /\ \A i \in Inputs : arts[i] \in Seq(Contents) /\ disk[i].files >= 0
    /\ compact \in Seq(Inputs) /\ retained \in Seq(Inputs) /\ spooled \in Seq(Inputs)
    /\ exit \in {"none", "Success", "Input", "artifact_invariant", "directory_spool",
                 "directory_retention"}

Init ==
    /\ dir \in Directories /\ opt \in Options
    /\ pc = "next" /\ cur = 1 /\ sem = 0 /\ call = NoCall
    /\ todo = <<>> /\ known = {}
    /\ arts = [i \in DOMAIN dir |-> <<>>] /\ graph = [i \in DOMAIN dir |-> NoGraph]
    /\ disk = [i \in DOMAIN dir |-> Nothing] /\ used = Nothing
    /\ mstate = [i \in DOMAIN dir |-> "NONE"] /\ omitted = [i \in DOMAIN dir |-> FALSE]
    /\ partial = FALSE
    /\ compact = <<>> /\ retained = <<>> /\ spooled = <<>> /\ failed = {} /\ mutated = {}
    /\ \E on \in BOOLEAN : exec = [i \in DOMAIN dir |-> on /\ dir[i] \in {"elf", "unity"}]
    /\ rstate = [i \in DOMAIN dir |-> "NONE"] /\ spent = [i \in DOMAIN dir |-> 0]
    /\ env = [chmods |-> 0, faults |-> 0, leaked |-> FALSE]
    /\ exit = "none"

-----------------------------------------------------------------------------
(* Helpers.  Definitions named <definition>_<fault> are mutants: what a slip *)
(* in the code would make of the definition after them; nothing uses them.   *)

Bounded == ~opt.extract

\* The sum of a table of counts is the number of cells of its columns.
Cells(f) == UNION {{i} \X (1 .. f[i]) : i \in DOMAIN f}

Total(f) == Cardinality(Cells(f))

BytesOf(s) == Total([j \in DOMAIN s |-> SizeOf[s[j]]])

Left(limit, n) == IF n < limit THEN limit - n ELSE 0

Plus(u, b, f) == [bytes |-> u.bytes + b, files |-> u.files + f]

\* A call on the file system fails: unsafe path, i/o error, full disk.
Fault == env.chmods + env.faults < MaxEvents

Faulted(leak) == env' = [env EXCEPT !.faults = @ + 1, !.leaked = @ \/ leak]

Abort(stage) ==
    /\ exit' = stage /\ pc' = "done"
    /\ UNCHANGED <<dir, opt, cur, sem, call, analysis, books, exec, runtime>>

\* What the extractors of input i may write when each has b bytes and f
\* files to itself.
Outputs(i, b, f) ==
    LET Fits(s) == BytesOf(s) <= b /\ Len(s) <= f
        n == IF dir[i] \in Producers THEN MaxOutput ELSE 0
    IN {s \in BoundedSeq(Contents, n) :
           \E k \in 0 .. Len(s) : Fits(SubSeq(s, 1, k)) /\ Fits(SubSeq(s, k + 1, Len(s)))}

\* Environment: a permission bit changes while the analysis runs.
Chmod ==
    /\ env.chmods + env.faults < MaxEvents /\ exit = "none"
    /\ \E i \in Inputs : exec' = [exec EXCEPT ![i] = ~@]
    /\ env' = [env EXCEPT !.chmods = @ + 1]
    /\ UNCHANGED <<dir, opt, pc, cur, sem, call, analysis, books, runtime, exit>>

-----------------------------------------------------------------------------
(* One candidate *)

AtCandidate == pc = "next" /\ cur <= Len(dir) /\ exit = "none"

\* The preflight could not open it, or it is gone when it is mapped: the
\* latter leaves a report without artifacts.
Unreadable ==
    /\ AtCandidate /\ Fault
    /\ cur' = cur + 1
    /\ Faulted(FALSE)
    /\ UNCHANGED <<dir, opt, pc, sem, call, analysis, books, exec, runtime, exit>>

Remaining == [bytes |-> Left(PreBytes, used.bytes), files |-> Left(PreFiles, used.files)]

BudgetExhausted == Remaining.bytes = 0 \/ Remaining.files = 0

AnalysisFails ==
    /\ AtCandidate /\ Fault
    /\ failed' = failed \cup {cur} /\ pc' = "index"
    /\ mstate' = [mstate EXCEPT ![cur] = IF ~Bounded THEN @ ELSE
                                         IF BudgetExhausted THEN "DEFERRED" ELSE "NO_OUTPUT"]
    /\ omitted' = [omitted EXCEPT ![cur] = Bounded /\ BudgetExhausted]
    /\ partial' = (partial \/ (Bounded /\ BudgetExhausted))
    /\ Faulted(FALSE)
    /\ UNCHANGED <<dir, opt, cur, sem, call, todo, known, arts, graph, disk, used,
                   compact, retained, spooled, mutated, exec, runtime, exit>>

Refused(state) ==
    /\ mstate' = [mstate EXCEPT ![cur] = state]
    /\ omitted' = [omitted EXCEPT ![cur] = TRUE]
    /\ partial' = TRUE /\ pc' = "index"
    /\ UNCHANGED <<dir, opt, cur, sem, call, todo, known, arts, graph, disk, used, books, exec,
                   runtime, exit>>

\* The artifact root of an earlier analysis cannot be reset.
UnsafeRoot ==
    /\ AtCandidate /\ Bounded /\ Fault
    /\ Refused("REFUSED_UNSAFE_ROOT") /\ Faulted(FALSE)

Deferred ==
    /\ AtCandidate /\ Bounded /\ BudgetExhausted
    /\ Refused("DEFERRED") /\ UNCHANGED env

OverAllowance_BytesOnly(s) == BytesOf(s) > Remaining.bytes

OverAllowance(s) == BytesOf(s) > Remaining.bytes \/ Len(s) > Remaining.files

\* Two extractors together exceed the allowance: the root is emptied and the
\* file is analysed again without materialization.
RolledBack ==
    /\ AtCandidate /\ Bounded /\ ~BudgetExhausted
    /\ \E s \in Outputs(cur, Remaining.bytes, Remaining.files) : OverAllowance(s)
    /\ Refused("DEFERRED") /\ UNCHANGED env

\* ... or cannot be emptied, or is found to hold output although it was
\* suppressed: the whole analysis is given up.
RollbackFails ==
    /\ AtCandidate /\ Bounded /\ Fault
    /\ Abort("artifact_invariant") /\ Faulted(TRUE)

\* The HIGH artifacts of s, in their order.
Highs(s) == {j \in DOMAIN s : s[j] \in High}

Children(s) ==
    [k \in 1 .. Cardinality(Highs(s)) |->
        s[CHOOSE j \in Highs(s) : Cardinality({h \in Highs(s) : h <= j}) = k]]

Pending(s, d) == [j \in DOMAIN Children(s) |-> [content |-> Children(s)[j], depth |-> d]]

Kept ==
    /\ AtCandidate /\ Bounded /\ ~BudgetExhausted
    /\ \E s \in Outputs(cur, Remaining.bytes, Remaining.files), cut \in BOOLEAN :
          /\ ~OverAllowance(s)
          /\ disk' = [disk EXCEPT ![cur] = Plus(@, BytesOf(s), Len(s))]
          /\ used' = Plus(used, BytesOf(s), Len(s))
          /\ omitted' = [omitted EXCEPT ![cur] = cut]
          /\ mstate' = [mstate EXCEPT ![cur] =
                 IF s = <<>> THEN "NO_OUTPUT" ELSE
                 IF cut THEN "MATERIALIZED_PARTIAL" ELSE "MATERIALIZED"]
          /\ todo' = Pending(s, 1) /\ known' = {"self"}
          /\ graph' = [graph EXCEPT ![cur] = IF Children(s) = <<>> THEN @ ELSE NewGraph]
    /\ pc' = "children"
    /\ UNCHANGED <<dir, opt, cur, sem, call, arts, partial, books, exec, runtime, env, exit>>

\* --extract: no aggregate budget; analyze_file itself follows the children.
Extracted ==
    /\ AtCandidate /\ ~Bounded
    /\ \E s \in Outputs(cur, MaxChildBytes, MaxNodes) :
          /\ arts' = [arts EXCEPT ![cur] = s]
          /\ todo' = Pending(s, 1) /\ known' = {"self"}
          /\ graph' = [graph EXCEPT ![cur] = IF Children(s) = <<>> THEN @ ELSE NewGraph]
    /\ pc' = "children"
    /\ UNCHANGED <<dir, opt, cur, sem, call, disk, used, mstate, omitted, partial, books, exec,
                   runtime, env, exit>>

-----------------------------------------------------------------------------
(* Child analyses.  In a bounded directory analysis the children are the    *)
(* HIGH artifacts of the report, in --extract mode also theirs, in turn.    *)


AtChild == pc = "children" /\ todo # <<>>

Child == Head(todo)

\* The report the children belong to.
Owner == IF sem = 0 THEN cur ELSE retained[sem]

G == graph[Owner]

Limit == IF sem = 0 THEN [bytes |-> PreBytes, files |-> PreFiles]
                    ELSE [bytes |-> MaxBytes, files |-> MaxFiles]

Edge(state, hashed) ==
    [content |-> Child.content, depth |-> Child.depth, state |-> state, hashed |-> hashed]

\* The loop goes on with the next artifact; g is the graph without the edge.
\* A skipped artifact truncates the graph and is noted in the report.
HandledAs(g, state, hashed, skip) ==
    /\ graph' = [graph EXCEPT ![Owner] = [g EXCEPT !.edges = @ \cup {Edge(state, hashed)},
                                                   !.truncated = @ \/ skip]]
    /\ omitted' = [omitted EXCEPT ![Owner] = @ \/ skip]
    /\ call' = [call EXCEPT !.skips = @ \/ skip]
    /\ UNCHANGED <<dir, opt, pc, cur, sem, mstate, partial, books, exec, runtime, exit>>

\* A symlink, or its size or hash is not to be had.
ChildUnsafe ==
    /\ AtChild /\ Fault
    /\ todo' = Tail(todo)
    /\ HandledAs(G, "SKIPPED_UNSAFE", FALSE, TRUE) /\ Faulted(FALSE)
    /\ UNCHANGED <<known, arts, disk, used>>

Duplicate == Child.content \in known

\* A known child is never refused: the duplicate check comes first.
ChildDuplicate ==
    /\ AtChild /\ Duplicate
    /\ todo' = Tail(todo)
    /\ HandledAs(G, "DUPLICATE_SKIPPED", TRUE, FALSE)
    /\ UNCHANGED <<known, arts, disk, used, env>>

TooDeep == Child.depth > MaxDepth

NoNodeLeft == G.nodes >= MaxNodes

OverBytes == SizeOf[Child.content] > Left(MaxChildBytes, G.bytes)

NoRoomLeft == used.files >= Limit.files \/ used.bytes >= Limit.bytes

\* The first check that objects decides; the two loops order them differently.
Refusal ==
    CASE TooDeep -> "SKIPPED_DEPTH"
      [] ~TooDeep /\ NoNodeLeft /\ (Bounded \/ ~OverBytes) -> "SKIPPED_NODE_LIMIT"
      [] ~TooDeep /\ OverBytes /\ (~Bounded \/ ~NoNodeLeft) -> "SKIPPED_BYTE_LIMIT"
      [] ~TooDeep /\ ~NoNodeLeft /\ ~OverBytes /\ Bounded /\ NoRoomLeft
           -> "SKIPPED_DIRECTORY_ARTIFACT_BUDGET"
      [] OTHER -> "none"

ChildRefused_Untold ==
    /\ AtChild /\ ~Duplicate /\ Refusal # "none"
    /\ todo' = Tail(todo)
    /\ HandledAs(G, Refusal, TRUE, Refusal = "SKIPPED_DEPTH")
    /\ UNCHANGED <<known, arts, disk, used, env>>

ChildRefused ==
    /\ AtChild /\ ~Duplicate /\ Refusal # "none"
    /\ todo' = Tail(todo)
    /\ HandledAs(G, Refusal, TRUE, TRUE)
    /\ UNCHANGED <<known, arts, disk, used, env>>

Admitting == AtChild /\ ~Duplicate /\ Refusal = "none"

\* The content is known and the node is paid for before anything is done.
Admitted == [G EXCEPT !.nodes = @ + 1, !.bytes = @ + SizeOf[Child.content]]

\* The child's own root cannot be made or emptied, or its report is there.
ChildRootFails ==
    /\ Admitting /\ Fault
    /\ todo' = Tail(todo) /\ known' = known \cup {Child.content}
    /\ HandledAs(Admitted, "SKIPPED_UNSAFE", TRUE, TRUE) /\ Faulted(FALSE)
    /\ UNCHANGED <<arts, disk, used>>

\* Bounded: the child is analysed without materialization of its own, and its
\* report is kept when it fits what is left of the directory's budget.
ChildReported ==
    /\ Admitting /\ Bounded
    /\ todo' = Tail(todo) /\ known' = known \cup {Child.content}
    /\ \E n \in ReportSizes :
          /\ n <= Left(Limit.bytes, used.bytes)
          /\ disk' = [disk EXCEPT ![Owner] = Plus(@, n, 1)]
          /\ used' = Plus(used, n, 1)
    /\ HandledAs(Admitted, "ANALYZED_STATIC", TRUE, FALSE)
    /\ UNCHANGED <<arts, env>>

ChildReportTooBig ==
    /\ Admitting /\ Bounded
    /\ \E n \in ReportSizes : n > Left(Limit.bytes, used.bytes)
    /\ todo' = Tail(todo) /\ known' = known \cup {Child.content}
    /\ HandledAs(Admitted, "SKIPPED_DIRECTORY_ARTIFACT_BUDGET", TRUE, TRUE)
    /\ UNCHANGED <<arts, disk, used, env>>

\* A report that could not be written is removed with its root; nobody looks
\* whether the removal worked.
ChildReportFails ==
    /\ Admitting /\ Bounded /\ Fault
    /\ todo' = Tail(todo) /\ known' = known \cup {Child.content}
    /\ \E left \in BOOLEAN :
          /\ disk' = [disk EXCEPT ![Owner] = Plus(@, 0, IF left THEN 1 ELSE 0)]
          /\ Faulted(left)
    /\ HandledAs(Admitted, "ANALYZED_REPORT_WRITE_FAILED", TRUE, TRUE)
    /\ UNCHANGED <<arts, used>>

\* --extract: the child is analysed with what is left of the graph's budgets,
\* and its HIGH artifacts queue behind the others.
ChildExtracted ==
    /\ Admitting /\ ~Bounded
    /\ known' = known \cup {Child.content}
    /\ \E s \in Outputs(Owner, Left(MaxChildBytes, Admitted.bytes), Left(MaxNodes, Admitted.nodes)),
          written \in {TRUE} \cup {~Fault} :
          /\ todo' = Tail(todo) \o Pending(s, Child.depth + 1)
          /\ arts' = [arts EXCEPT ![Owner] = @ \o s]
          /\ HandledAs(Admitted, IF written THEN "ANALYZED_STATIC" ELSE "ANALYZED_REPORT_WRITE_FAILED",
                       TRUE, ~written)
          /\ IF written THEN UNCHANGED env ELSE Faulted(FALSE)
    /\ UNCHANGED <<disk, used>>

\* Before the relationships the state follows the report; afterwards it says
\* what the composition step itself met.
StateAfter_KeepsOld ==
    IF sem = 0 THEN IF disk[cur].files > 0 /\ omitted[cur] THEN "MATERIALIZED_PARTIAL" ELSE mstate[cur]
    ELSE mstate[Owner]

StateAfter ==
    IF sem = 0 THEN IF disk[cur].files > 0 /\ omitted[cur] THEN "MATERIALIZED_PARTIAL" ELSE mstate[cur]
    ELSE CASE call.refused \/ call.skips -> "MATERIALIZED_PARTIAL"
           [] ~(call.refused \/ call.skips) /\ call.added -> "MATERIALIZED"
           [] OTHER -> mstate[Owner]

ChildrenDone ==
    /\ pc = "children" /\ todo = <<>>
    /\ mstate' = IF Bounded THEN [mstate EXCEPT ![Owner] = StateAfter] ELSE mstate
    /\ partial' = (partial \/ (Bounded /\ sem > 0 /\ call.skips))
    /\ pc' = IF sem = 0 THEN "index" ELSE "semantics"
    /\ sem' = IF sem = 0 THEN 0 ELSE sem + 1
    /\ call' = NoCall /\ known' = {}
    /\ UNCHANGED <<dir, opt, cur, todo, arts, graph, disk, used, omitted, books,
                   exec, runtime, env, exit>>

-----------------------------------------------------------------------------
(* Retention and relationships *)

Runnable(i) == i \notin failed /\ dir[i] \in {"elf", "unity"} /\ exec[i]

RequiresRetention_RootsOnly(i) ==
    i \notin failed /\ ((dir[i] = "unity" /\ exec[i]) \/ dir[i] = "pck")

RequiresRetention(i) ==
    i \notin failed /\ ((dir[i] = "unity" /\ exec[i]) \/ dir[i] \in {"managed", "pck"})

\* The two reasons for keeping a report were not exclusive of spooling it.
Index_SpoolsAll ==
    /\ pc = "index"
    /\ compact' = Append(compact, cur)
    /\ retained' = IF RequiresRetention(cur) THEN Append(retained, cur) ELSE retained
    /\ spooled' = IF opt.run /\ Runnable(cur) THEN spooled ELSE Append(spooled, cur)
    /\ rstate' = rstate
    /\ pc' = "next" /\ cur' = cur + 1
    /\ UNCHANGED <<dir, opt, sem, call, analysis, failed, mutated, exec, spent, env, exit>>

Index ==
    /\ pc = "index"
    /\ compact' = Append(compact, cur)
    /\ IF RequiresRetention(cur) \/ (opt.run /\ Runnable(cur))
       THEN retained' = Append(retained, cur) /\ UNCHANGED spooled
       ELSE spooled' = Append(spooled, cur) /\ UNCHANGED retained
    /\ rstate' = [rstate EXCEPT ![cur] =
           IF opt.run /\ ~Runnable(cur) THEN "SKIPPED_STATIC_NOT_EXECUTABLE" ELSE @]
    /\ pc' = "next" /\ cur' = cur + 1
    /\ UNCHANGED <<dir, opt, sem, call, analysis, failed, mutated, exec, spent, env, exit>>

\* A report cannot be rendered into the spool.
SpoolFails ==
    /\ pc \in {"index", "spool"} /\ Fault
    /\ Abort("directory_spool") /\ Faulted(FALSE)

Analysed == ToSet(compact) \ failed

\* Unity Mono closure: a Unity executable (its permission bit is read again),
\* its managed payload and a Mono runtime; both first are changed.
Mutated ==
    {i \in Analysed :
        /\ \E x \in Analysed : dir[x] = "mono"
        /\ \E u, m \in Analysed : dir[u] = "unity" /\ exec[u] /\ dir[m] = "managed" /\ i \in {u, m}}

Relate ==
    /\ pc = "next" /\ cur > Len(dir) /\ Analysed # {}
    /\ mutated' = Mutated /\ pc' = "semantics" /\ sem' = 1
    /\ UNCHANGED <<dir, opt, cur, call, analysis, compact, retained, spooled, failed, exec,
                   runtime, env, exit>>

NoInput ==
    /\ pc = "next" /\ cur > Len(dir) /\ Analysed = {}
    /\ Abort("Input") /\ UNCHANGED env

-----------------------------------------------------------------------------
(* Godot key composition: an encrypted pack whose key another file holds    *)

AtTarget == pc = "semantics" /\ sem <= Len(retained)

Eligible ==
    /\ dir[retained[sem]] = "pck"
    /\ Cardinality({j \in 1 .. sem - 1 : dir[retained[j]] = "pck"}) < SemTargets

\* No encrypted pack, one too many, or no unique source; or its output
\* directory cannot be reset.
TargetSkipped ==
    /\ AtTarget
    /\ sem' = sem + 1
    /\ UNCHANGED <<dir, opt, pc, cur, call, analysis, books, exec, runtime, env, exit>>

Rest == [bytes |-> Left(MaxBytes, used.bytes), files |-> Left(MaxFiles, used.files)]

\* One file is kept back for the provenance map.
Decisive ==
    {s \in BoundedSeq(Contents, MaxOutput) :
        s # <<>> => BytesOf(s) <= Rest.bytes /\ Len(s) <= Rest.files - 1}

Hashed(g) == {e.content : e \in {x \in g.edges : x.hashed}}

\* The codec stopped at a budget of its own, or was not even tried.
Tight(cut) == cut \/ Rest.files <= 1

MapRefused(s, n) == Len(s) >= Rest.files \/ n > Left(Rest.bytes, BytesOf(s))

\* b bytes in f files are charged to target t, short of something or not.
Composed(t, s, b, f, torn, short) ==
    /\ used' = Plus(used, b, f)
    /\ disk' = [disk EXCEPT ![t] = Plus(@, b, f + torn)]
    /\ partial' = (partial \/ short)
    /\ todo' = Pending(s, 1)
    /\ known' = {"self"} \cup Hashed(graph[t])
    /\ graph' = [graph EXCEPT ![t] = IF @.enabled \/ Children(s) = <<>> THEN @ ELSE NewGraph]
    /\ call' = [refused |-> short, skips |-> FALSE, added |-> f > 0]

\* The decisive children and their provenance map are written and charged;
\* a map that could not be written stays as it is, uncharged.
Compose ==
    /\ AtTarget /\ Eligible /\ Bounded
    /\ \E s \in Decisive, n \in ReportSizes, cut \in BOOLEAN :
          \/ /\ MapRefused(s, n)
             /\ Composed(retained[sem], s, BytesOf(s), Len(s), 0, TRUE) /\ UNCHANGED env
          \/ /\ ~MapRefused(s, n)
             /\ Composed(retained[sem], s, BytesOf(s) + n, Len(s) + 1, 0, Tight(cut))
             /\ UNCHANGED env
          \/ /\ ~MapRefused(s, n) /\ Fault
             /\ Composed(retained[sem], s, BytesOf(s), Len(s), 1, Tight(cut)) /\ Faulted(TRUE)
    /\ pc' = "children"
    /\ UNCHANGED <<dir, opt, cur, sem, arts, mstate, omitted, books, exec, runtime, exit>>

\* --extract: everything is written and the automatic graph starts anew over
\* all artifacts of the report.
ComposeUnbounded ==
    /\ AtTarget /\ Eligible /\ ~Bounded
    /\ LET t == retained[sem]
       IN \E s \in BoundedSeq(Contents, 1) :
             /\ arts' = [arts EXCEPT ![t] = @ \o s]
             /\ todo' = Pending(arts[t] \o s, 1)
             /\ known' = {"self"}
             /\ graph' = [graph EXCEPT ![t] = IF Children(arts[t] \o s) = <<>> THEN @ ELSE NewGraph]
    /\ pc' = "children"
    /\ UNCHANGED <<dir, opt, cur, sem, call, disk, used, mstate, omitted, partial, books, exec,
                   runtime, env, exit>>

\* A report that was changed must still be there to take the change.
CheckRetention_Unreset ==
    /\ pc = "semantics" /\ sem > Len(retained)
    /\ IF mutated \subseteq ToSet(retained)
       THEN /\ pc' = "runtime" /\ cur' = -1
            /\ UNCHANGED <<dir, opt, sem, call, analysis, books, exec, runtime, exit>>
       ELSE Abort("directory_retention")
    /\ UNCHANGED env

CheckRetention ==
    /\ pc = "semantics" /\ sem > Len(retained)
    /\ IF mutated \subseteq ToSet(retained)
       THEN /\ pc' = "runtime" /\ cur' = 1
            /\ UNCHANGED <<dir, opt, sem, call, analysis, books, exec, runtime, exit>>
       ELSE Abort("directory_retention")
    /\ UNCHANGED env

-----------------------------------------------------------------------------
(* Runtime *)

AtRuntime == pc = "runtime" /\ cur <= Len(dir)

TotalSpent == Total(spent)

Targets == Cardinality({i \in Inputs : spent[i] > 0})

Grant_Whole == TimeoutMs

Grant == IF TimeoutMs <= TotalMs - TotalSpent THEN TimeoutMs ELSE TotalMs - TotalSpent

RuntimeSkip(low) ==
    CASE cur \notin ToSet(retained) ->
           IF rstate[cur] = "SKIPPED_STATIC_NOT_EXECUTABLE" THEN rstate[cur]
           ELSE "SKIPPED_NO_STATIC_REPORT"
      [] cur \in ToSet(retained) /\ ~Runnable(cur) -> "SKIPPED_STATIC_NOT_EXECUTABLE"
      [] cur \in ToSet(retained) /\ Runnable(cur) /\ ~opt.run_all /\ low -> "SKIPPED_PRIORITY"
      [] cur \in ToSet(retained) /\ Runnable(cur) /\ ~opt.run_all /\ ~low /\ Targets >= MaxTargets
           -> "SKIPPED_TARGET_LIMIT"
      [] cur \in ToSet(retained) /\ Runnable(cur) /\ (opt.run_all \/ (~low /\ Targets < MaxTargets))
           /\ TotalSpent >= TotalMs -> "SKIPPED_RUNTIME_BUDGET"
      [] OTHER -> "none"

\* low: the candidate ended up in Tier 3.  RAN stands for whatever came of it:
\* COMPLETED, TIMED_OUT, UNPACKED_VALIDATED_APPLIED or the probe's states.
\* What a run dumps, and the children analysed from it, is written under the
\* artifact root too, but outside the budget of the static artifacts: disk and
\* used are of those only.
RuntimeStep ==
    /\ AtRuntime /\ opt.run
    /\ \E low \in BOOLEAN :
          IF RuntimeSkip(low) # "none"
          THEN rstate' = [rstate EXCEPT ![cur] = RuntimeSkip(low)] /\ UNCHANGED spent
          ELSE /\ rstate' = [rstate EXCEPT ![cur] = "RAN"]
               /\ spent' = [spent EXCEPT ![cur] = Grant]
    /\ cur' = cur + 1
    /\ UNCHANGED <<dir, opt, pc, sem, call, analysis, books, exec, env, exit>>

RuntimeDone ==
    /\ pc = "runtime" /\ (cur > Len(dir) \/ ~opt.run)
    /\ pc' = "spool" /\ sem' = 1
    /\ UNCHANGED <<dir, opt, cur, call, analysis, books, exec, runtime, env, exit>>

\* The loop leaves the report in place and does not move on.
SpoolRetained_Stuck ==
    /\ pc = "spool" /\ sem <= Len(retained)
    /\ spooled' = IF Len(spooled) < Len(compact) THEN Append(spooled, retained[sem]) ELSE spooled
    /\ UNCHANGED <<dir, opt, pc, cur, sem, call, analysis, compact, retained, failed, mutated, exec,
                   runtime, env, exit>>

SpoolRetained ==
    /\ pc = "spool" /\ sem <= Len(retained)
    /\ spooled' = Append(spooled, retained[sem]) /\ sem' = sem + 1
    /\ UNCHANGED <<dir, opt, pc, cur, call, analysis, compact, retained, failed, mutated, exec,
                   runtime, env, exit>>

Finish ==
    /\ pc = "spool" /\ sem > Len(retained)
    /\ Abort(IF Len(spooled) = Len(compact) THEN "Success" ELSE "directory_retention")
    /\ UNCHANGED env

Done == pc = "done" /\ UNCHANGED vars

Step ==
    \/ Unreadable \/ AnalysisFails \/ UnsafeRoot \/ Deferred \/ RolledBack \/ RollbackFails
    \/ Kept \/ Extracted
    \/ ChildUnsafe \/ ChildDuplicate \/ ChildRefused \/ ChildRootFails \/ ChildReported
    \/ ChildReportTooBig \/ ChildReportFails \/ ChildExtracted \/ ChildrenDone
    \/ Index \/ SpoolFails \/ Relate \/ NoInput
    \/ TargetSkipped \/ Compose \/ ComposeUnbounded \/ CheckRetention
    \/ RuntimeStep \/ RuntimeDone \/ SpoolRetained \/ Finish

Next == Step \/ Chmod \/ Done

Spec == Init /\ [][Next]_vars

\* One thread, every analysis ends; only the environment may stay idle.
FairSpec == Spec /\ WF_vars(Step)

-----------------------------------------------------------------------------
(* Properties *)

Quiet == pc \notin {"children", "done"}

\* The static artifacts under the artifact roots are exactly what was charged,
\* and stay within the advertised hard cap; before the relationships within the
\* smaller one, so the reserve is really there.  Only a write or a removal
\* that failed half way can leave something that nobody counts, and runtime
\* output, which the cap does not cover.
HardBound ==
    Bounded /\ ~env.leaked =>
        /\ used.bytes = Total([i \in Inputs |-> disk[i].bytes])
        /\ used.files = Total([i \in Inputs |-> disk[i].files])
        /\ used.bytes <= MaxBytes /\ used.files <= MaxFiles
        /\ sem = 0 => used.bytes <= PreBytes /\ used.files <= PreFiles

\* A child graph that is not called truncated is complete: every artifact it
\* met was analysed or is a copy of one that was (or of the input), although
\* contents of refused artifacts count as known later on.
GraphIsHonest ==
    \A i \in Inputs : ~graph[i].truncated =>
        {e.content : e \in graph[i].edges} \subseteq
            {"self"} \cup {e.content : e \in {x \in graph[i].edges : x.state = "ANALYZED_STATIC"}}

\* Every report that was made is spooled once and only once.
NoReportLost ==
    exit = "Success" =>
        /\ IsInjective(spooled) /\ ToSet(spooled) = ToSet(compact)

\* A report that the relationships change was retained, unless a permission
\* bit changed in between: retention reads it when the file is analysed, the
\* relationship analysis once all are.
RetentionCoversMutation ==
    env.chmods = 0 => exit # "directory_retention"

\* However candidates time out, the time granted never exceeds the
\* directory's total, nor the number of targets its limit; and only a file
\* with a retained report is ever started.
RuntimeWithinBudget ==
    /\ TotalSpent <= TotalMs
    /\ ~opt.run_all => Targets <= MaxTargets
    /\ \A i \in Inputs : spent[i] > 0 => opt.run /\ i \in ToSet(retained)

\* The state of a candidate says what is on disk: nothing for one that was
\* deferred, refused or had no output, something for a materialized one.  A
\* composition that the budget refused altogether leaves MATERIALIZED_PARTIAL
\* on a candidate with nothing under its root; the artifact section of the
\* report then says that something was omitted.
StatesMatchDisk ==
    Quiet /\ Bounded /\ ~env.leaked => \A i \in Inputs :
        /\ disk[i].files > 0 => mstate[i] \in {"MATERIALIZED", "MATERIALIZED_PARTIAL"}
        /\ mstate[i] = "MATERIALIZED" => disk[i].files > 0
        /\ mstate[i] = "MATERIALIZED_PARTIAL" => disk[i].files > 0 \/ (sem > 0 /\ partial)

\* The analysis comes to an end.
Terminates == <>(exit # "none")
=============================================================================
