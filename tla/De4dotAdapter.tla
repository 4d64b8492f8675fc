--------------------------- MODULE De4dotAdapter ---------------------------
(***************************************************************************)
(* tools/de4dotex/adapter.py: one call of the adapter that may start the   *)
(* execution-capable de4dotEx tool, beside the world it runs in.           *)
(*                                                                         *)
(* The adapter checks a pinned manifest, hashes the input, checks the      *)
(* authorization against that hash, checks tool tree, launcher, cgroup and *)
(* output directory, copies the input, starts the tool and watches it.     *)
(* Meanwhile the input file may be rewritten or replaced, the launcher may *)
(* be updated, and the tool writes files and logs and ends, or does not.   *)
(*                                                                         *)
(* A file is a sequence of the chunks it is read by; a digest is the       *)
(* sequence itself.  Paths, texts and sizes below a chunk are left out.    *)
(***************************************************************************)
EXTENDS Integers, Sequences, FiniteSets, FiniteSetsExt, SequencesExt

CONSTANTS Contents,     \* what the input file may hold: sequences of chunks
          Target,       \* the bytes the authorization is bound to
          Names,        \* the names the tool gives its files
          InputLimit, TimeoutLimit, MemoryLimit, SwapLimit, ProcessLimit,
          OutputLimit, LogLimit, MaxFiles,   \* limits of the pinned manifest
          MaxEvents     \* bound: surprises of one call, changes of the files and steps of the tool

ASSUME LimitsArePositive ==
    /\ {InputLimit, TimeoutLimit, MemoryLimit, ProcessLimit, OutputLimit, LogLimit, MaxFiles} \subseteq Nat \ {0}
    /\ SwapLimit \in 0 .. MemoryLimit
    /\ Target \in Contents

VARIABLES
    env,       \* what does not change during the call: arguments, manifest, authorization, tool, cgroup
    pc,        \* the adapter's next step
    disk,      \* inode -> the chunks in it
    path,      \* what the input path names: an inode, or 0 for a symlink
    before,    \* the inode lstat saw
    handle,    \* the inode that is open
    digest,    \* the chunks hashed, input_sha256
    copied,    \* the chunks in target.dll
    launcher,  \* the version of bubblewrap that is installed
    proof,     \* digest and version of bubblewrap as validated
    probed,    \* bubblewrap has been started for --version
    proc,      \* the tool: none, running, killed or its exit code
    late,      \* the deadline is over
    output,    \* name -> what the tool has put there
    logs,      \* stdout and stderr of the tool, line by line
    walk,      \* names output_usage has not looked at, what it counted
    flags,     \* timed_out, oversized, unsafe_output
    result,    \* the JSON object
    events     \* how many surprises there were

input == <<disk, path>>
reading == <<before, handle, digest, copied>>
launch == <<launcher, proof, probed>>
tool == <<proc, late, output, logs>>
watch == <<walk, flags>>
vars == <<env, pc, input, reading, launch, tool, watch, result, events>>

Inodes == {1, 2}

\* A link or a device counts as special; size is that of a regular file; directories are passed over.
Absent == [kind |-> "absent", size |-> 0]
Entries == {Absent, [kind |-> "special", size |-> 0]}
           \cup {[kind |-> "regular", size |-> n] : n \in 1 .. OutputLimit}

Lines == {"banner", "other banner", "detected"}

NoWalk == [left |-> {}, count |-> 0, total |-> 0]

Pending == [state |-> "PARTIAL", reason_code |-> "", attempted |-> FALSE, artifacts |-> {}, proof |-> FALSE]

\* A call in which nothing is wrong, and what may be wrong with it.
Sound == [mode |-> "detect", platform |-> TRUE, absolute |-> TRUE, root |-> FALSE,
          readable |-> TRUE, pinned |-> TRUE, wellformed |-> TRUE, timeout_ms |-> 1, output_bytes |-> OutputLimit,
          auth_canonical |-> TRUE, auth_loads |-> TRUE, auth_fields |-> TRUE, auth_identity |-> TRUE, auth_schema |-> TRUE,
          authorized |-> TRUE, static_only |-> FALSE, explicit_run |-> TRUE,
          tool_canonical |-> TRUE, entry_safe |-> TRUE, immutable |-> TRUE, tree |-> TRUE, executable |-> TRUE,
          bwrap_canonical |-> TRUE, trust_model |-> TRUE, bwrap_trusted |-> TRUE, pin |-> 0, minimum |-> 1, probe |-> TRUE,
          membership |-> TRUE, memory |-> 1, swap |-> 0, pids |-> 1,
          output_free |-> TRUE, parent_private |-> TRUE, binds |-> TRUE, fault |-> "none"]

Wrong == [f \in DOMAIN Sound |->
            CASE f = "mode" -> {"deobfuscate"}
              [] f = "timeout_ms" -> {0, TimeoutLimit, TimeoutLimit + 1}
              [] f = "output_bytes" -> {0, 1, OutputLimit + 1}
              [] f = "pin" -> {1, 2}
              [] f = "minimum" -> {2}
              [] f = "memory" -> {0, MemoryLimit, MemoryLimit + 1}
              [] f = "swap" -> {SwapLimit, SwapLimit + 1}
              [] f = "pids" -> {0, ProcessLimit, ProcessLimit + 1}
              [] f = "fault" -> {"copy", "launch", "limits", "watch", "logs"}
              [] OTHER -> {~ Sound[f]}]

Calls == {Sound} \cup UNION {{[Sound EXCEPT ![f] = v] : v \in Wrong[f]} : f \in DOMAIN Sound}

Usual(e) == e = [Sound EXCEPT !.mode = e.mode, !.output_bytes = e.output_bytes]

Init ==
    /\ env \in {e \in Calls : e.pinned => e.wellformed} \cup {[Sound EXCEPT !.pinned = FALSE, !.wellformed = FALSE]}
    /\ pc = "preflight"
    /\ \E c \in Contents : disk = [i \in Inodes |-> c] /\ (env # Sound => c = Target)
    /\ path \in {0, 1} /\ (env # Sound => path = 1)
    /\ before = 0 /\ handle = 0 /\ digest = <<>> /\ copied = <<>>
    /\ launcher \in (IF Usual(env) THEN {1} ELSE {1, 2}) /\ proof = [sha256 |-> 0, version |-> 0] /\ probed = FALSE
    /\ proc = "none" /\ late = FALSE /\ output = [n \in Names |-> Absent]
    /\ logs = [stdout |-> <<>>, stderr |-> <<>>]
    /\ walk = NoWalk
    /\ flags = [timed_out |-> FALSE, oversized |-> FALSE, unsafe_output |-> FALSE]
    /\ result = Pending
    /\ events = IF Usual(env) THEN 0 ELSE 2

-----------------------------------------------------------------------------
(* The ends of a call and the chains of checks.                            *)

partial(code) ==
    /\ pc' = "done"
    /\ result' = [result EXCEPT !.state = "PARTIAL", !.reason_code = code]

\* The code of the first check that does not hold, or "" when all do.
Refusal(checks) ==
    LET failing == {i \in DOMAIN checks : ~ checks[i][1]} IN
    IF failing = {} THEN "" ELSE checks[Min(failing)][2]

Gate(at, checks, next) ==
    /\ pc = at
    /\ IF Refusal(checks) = "" THEN pc' = next /\ result' = result ELSE partial(Refusal(checks))

Preflight ==
    /\ Gate("preflight",
            << <<env.platform, "PLATFORM_MISMATCH">>, <<env.absolute, "PATH_NOT_ABSOLUTE">>,
               <<~ env.root, "UNSAFE_INVOKER_IDENTITY">>, <<env.readable, "MANIFEST_INVALID">>,
               <<env.pinned, "MANIFEST_UNTRUSTED">>, <<env.wellformed, "MANIFEST_INVALID">>,
               <<env.timeout_ms \in 1 .. TimeoutLimit /\ env.output_bytes \in 1 .. OutputLimit, "LIMIT_INVALID">> >>,
            "resolve")
    /\ UNCHANGED <<env, input, reading, launch, tool, watch, events>>

Resolve ==
    /\ Gate("resolve",
            << <<path # 0, "INPUT_INVALID">>, <<env.auth_canonical, "AUTHORIZATION_INVALID">> >>,
            "hash lstat")
    /\ UNCHANGED <<env, input, reading, launch, tool, watch, events>>

-----------------------------------------------------------------------------
(* sha256_plain_file, and the copy, read the path that is named then.      *)

require_plain_file(at, next) ==
    /\ Gate(at, << <<path # 0, "INPUT_INVALID">> >>, next)
    /\ before' = path
    /\ UNCHANGED <<env, input, handle, digest, copied, launch, tool, watch, events>>

open_plain_file(at, next) ==
    /\ Gate(at, << <<path # 0 /\ path = before, "INPUT_INVALID">> >>, next)
    /\ handle' = path
    /\ UNCHANGED <<env, input, before, digest, copied, launch, tool, watch, events>>

HashStat == require_plain_file("hash lstat", "hash open")

HashOpen == open_plain_file("hash open", "hash")

sha256_plain_file ==
    /\ pc = "hash"
    /\ LET bytes == disk[handle] IN
       IF Len(digest) >= Len(bytes) THEN pc' = "authorize" /\ UNCHANGED <<result, digest>>
       ELSE IF Len(digest) + 1 > InputLimit THEN partial("INPUT_TOO_LARGE") /\ UNCHANGED digest
       ELSE digest' = Append(digest, bytes[Len(digest) + 1]) /\ UNCHANGED <<pc, result>>
    /\ UNCHANGED <<env, input, before, handle, copied, launch, tool, watch, events>>

CopyStat == require_plain_file("copy lstat", "copy open")

CopyOpen == open_plain_file("copy open", "copy")

CopyChunk ==
    /\ pc = "copy"
    /\ LET bytes == disk[handle] IN
       IF Len(copied) >= Len(bytes) THEN pc' = "compare" /\ UNCHANGED <<result, copied>>
       ELSE IF Len(copied) + 1 > InputLimit THEN partial("INPUT_TOO_LARGE") /\ UNCHANGED copied
       ELSE IF env.fault = "copy" THEN partial("ADAPTER_INTERNAL_ERROR") /\ UNCHANGED copied
       ELSE copied' = Append(copied, bytes[Len(copied) + 1]) /\ UNCHANGED <<pc, result>>
    /\ IF pc' = "copy" THEN UNCHANGED <<before, handle>> ELSE before' = 0 /\ handle' = 0
    /\ UNCHANGED <<env, input, digest, launch, tool, watch, events>>

Compare_Size ==
    /\ Gate("compare", << <<Len(copied) = Len(digest), "INPUT_CHANGED_DURING_COPY">>, <<env.binds, "SANDBOX_UNAVAILABLE">> >>,
            "start")
    /\ UNCHANGED <<env, input, reading, launch, tool, watch, events>>

Compare ==
    /\ Gate("compare", << <<copied = digest, "INPUT_CHANGED_DURING_COPY">>, <<env.binds, "SANDBOX_UNAVAILABLE">> >>,
            "start")
    /\ UNCHANGED <<env, input, reading, launch, tool, watch, events>>

-----------------------------------------------------------------------------
(* Authorization, tool tree, launcher, cgroup, output directory.           *)

\* A small plain JSON object, and the identity of the tree's bytes and of its protection, are facts of the call.
load_small_json == env.auth_loads

validate_immutable_tool_tree == env.immutable

compute_tree == env.tree

Authorize ==
    /\ Gate("authorize",
            << <<load_small_json /\ env.auth_fields /\ env.auth_identity /\ env.auth_schema, "AUTHORIZATION_INVALID">>,
               <<env.authorized /\ ~ env.static_only /\ env.explicit_run, "RUNTIME_EXECUTION_NOT_AUTHORIZED">>,
               <<digest = Target, "AUTHORIZATION_TARGET_MISMATCH">> >>,
            "tool")
    /\ UNCHANGED <<env, input, reading, launch, tool, watch, events>>

ToolTree ==
    /\ Gate("tool",
            << <<env.tool_canonical, "TOOL_MISSING">>, <<env.entry_safe, "MANIFEST_INVALID">>,
               <<validate_immutable_tool_tree, "TOOL_TREE_NOT_IMMUTABLE">>, <<compute_tree, "TOOL_TREE_MISMATCH">>,
               <<env.executable, "TOOL_MISSING">> >>,
            "launcher")
    /\ UNCHANGED <<env, input, reading, launch, tool, watch, events>>

LauncherDigest ==
    /\ Gate("launcher",
            << <<env.bwrap_canonical /\ env.trust_model /\ env.bwrap_trusted, "SANDBOX_UNAVAILABLE">>,
               <<env.pin \in {0, launcher}, "SANDBOX_UNAVAILABLE">> >>,
            "probe")
    /\ proof' = [proof EXCEPT !.sha256 = launcher]
    /\ UNCHANGED <<env, input, reading, launcher, probed, tool, watch, events>>

LauncherProbe ==
    /\ Gate("probe", << <<env.probe /\ launcher >= env.minimum, "SANDBOX_UNAVAILABLE">> >>, "launcher again")
    /\ probed' = TRUE
    /\ proof' = [proof EXCEPT !.version = launcher]
    /\ UNCHANGED <<env, input, reading, launcher, tool, watch, events>>

LauncherUnchanged_Trusted ==
    /\ Gate("launcher again", << >>, "cgroup")
    /\ UNCHANGED <<env, input, reading, launch, tool, watch, events>>

LauncherUnchanged ==
    /\ Gate("launcher again", << <<launcher = proof.sha256, "SANDBOX_UNAVAILABLE">> >>, "cgroup")
    /\ UNCHANGED <<env, input, reading, launch, tool, watch, events>>

validate_hard_cgroup ==
    /\ Gate("cgroup",
            << <<env.membership, "HARD_RESOURCE_SANDBOX_UNAVAILABLE">>,
               <<env.memory \in 1 .. MemoryLimit /\ env.swap \in 0 .. SwapLimit /\ env.pids \in 1 .. ProcessLimit,
                 "HARD_RESOURCE_SANDBOX_UNAVAILABLE">> >>,
            "output")
    /\ UNCHANGED <<env, input, reading, launch, tool, watch, events>>

OutputDirectory ==
    /\ Gate("output", << <<env.output_free /\ env.parent_private, "OUTPUT_PATH_UNSAFE">> >>, "copy lstat")
    /\ UNCHANGED <<env, input, reading, launch, tool, watch, events>>

-----------------------------------------------------------------------------
(* The tool is started and watched.                                        *)

Start ==
    /\ pc = "start"
    /\ IF env.fault \in {"launch", "limits"}
       THEN /\ pc' = "done"
            /\ result' = [result EXCEPT !.proof = TRUE,
                                        !.reason_code = IF env.fault = "launch" THEN "SANDBOX_UNAVAILABLE"
                                                        ELSE "ADAPTER_INTERNAL_ERROR"]
            /\ UNCHANGED proc
       ELSE /\ proc' = "running" /\ pc' = "poll"
            /\ result' = [result EXCEPT !.proof = TRUE, !.attempted = TRUE]
    /\ UNCHANGED <<env, input, reading, launch, late, output, logs, watch, events>>

Poll ==
    /\ pc = "poll"
    /\ \/ proc # "running" /\ pc' = "reap" /\ UNCHANGED watch
       \/ proc = "running" /\ late /\ pc' = "reap"
          /\ flags' = [flags EXCEPT !.timed_out = TRUE] /\ UNCHANGED walk
       \/ proc = "running" /\ ~ late /\ pc' = "usage"
          /\ walk' = [NoWalk EXCEPT !.left = Names] /\ UNCHANGED flags
    /\ UNCHANGED <<env, input, reading, launch, tool, result, events>>

output_usage ==
    /\ pc = "usage"
    /\ \/ /\ walk.left = {} \/ walk.count > MaxFiles
          /\ pc' = "log sizes" /\ UNCHANGED watch
       \/ /\ walk.count <= MaxFiles
          /\ \E n \in walk.left :
                /\ walk' = [left |-> walk.left \ {n},
                            count |-> walk.count + (IF output[n].kind = "regular" THEN 1 ELSE 0),
                            total |-> walk.total + output[n].size]
                /\ flags' = [flags EXCEPT !.unsafe_output = @ \/ output[n].kind = "special"]
          /\ UNCHANGED pc
    /\ UNCHANGED <<env, input, reading, launch, tool, result, events>>

LogSizes ==
    /\ pc = "log sizes"
    /\ LET over == \/ walk.total > env.output_bytes \/ walk.count > MaxFiles
                   \/ Len(logs.stdout) + Len(logs.stderr) > LogLimit IN
       IF env.fault = "watch" THEN pc' = "abort" /\ UNCHANGED flags
       ELSE /\ pc' = IF over THEN "reap" ELSE "poll"
            /\ flags' = [flags EXCEPT !.oversized = over]
    /\ walk' = NoWalk
    /\ UNCHANGED <<env, input, reading, launch, tool, result, events>>

terminate_process_group_None == UNCHANGED proc

terminate_process_group == proc' = IF proc = "running" THEN "killed" ELSE proc

Stopped == flags.timed_out \/ flags.oversized \/ flags.unsafe_output

Reap ==
    /\ pc = "reap"
    /\ Stopped \/ proc # "running"
    /\ terminate_process_group
    /\ pc' = "classify"
    /\ UNCHANGED <<env, input, reading, launch, late, output, logs, watch, result, events>>

Abort ==
    /\ pc = "abort"
    /\ terminate_process_group
    /\ partial("ADAPTER_INTERNAL_ERROR")
    /\ UNCHANGED <<env, input, reading, launch, late, output, logs, watch, events>>

\* What hash_bytes keeps of both logs.
Kept(log) == SubSeq(log, 1, Min({Len(log), LogLimit}))

Text == Kept(logs.stdout) \o Kept(logs.stderr)

Count(line) == Len(SelectSeq(Text, LAMBDA l : l = line))

Present(kind) == {n \in Names : output[n].kind = kind}

SizeOf(out, names) == FoldSet(LAMBDA n, sum : sum + out[n].size, 0, names)

TotalSize == SizeOf(output, Present("regular"))

enumerate_artifacts_Polled == <<TRUE, "">>

enumerate_artifacts ==
    IF Present("special") # {} THEN <<FALSE, "UNSAFE_OUTPUT">>
    ELSE <<Cardinality(Present("regular")) <= MaxFiles /\ TotalSize <= env.output_bytes, "OVERSIZED_OUTPUT">>

Execution ==
    << <<env.fault # "logs", "ADAPTER_INTERNAL_ERROR">>,
       <<~ flags.timed_out, "TIMEOUT">>, <<~ flags.oversized, "OVERSIZED_OUTPUT">>,
       <<~ flags.unsafe_output, "UNSAFE_OUTPUT">>,
       <<proc \notin {"killed", "crash"}, "TOOL_CRASH">>, <<proc = "exit 0", "TOOL_EXIT_NONZERO">>,
       <<Count("banner") = 1 /\ Count("other banner") = 0, "TOOL_VERSION_MISMATCH">>,
       <<Count("detected") = 1, "MALFORMED_OUTPUT">>,
       enumerate_artifacts >>

Artifacts ==
    << <<env.mode = "deobfuscate" => "cleaned" \in Present("regular"), "MALFORMED_OUTPUT">>,
       <<env.mode # "deobfuscate", "PENDING_CORE_REPARSE">>,
       <<Present("regular") = {}, "UNEXPECTED_OUTPUT">> >>

Classify ==
    /\ pc = "classify"
    /\ pc' = "done"
    /\ LET outcome == IF Refusal(Execution) # "" THEN Refusal(Execution) ELSE Refusal(Artifacts) IN
       result' = [result EXCEPT !.state = IF outcome = "" THEN "COMPLETE" ELSE "PARTIAL",
                                !.reason_code = IF outcome = "" THEN "DETECTION_COMPLETED" ELSE outcome,
                                !.artifacts = IF Refusal(Execution) # "" THEN {}
                                              ELSE {<<n, output[n].size>> : n \in Present("regular")}]
    /\ UNCHANGED <<env, input, reading, launch, tool, watch, events>>

-----------------------------------------------------------------------------
(* The world: the input's other users, the package manager, the tool.      *)

\* The input matters until it has been copied; one surprise is kept for a call that is unusual itself.
Reading == Usual(env) /\ env.mode = "detect" /\ pc \notin {"compare", "start", "poll", "usage", "log sizes", "reap", "abort", "classify", "done"}

Rewrite ==
    /\ Reading /\ events < MaxEvents
    /\ \E i \in {path, handle} \ {0}, c \in Contents : disk' = [disk EXCEPT ![i] = c]
    /\ events' = events + 1
    /\ UNCHANGED <<env, pc, path, reading, launch, tool, watch, result>>

\* Another file is renamed over the input, or a symlink is.
Replace ==
    /\ Reading /\ events < MaxEvents
    /\ \/ path' = 0 /\ UNCHANGED disk
       \/ path = 1 /\ path' = 2 /\ \E c \in Contents : disk' = [disk EXCEPT ![2] = c]
    /\ events' = events + 1
    /\ UNCHANGED <<env, pc, reading, launch, tool, watch, result>>

\* An update installs the other version; at most one during a call.
Update ==
    /\ pc \in {"launcher", "probe", "launcher again"} /\ launcher = 1 /\ events < MaxEvents
    /\ launcher' = 2 /\ events' = events + 1
    /\ UNCHANGED <<env, pc, input, reading, proof, probed, tool, watch, result>>

ToolStep ==
    /\ proc = "running" /\ events < MaxEvents
    /\ events' = events + 1
    /\ UNCHANGED <<env, pc, input, reading, launch, proc, late, watch, result>>

\* RLIMIT_FSIZE bounds every single file.
FileSize == IF env.output_bytes > LogLimit THEN env.output_bytes ELSE LogLimit

ToolWrites ==
    /\ ToolStep
    /\ \E n \in Names, e \in Entries : e.size <= FileSize /\ output' = [output EXCEPT ![n] = e]
    /\ UNCHANGED logs

ToolLogs ==
    /\ ToolStep
    /\ \E s \in {"stdout", "stderr"}, l \in Lines :
          Len(logs[s]) < FileSize /\ logs' = [logs EXCEPT ![s] = Append(@, l)]
    /\ UNCHANGED output

ToolExits ==
    /\ proc = "running"
    /\ proc' \in {"exit 0", "exit 1", "crash"}
    /\ UNCHANGED <<env, pc, input, reading, launch, late, output, logs, watch, result, events>>

Deadline ==
    /\ proc = "running" /\ ~ late
    /\ late' = TRUE
    /\ UNCHANGED <<env, pc, input, reading, launch, proc, output, logs, watch, result, events>>

Adapter ==
    \/ Preflight \/ Resolve \/ HashStat \/ HashOpen \/ sha256_plain_file \/ Authorize \/ ToolTree
    \/ LauncherDigest \/ LauncherProbe \/ LauncherUnchanged \/ validate_hard_cgroup \/ OutputDirectory
    \/ CopyStat \/ CopyOpen \/ CopyChunk \/ Compare \/ Start \/ Poll \/ output_usage \/ LogSizes
    \/ Reap \/ Abort \/ Classify

World == Rewrite \/ Replace \/ Update \/ ToolWrites \/ ToolLogs \/ ToolExits \/ Deadline

Ended == pc = "done" /\ UNCHANGED vars

Next == Adapter \/ World \/ Ended

\* The adapter is scheduled and its clock runs; the tool owes nothing.
Spec == Init /\ [][Next]_vars /\ WF_vars(Adapter) /\ WF_vars(Deadline)

-----------------------------------------------------------------------------
(* The tool only ever sees, read-only, the bytes the authorization names,  *)
(* whole and untorn, whatever other programs did to the input file between *)
(* the digest, the authorization and the copy.                             *)
ToolSeesAuthorizedBytes == proc # "none" => copied = Target

(* A finished detection, or a cleaned file handed on for reparsing, comes  *)
(* from a tool that ended by itself with exit code 0, left nothing but     *)
(* plain files within both output budgets, and the artifact list is what   *)
(* is in the directory; a finished detection left no file at all.          *)
SuccessIsClean ==
    result.reason_code \in {"DETECTION_COMPLETED", "PENDING_CORE_REPARSE"} =>
        /\ proc = "exit 0" /\ result.attempted
        /\ Present("special") = {} /\ Cardinality(Present("regular")) <= MaxFiles
        /\ TotalSize <= env.output_bytes
        /\ result.artifacts = {<<n, output[n].size>> : n \in Present("regular")}
        /\ result.reason_code = "DETECTION_COMPLETED" => env.mode = "detect" /\ Present("regular") = {}
        /\ result.reason_code = "PENDING_CORE_REPARSE" => "cleaned" \in Present("regular")

(* The launcher identity in the result is that of one bubblewrap: an       *)
(* update between the digest, the probe and the second digest is noticed.  *)
ProofIsOneLauncher ==
    result.proof => proof.sha256 = proof.version /\ proof.version >= env.minimum /\ env.pin \in {0, proof.sha256}

(* Whatever the tool does (write for ever, hang, be killed) and whichever  *)
(* call fails, the adapter answers and no tool is left running.            *)
AnswersAndReaps == <>[](pc = "done" /\ proc # "running")

(* README.md of the adapter: an answer with attempted=false guarantees     *)
(* that bubblewrap was not started.                                        *)
NotAttemptedMeansNotStarted == pc = "done" /\ ~ result.attempted => ~ probed /\ proc = "none"
=============================================================================
