------------------------ MODULE De4dotAdapterProofs ------------------------
(***************************************************************************)
(* What the adapter guarantees for files of any length, any limits and any *)
(* number of surprises.  None of the properties is inductive: that the     *)
(* tool sees the authorized bytes follows from where the adapter stands in *)
(* its chain of checks, that the launcher's identity is that of one        *)
(* bubblewrap from the order in which an update can come between the three *)
(* looks, and that a finished result is clean from the order of the checks *)
(* that classify it and from the tool having ended before.                 *)
(***************************************************************************)
EXTENDS De4dotAdapter, WellFoundedInduction, TLAPS

\* The steps after the authorization check and before the copies are compared, and those after it.
BoundPCs == {"tool", "launcher", "probe", "launcher again", "cgroup", "output", "copy lstat", "copy open", "copy", "compare"}

ComparedPCs == {"start", "poll", "usage", "log sizes", "reap", "abort", "classify"}

\* What is known of the digest and of the copy at each step.
BytesInv ==
    /\ pc \in BoundPCs \cup ComparedPCs => digest = Target
    /\ pc \in ComparedPCs => copied = Target
    /\ proc # "none" => pc \in ComparedPCs \cup {"done"} /\ copied = Target

NewEnough(v) == v >= env.minimum

OneLauncher == proof.sha256 = proof.version /\ NewEnough(proof.version) /\ env.pin \in {0, proof.sha256}

LookedPCs == {"cgroup", "output", "copy lstat", "copy open", "copy", "compare"} \cup ComparedPCs

\* What is known of the launcher at each step; the second version only comes after the first.
LauncherInv ==
    /\ launcher \in {1, 2}
    /\ DOMAIN proof = {"sha256", "version"} /\ DOMAIN result = DOMAIN Pending
    /\ pc \in {"probe", "launcher again"} => proof.sha256 \in {1, launcher} /\ env.pin \in {0, proof.sha256}
    /\ pc = "launcher again" =>
           /\ proof.version \in {1, launcher} /\ NewEnough(proof.version)
           /\ proof.sha256 = 2 => proof.version = 2
    /\ pc \in LookedPCs \/ result.proof => OneLauncher
    /\ result.proof => pc \in ComparedPCs \cup {"done"}

-----------------------------------------------------------------------------
(* A chain of checks that refuses nothing holds throughout.                *)

\* The least member of a set of numbers.
LEMMA MinIsLeast ==
    ASSUME NEW S \in SUBSET Nat, S # {}
    PROVE  Min(S) \in S /\ \A y \in S : Min(S) <= y
<1>1. \E x \in S : \A y \in S : ~ (<<y, x>> \in OpToRel(<, Nat))
    BY NatLessThanWellFounded, WFMin
<1>2. \A x, y \in Nat : <<y, x>> \in OpToRel(<, Nat) <=> y < x
    BY DEF OpToRel
<1>3. PICK x \in S : \A y \in S : ~ (y < x)
    BY <1>1, <1>2
<1>4. \A y \in S : x <= y
    BY <1>3
<1>5. \E z \in S : \A y \in S : z <= y
    BY <1>4
<1> QED BY <1>5, Zenon DEF Min

\* What a chain answers: nothing when every check holds, otherwise the code
\* of a check that does not hold while all before it do.
LEMMA FirstRefusal ==
    ASSUME NEW checks, DOMAIN checks \subseteq Nat
    PROVE  \/ Refusal(checks) = "" /\ \A i \in DOMAIN checks : checks[i][1]
           \/ \E i \in DOMAIN checks :
                 /\ ~ checks[i][1] /\ Refusal(checks) = checks[i][2]
                 /\ \A j \in DOMAIN checks : j < i => checks[j][1]
<1> DEFINE failing == {i \in DOMAIN checks : ~ checks[i][1]}
<1>1. CASE failing = {}
    BY <1>1 DEF Refusal
<1>2. CASE failing # {}
    <2>1. failing \in SUBSET Nat
        OBVIOUS
    <2>2. Min(failing) \in failing /\ \A y \in failing : Min(failing) <= y
        BY <1>2, <2>1, MinIsLeast
    <2>3. Refusal(checks) = checks[Min(failing)][2]
        BY <1>2 DEF Refusal
    <2>4. \A j \in DOMAIN checks : j < Min(failing) => checks[j][1]
        BY <2>1, <2>2
    <2> QED BY <2>2, <2>3, <2>4
<1> QED BY <1>1, <1>2

\* Refusal's codes are never empty, so the empty refusal means that every check holds.
LEMMA NothingRefused ==
    ASSUME NEW checks, DOMAIN checks \subseteq Nat,
           \A i \in DOMAIN checks : checks[i][2] # "",
           Refusal(checks) = ""
    PROVE  \A i \in DOMAIN checks : checks[i][1]
BY FirstRefusal

\* A chain of one check.
LEMMA OneCheck ==
    ASSUME NEW check
    PROVE  DOMAIN <<check>> = {1} /\ DOMAIN <<check>> \subseteq Nat
<1>1. DOMAIN <<check>> = {1}
    OBVIOUS
<1>2. {1} \subseteq Nat
    OBVIOUS
<1> QED BY <1>1, <1>2

\* The authorization passes only for the digest it names.
LEMMA AuthorizedDigest ==
    ASSUME Authorize, pc' = "tool"
    PROVE  digest = Target
<1> DEFINE checks == << <<load_small_json /\ env.auth_fields /\ env.auth_identity /\ env.auth_schema, "AUTHORIZATION_INVALID">>,
               <<env.authorized /\ ~ env.static_only /\ env.explicit_run, "RUNTIME_EXECUTION_NOT_AUTHORIZED">>,
               <<digest = Target, "AUTHORIZATION_TARGET_MISMATCH">> >>
<1>1. Refusal(checks) = ""
    BY DEF Authorize, Gate, partial
<1>2. DOMAIN checks = {1, 2, 3}
    OBVIOUS
<1>3. checks[1][2] # "" /\ checks[2][2] # "" /\ checks[3][2] # ""
    OBVIOUS
<1> HIDE DEF checks
<1>4. DOMAIN checks \subseteq Nat
    BY <1>2
<1>5. \A i \in DOMAIN checks : checks[i][2] # ""
    BY <1>2, <1>3
<1>6. checks[3][1]
    BY <1>1, <1>2, <1>4, <1>5, NothingRefused
<1> QED BY <1>6 DEF checks

\* The comparison passes only for a copy of what was hashed.
LEMMA ComparedCopy ==
    ASSUME Compare, pc' = "start"
    PROVE  copied = digest
<1> DEFINE checks == << <<copied = digest, "INPUT_CHANGED_DURING_COPY">>, <<env.binds, "SANDBOX_UNAVAILABLE">> >>
<1>1. Refusal(checks) = ""
    BY DEF Compare, Gate, partial
<1>2. DOMAIN checks = {1, 2}
    OBVIOUS
<1>3. checks[1][2] # "" /\ checks[2][2] # ""
    OBVIOUS
<1> HIDE DEF checks
<1>4. DOMAIN checks \subseteq Nat
    BY <1>2
<1>5. \A i \in DOMAIN checks : checks[i][2] # ""
    BY <1>2, <1>3
<1>6. checks[1][1]
    BY <1>1, <1>2, <1>4, <1>5, NothingRefused
<1> QED BY <1>6 DEF checks

\* The launcher's digest is the pinned one.
LEMMA PinnedLauncher ==
    ASSUME LauncherDigest, pc' = "probe"
    PROVE  env.pin \in {0, launcher}
<1> DEFINE checks == << <<env.bwrap_canonical /\ env.trust_model /\ env.bwrap_trusted, "SANDBOX_UNAVAILABLE">>,
               <<env.pin \in {0, launcher}, "SANDBOX_UNAVAILABLE">> >>
<1>1. Refusal(checks) = ""
    BY DEF LauncherDigest, Gate, partial
<1>2. DOMAIN checks = {1, 2}
    OBVIOUS
<1>3. checks[1][2] # "" /\ checks[2][2] # ""
    OBVIOUS
<1> HIDE DEF checks
<1>4. DOMAIN checks \subseteq Nat
    BY <1>2
<1>5. \A i \in DOMAIN checks : checks[i][2] # ""
    BY <1>2, <1>3
<1>6. checks[2][1]
    BY <1>1, <1>2, <1>4, <1>5, NothingRefused
<1> QED BY <1>6 DEF checks

\* The probed version is new enough.
LEMMA ProbedVersion ==
    ASSUME LauncherProbe, pc' = "launcher again"
    PROVE  NewEnough(launcher)
<1> DEFINE recent == env.probe /\ launcher >= env.minimum
<1> DEFINE checks == << <<recent, "SANDBOX_UNAVAILABLE">> >>
<1>1. Refusal(checks) = ""
    BY DEF LauncherProbe, Gate, partial
<1>2. DOMAIN checks = {1} /\ DOMAIN checks \subseteq Nat
    BY OneCheck
<1>3. checks[1][2] # ""
    OBVIOUS
<1> HIDE DEF checks
<1>4. \A i \in DOMAIN checks : checks[i][2] # ""
    BY <1>2, <1>3
<1>5. checks[1][1]
    BY <1>1, <1>2, <1>4, NothingRefused
<1> QED BY <1>5 DEF checks, NewEnough

\* The second digest is the first.
LEMMA SameLauncher ==
    ASSUME LauncherUnchanged, pc' = "cgroup"
    PROVE  launcher = proof.sha256
<1> DEFINE checks == << <<launcher = proof.sha256, "SANDBOX_UNAVAILABLE">> >>
<1>1. Refusal(checks) = ""
    BY DEF LauncherUnchanged, Gate, partial
<1>2. DOMAIN checks = {1}
    OBVIOUS
<1>3. checks[1][2] # ""
    OBVIOUS
<1> HIDE DEF checks
<1>4. DOMAIN checks \subseteq Nat
    BY <1>2
<1>5. \A i \in DOMAIN checks : checks[i][2] # ""
    BY <1>2, <1>3
<1>6. checks[1][1]
    BY <1>1, <1>2, <1>4, <1>5, NothingRefused
<1> QED BY <1>6 DEF checks
-----------------------------------------------------------------------------
(* The bytes.                                                              *)

\* Every step keeps what is known of digest and copy.
LEMMA BytesStep ==
    ASSUME BytesInv, [Next]_vars
    PROVE  BytesInv'
<1> USE DEF BytesInv, BoundPCs, ComparedPCs
<1>1. CASE Preflight
    BY <1>1 DEF Gate, partial, Preflight, tool, reading
<1>2. CASE Resolve
    BY <1>2 DEF Gate, partial, Resolve, tool, reading
<1>3. CASE HashStat \/ CopyStat
    BY <1>3 DEF Gate, partial, HashStat, CopyStat, require_plain_file, tool
<1>4. CASE HashOpen \/ CopyOpen
    BY <1>4 DEF Gate, partial, HashOpen, CopyOpen, open_plain_file, tool
<1>5. CASE sha256_plain_file
    BY <1>5 DEF sha256_plain_file, partial, tool
<1>6. CASE Authorize
    BY <1>6, AuthorizedDigest DEF Gate, partial, Authorize, tool, reading
<1>7. CASE ToolTree
    BY <1>7 DEF Gate, partial, ToolTree, tool, reading
<1>8. CASE LauncherDigest
    BY <1>8 DEF Gate, partial, LauncherDigest, tool, reading
<1>9. CASE LauncherProbe
    BY <1>9 DEF Gate, partial, LauncherProbe, tool, reading
<1>10. CASE LauncherUnchanged
    BY <1>10 DEF Gate, partial, LauncherUnchanged, tool, reading
<1>11. CASE validate_hard_cgroup
    BY <1>11 DEF Gate, partial, validate_hard_cgroup, tool, reading
<1>12. CASE OutputDirectory
    BY <1>12 DEF Gate, partial, OutputDirectory, tool, reading
<1>13. CASE CopyChunk
    BY <1>13 DEF CopyChunk, partial, tool
<1>14. CASE Compare
    BY <1>14, ComparedCopy DEF Gate, partial, Compare, tool, reading
<1>15. CASE Start
    BY <1>15 DEF Start, reading
<1>16. CASE Poll \/ output_usage \/ LogSizes
    BY <1>16 DEF Poll, output_usage, LogSizes, tool, reading
<1>17. CASE Reap \/ Abort
    BY <1>17 DEF Reap, Abort, terminate_process_group, partial, reading
<1>18. CASE Classify
    BY <1>18 DEF Classify, tool, reading
<1>19. CASE World
    BY <1>19 DEF World, Rewrite, Replace, Update, ToolWrites, ToolLogs, ToolStep, ToolExits, Deadline, tool, reading
<1>20. CASE Ended \/ UNCHANGED vars
    BY <1>20 DEF Ended, vars, tool, reading
<1> QED
    BY <1>1, <1>2, <1>3, <1>4, <1>5, <1>6, <1>7, <1>8, <1>9, <1>10, <1>11, <1>12, <1>13, <1>14, <1>15, <1>16,
       <1>17, <1>18, <1>19, <1>20 DEF Next, Adapter

(* The tool is only ever started on the authorized bytes, for files of any *)
(* length, any number of rewrites, replacements and links put in the       *)
(* input's place, and any limits (adapter.py, run_adapter).                *)
THEOREM AuthorizedBytes == Spec => []ToolSeesAuthorizedBytes
<1>1. Init => BytesInv
    BY DEF Init, BytesInv, BoundPCs, ComparedPCs
<1>2. BytesInv /\ [Next]_vars => BytesInv'
    BY BytesStep
<1>3. BytesInv => ToolSeesAuthorizedBytes
    BY DEF BytesInv, ToolSeesAuthorizedBytes
<1> QED BY <1>1, <1>2, <1>3, PTL DEF Spec

-----------------------------------------------------------------------------
(* The launcher.                                                           *)

\* Every step keeps what is known of the launcher.
LEMMA LauncherStep ==
    ASSUME LauncherInv, [Next]_vars
    PROVE  LauncherInv'
<1> USE DEF LauncherInv, OneLauncher, NewEnough, LookedPCs, ComparedPCs, Pending
<1>1. CASE Preflight \/ Resolve \/ Authorize \/ ToolTree \/ validate_hard_cgroup \/ OutputDirectory \/ Compare
    BY <1>1 DEF Gate, partial, Preflight, Resolve, Authorize, ToolTree, validate_hard_cgroup, OutputDirectory, Compare, launch
<1>2. CASE HashStat \/ CopyStat
    BY <1>2 DEF Gate, partial, HashStat, CopyStat, require_plain_file, launch
<1>3. CASE HashOpen \/ CopyOpen
    BY <1>3 DEF Gate, partial, HashOpen, CopyOpen, open_plain_file, launch
<1>4. CASE sha256_plain_file
    BY <1>4 DEF sha256_plain_file, partial, launch
<1>5. CASE LauncherDigest
    BY <1>5, PinnedLauncher DEF Gate, partial, LauncherDigest
<1>6. CASE LauncherProbe
    BY <1>6, ProbedVersion DEF Gate, partial, LauncherProbe
<1>7. CASE LauncherUnchanged
    BY <1>7, SameLauncher DEF Gate, partial, LauncherUnchanged, launch
<1>8. CASE CopyChunk
    BY <1>8 DEF CopyChunk, partial, launch
<1>9. CASE Start
    BY <1>9 DEF Start, launch
<1>10. CASE Poll \/ output_usage \/ LogSizes
    BY <1>10 DEF Poll, output_usage, LogSizes, launch
<1>11. CASE Reap \/ Abort
    BY <1>11 DEF Reap, Abort, partial, launch
<1>12. CASE Classify
    BY <1>12 DEF Classify, launch
<1>13. CASE Update
    BY <1>13 DEF Update
<1>14. CASE Rewrite \/ Replace \/ ToolWrites \/ ToolLogs \/ ToolExits \/ Deadline
    BY <1>14 DEF Rewrite, Replace, ToolWrites, ToolLogs, ToolStep, ToolExits, Deadline, launch
<1>15. CASE Ended \/ UNCHANGED vars
    BY <1>15 DEF Ended, vars, launch
<1> QED
    BY <1>1, <1>2, <1>3, <1>4, <1>5, <1>6, <1>7, <1>8, <1>9, <1>10, <1>11, <1>12, <1>13, <1>14, <1>15
    DEF Next, Adapter, World

(* The launcher identity that an answer carries belongs to one bubblewrap  *)
(* even when an update comes between the digest, the probe and the second  *)
(* digest (adapter.py, validate_sandbox_launcher).                         *)
THEOREM LauncherIdentity == Spec => []ProofIsOneLauncher
<1>1. Init => LauncherInv
    <2> SUFFICES ASSUME Init PROVE LauncherInv
        OBVIOUS
    <2>1. launcher \in {1, 2} /\ pc = "preflight"
        BY DEF Init
    <2>2. DOMAIN proof = {"sha256", "version"}
        BY DEF Init
    <2>3. DOMAIN result = DOMAIN Pending /\ result.proof = FALSE
        BY DEF Init, Pending
    <2> QED BY <2>1, <2>2, <2>3 DEF LauncherInv, LookedPCs, ComparedPCs
<1>2. LauncherInv /\ [Next]_vars => LauncherInv'
    BY LauncherStep
<1>3. LauncherInv => ProofIsOneLauncher
    BY DEF LauncherInv, OneLauncher, NewEnough, ProofIsOneLauncher
<1> QED BY <1>1, <1>2, <1>3, PTL DEF Spec

-----------------------------------------------------------------------------
(* A finished result.  It is given by Classify alone, from a tool that is  *)
(* no longer running, so that nobody can change the output after it.       *)

Success == {"DETECTION_COMPLETED", "PENDING_CORE_REPARSE"}

WatchedPCs == {"poll", "usage", "log sizes", "reap", "abort", "classify"}

Unsettled == result.reason_code \notin Success /\ DOMAIN result = DOMAIN Pending

CleanInv ==
    /\ env.mode \in {"detect", "deobfuscate"}
    /\ DOMAIN result = DOMAIN Pending
    /\ pc \in WatchedPCs => result.attempted
    /\ result.reason_code \in Success => pc = "done" /\ SuccessIsClean

\* A chain whose codes are refusals settles nothing.
LEMMA GateUnsettled ==
    ASSUME NEW at, NEW checks, NEW next, DOMAIN checks \subseteq Nat,
           \A i \in DOMAIN checks : checks[i][2] \notin Success,
           Unsettled, Gate(at, checks, next)
    PROVE  Unsettled' /\ result'.attempted = result.attempted /\ pc' \in {next, "done"}
<1> USE DEF Unsettled, Pending
<1>1. CASE Refusal(checks) = ""
    BY <1>1 DEF Gate
<1>2. CASE Refusal(checks) # ""
    <2>1. Refusal(checks) \notin Success
        <3>1. PICK i \in DOMAIN checks : Refusal(checks) = checks[i][2]
            BY <1>2, FirstRefusal
        <3> QED BY <3>1
    <2>2. /\ pc' = "done"
          /\ result' = [result EXCEPT !.state = "PARTIAL", !.reason_code = Refusal(checks)]
        BY <1>2 DEF Gate, partial
    <2> QED BY <2>1, <2>2
<1> QED BY <1>1, <1>2

\* Before the adapter is done it has settled nothing, and only Classify does.
LEMMA Untouched ==
    ASSUME CleanInv, Unsettled, Unsettled', UNCHANGED env,
           pc' \in WatchedPCs => result'.attempted
    PROVE  CleanInv'
BY DEF CleanInv, Unsettled

\* A gate before the tool is started, whose codes are refusals.
LEMMA GateClean ==
    ASSUME NEW at, NEW checks, NEW next, DOMAIN checks \subseteq Nat,
           \A i \in DOMAIN checks : checks[i][2] \notin Success,
           CleanInv, at # "done", next \notin WatchedPCs, Gate(at, checks, next), UNCHANGED env
    PROVE  CleanInv'
<1>1. Unsettled
    BY DEF CleanInv, Unsettled, Gate
<1>2. Unsettled' /\ pc' \in {next, "done"}
    BY <1>1, GateUnsettled
<1>3. pc' \notin WatchedPCs
    BY <1>2 DEF WatchedPCs
<1> QED BY <1>1, <1>2, <1>3, Untouched

\* The fixed checks of the arguments and the manifest.
LEMMA Preflight_Clean == ASSUME CleanInv, Preflight PROVE CleanInv'
<1> DEFINE checks ==
            << <<env.platform, "PLATFORM_MISMATCH">>, <<env.absolute, "PATH_NOT_ABSOLUTE">>,
               <<~ env.root, "UNSAFE_INVOKER_IDENTITY">>, <<env.readable, "MANIFEST_INVALID">>,
               <<env.pinned, "MANIFEST_UNTRUSTED">>, <<env.wellformed, "MANIFEST_INVALID">>,
               <<env.timeout_ms \in 1 .. TimeoutLimit /\ env.output_bytes \in 1 .. OutputLimit, "LIMIT_INVALID">> >>
<1>1. Gate("preflight", checks, "resolve") /\ UNCHANGED env
    BY DEF Preflight
<1>2. DOMAIN checks = 1 .. 7
    OBVIOUS
<1>3. \A i \in 1 .. 7 : checks[i][2] \notin Success
    BY DEF Success
<1> HIDE DEF checks
<1>4. DOMAIN checks \subseteq Nat
    BY <1>2
<1>5. \A i \in DOMAIN checks : checks[i][2] \notin Success
    BY <1>2, <1>3
<1>6. "resolve" \notin WatchedPCs
    BY DEF WatchedPCs
<1> QED BY <1>1, <1>4, <1>5, <1>6, GateClean

\* The paths.
LEMMA Resolve_Clean == ASSUME CleanInv, Resolve PROVE CleanInv'
<1> DEFINE checks ==
            << <<path # 0, "INPUT_INVALID">>, <<env.auth_canonical, "AUTHORIZATION_INVALID">> >>
<1>1. Gate("resolve", checks, "hash lstat") /\ UNCHANGED env
    BY DEF Resolve
<1>2. DOMAIN checks = 1 .. 2
    OBVIOUS
<1>3. \A i \in 1 .. 2 : checks[i][2] \notin Success
    BY DEF Success
<1> HIDE DEF checks
<1>4. DOMAIN checks \subseteq Nat
    BY <1>2
<1>5. \A i \in DOMAIN checks : checks[i][2] \notin Success
    BY <1>2, <1>3
<1>6. "hash lstat" \notin WatchedPCs
    BY DEF WatchedPCs
<1> QED BY <1>1, <1>4, <1>5, <1>6, GateClean

\* The look at a file, first or second.
LEMMA require_plain_file_Clean ==
    ASSUME CleanInv, NEW at, NEW next, at # "done", next \notin WatchedPCs, require_plain_file(at, next)
    PROVE  CleanInv'
<1> DEFINE checks ==
            << <<path # 0, "INPUT_INVALID">> >>
<1>1. Gate(at, checks, next) /\ UNCHANGED env
    BY DEF require_plain_file
<1>2. DOMAIN checks = 1 .. 1
    OBVIOUS
<1>3. \A i \in 1 .. 1 : checks[i][2] \notin Success
    BY DEF Success
<1> HIDE DEF checks
<1>4. DOMAIN checks \subseteq Nat
    BY <1>2
<1>5. \A i \in DOMAIN checks : checks[i][2] \notin Success
    BY <1>2, <1>3
<1> QED BY <1>1, <1>4, <1>5, GateClean

\* Its opening.
LEMMA open_plain_file_Clean ==
    ASSUME CleanInv, NEW at, NEW next, at # "done", next \notin WatchedPCs, open_plain_file(at, next)
    PROVE  CleanInv'
<1> DEFINE checks ==
            << <<path # 0 /\ path = before, "INPUT_INVALID">> >>
<1>1. Gate(at, checks, next) /\ UNCHANGED env
    BY DEF open_plain_file
<1>2. DOMAIN checks = 1 .. 1
    OBVIOUS
<1>3. \A i \in 1 .. 1 : checks[i][2] \notin Success
    BY DEF Success
<1> HIDE DEF checks
<1>4. DOMAIN checks \subseteq Nat
    BY <1>2
<1>5. \A i \in DOMAIN checks : checks[i][2] \notin Success
    BY <1>2, <1>3
<1> QED BY <1>1, <1>4, <1>5, GateClean

\* The authorization.
LEMMA Authorize_Clean == ASSUME CleanInv, Authorize PROVE CleanInv'
<1> DEFINE checks ==
            << <<load_small_json /\ env.auth_fields /\ env.auth_identity /\ env.auth_schema, "AUTHORIZATION_INVALID">>,
               <<env.authorized /\ ~ env.static_only /\ env.explicit_run, "RUNTIME_EXECUTION_NOT_AUTHORIZED">>,
               <<digest = Target, "AUTHORIZATION_TARGET_MISMATCH">> >>
<1>1. Gate("authorize", checks, "tool") /\ UNCHANGED env
    BY DEF Authorize
<1>2. DOMAIN checks = 1 .. 3
    OBVIOUS
<1>3. \A i \in 1 .. 3 : checks[i][2] \notin Success
    BY DEF Success
<1> HIDE DEF checks
<1>4. DOMAIN checks \subseteq Nat
    BY <1>2
<1>5. \A i \in DOMAIN checks : checks[i][2] \notin Success
    BY <1>2, <1>3
<1>6. "tool" \notin WatchedPCs
    BY DEF WatchedPCs
<1> QED BY <1>1, <1>4, <1>5, <1>6, GateClean

\* The tool tree.
LEMMA ToolTree_Clean == ASSUME CleanInv, ToolTree PROVE CleanInv'
<1> DEFINE checks ==
            << <<env.tool_canonical, "TOOL_MISSING">>, <<env.entry_safe, "MANIFEST_INVALID">>,
               <<validate_immutable_tool_tree, "TOOL_TREE_NOT_IMMUTABLE">>, <<compute_tree, "TOOL_TREE_MISMATCH">>,
               <<env.executable, "TOOL_MISSING">> >>
<1>1. Gate("tool", checks, "launcher") /\ UNCHANGED env
    BY DEF ToolTree
<1>2. DOMAIN checks = 1 .. 5
    OBVIOUS
<1>3. \A i \in 1 .. 5 : checks[i][2] \notin Success
    BY DEF Success
<1> HIDE DEF checks
<1>4. DOMAIN checks \subseteq Nat
    BY <1>2
<1>5. \A i \in DOMAIN checks : checks[i][2] \notin Success
    BY <1>2, <1>3
<1>6. "launcher" \notin WatchedPCs
    BY DEF WatchedPCs
<1> QED BY <1>1, <1>4, <1>5, <1>6, GateClean

\* The first look at the launcher.
LEMMA LauncherDigest_Clean == ASSUME CleanInv, LauncherDigest PROVE CleanInv'
<1> DEFINE checks ==
            << <<env.bwrap_canonical /\ env.trust_model /\ env.bwrap_trusted, "SANDBOX_UNAVAILABLE">>,
               <<env.pin \in {0, launcher}, "SANDBOX_UNAVAILABLE">> >>
<1>1. Gate("launcher", checks, "probe") /\ UNCHANGED env
    BY DEF LauncherDigest
<1>2. DOMAIN checks = 1 .. 2
    OBVIOUS
<1>3. \A i \in 1 .. 2 : checks[i][2] \notin Success
    BY DEF Success
<1> HIDE DEF checks
<1>4. DOMAIN checks \subseteq Nat
    BY <1>2
<1>5. \A i \in DOMAIN checks : checks[i][2] \notin Success
    BY <1>2, <1>3
<1>6. "probe" \notin WatchedPCs
    BY DEF WatchedPCs
<1> QED BY <1>1, <1>4, <1>5, <1>6, GateClean

\* Its probe.
LEMMA LauncherProbe_Clean == ASSUME CleanInv, LauncherProbe PROVE CleanInv'
<1> DEFINE checks ==
            << <<env.probe /\ launcher >= env.minimum, "SANDBOX_UNAVAILABLE">> >>
<1>1. Gate("probe", checks, "launcher again") /\ UNCHANGED env
    BY DEF LauncherProbe
<1>2. DOMAIN checks = 1 .. 1
    OBVIOUS
<1>3. \A i \in 1 .. 1 : checks[i][2] \notin Success
    BY DEF Success
<1> HIDE DEF checks
<1>4. DOMAIN checks \subseteq Nat
    BY <1>2
<1>5. \A i \in DOMAIN checks : checks[i][2] \notin Success
    BY <1>2, <1>3
<1>6. "launcher again" \notin WatchedPCs
    BY DEF WatchedPCs
<1> QED BY <1>1, <1>4, <1>5, <1>6, GateClean

\* The second look.
LEMMA LauncherUnchanged_Clean == ASSUME CleanInv, LauncherUnchanged PROVE CleanInv'
<1> DEFINE checks ==
            << <<launcher = proof.sha256, "SANDBOX_UNAVAILABLE">> >>
<1>1. Gate("launcher again", checks, "cgroup") /\ UNCHANGED env
    BY DEF LauncherUnchanged
<1>2. DOMAIN checks = 1 .. 1
    OBVIOUS
<1>3. \A i \in 1 .. 1 : checks[i][2] \notin Success
    BY DEF Success
<1> HIDE DEF checks
<1>4. DOMAIN checks \subseteq Nat
    BY <1>2
<1>5. \A i \in DOMAIN checks : checks[i][2] \notin Success
    BY <1>2, <1>3
<1>6. "cgroup" \notin WatchedPCs
    BY DEF WatchedPCs
<1> QED BY <1>1, <1>4, <1>5, <1>6, GateClean

\* The cgroup.
LEMMA validate_hard_cgroup_Clean == ASSUME CleanInv, validate_hard_cgroup PROVE CleanInv'
<1> DEFINE checks ==
            << <<env.membership, "HARD_RESOURCE_SANDBOX_UNAVAILABLE">>,
               <<env.memory \in 1 .. MemoryLimit /\ env.swap \in 0 .. SwapLimit /\ env.pids \in 1 .. ProcessLimit,
               "HARD_RESOURCE_SANDBOX_UNAVAILABLE">> >>
<1>1. Gate("cgroup", checks, "output") /\ UNCHANGED env
    BY DEF validate_hard_cgroup
<1>2. DOMAIN checks = 1 .. 2
    OBVIOUS
<1>3. \A i \in 1 .. 2 : checks[i][2] \notin Success
    BY DEF Success
<1> HIDE DEF checks
<1>4. DOMAIN checks \subseteq Nat
    BY <1>2
<1>5. \A i \in DOMAIN checks : checks[i][2] \notin Success
    BY <1>2, <1>3
<1>6. "output" \notin WatchedPCs
    BY DEF WatchedPCs
<1> QED BY <1>1, <1>4, <1>5, <1>6, GateClean

\* The output directory.
LEMMA OutputDirectory_Clean == ASSUME CleanInv, OutputDirectory PROVE CleanInv'
<1> DEFINE checks ==
            << <<env.output_free /\ env.parent_private, "OUTPUT_PATH_UNSAFE">> >>
<1>1. Gate("output", checks, "copy lstat") /\ UNCHANGED env
    BY DEF OutputDirectory
<1>2. DOMAIN checks = 1 .. 1
    OBVIOUS
<1>3. \A i \in 1 .. 1 : checks[i][2] \notin Success
    BY DEF Success
<1> HIDE DEF checks
<1>4. DOMAIN checks \subseteq Nat
    BY <1>2
<1>5. \A i \in DOMAIN checks : checks[i][2] \notin Success
    BY <1>2, <1>3
<1>6. "copy lstat" \notin WatchedPCs
    BY DEF WatchedPCs
<1> QED BY <1>1, <1>4, <1>5, <1>6, GateClean

\* The comparison of the copy with what was hashed.
LEMMA Compare_Clean == ASSUME CleanInv, Compare PROVE CleanInv'
<1> DEFINE checks ==
            << <<copied = digest, "INPUT_CHANGED_DURING_COPY">>, <<env.binds, "SANDBOX_UNAVAILABLE">> >>
<1>1. Gate("compare", checks, "start") /\ UNCHANGED env
    BY DEF Compare
<1>2. DOMAIN checks = 1 .. 2
    OBVIOUS
<1>3. \A i \in 1 .. 2 : checks[i][2] \notin Success
    BY DEF Success
<1> HIDE DEF checks
<1>4. DOMAIN checks \subseteq Nat
    BY <1>2
<1>5. \A i \in DOMAIN checks : checks[i][2] \notin Success
    BY <1>2, <1>3
<1>6. "start" \notin WatchedPCs
    BY DEF WatchedPCs
<1> QED BY <1>1, <1>4, <1>5, <1>6, GateClean

\* A finished result: every check of the execution held, and the artifacts
\* were those in the directory.
LEMMA Classified ==
    ASSUME CleanInv, Classify, result'.reason_code \in Success
    PROVE  SuccessIsClean'
<1> DEFINE E == Execution
           A == Artifacts
<1>1. DOMAIN E = 1 .. 9 /\ DOMAIN A = 1 .. 3
    BY DEF Execution, Artifacts
<1>2. /\ E[1][2] = "ADAPTER_INTERNAL_ERROR" /\ E[2][2] = "TIMEOUT" /\ E[3][2] = "OVERSIZED_OUTPUT"
      /\ E[4][2] = "UNSAFE_OUTPUT" /\ E[5][2] = "TOOL_CRASH" /\ E[6][2] = "TOOL_EXIT_NONZERO"
      /\ E[7][2] = "TOOL_VERSION_MISMATCH" /\ E[8][2] = "MALFORMED_OUTPUT"
    BY DEF Execution
<1>3. E[9] = enumerate_artifacts /\ enumerate_artifacts[2] \in {"UNSAFE_OUTPUT", "OVERSIZED_OUTPUT"}
    BY DEF Execution, enumerate_artifacts
<1>4. E[6][1] = (proc = "exit 0")
    BY DEF Execution
<1>5. /\ A[1][1] = (env.mode = "deobfuscate" => "cleaned" \in Present("regular"))
      /\ A[2][1] = (env.mode # "deobfuscate")
      /\ A[3][1] = (Present("regular") = {})
      /\ A[1][2] = "MALFORMED_OUTPUT" /\ A[2][2] = "PENDING_CORE_REPARSE" /\ A[3][2] = "UNEXPECTED_OUTPUT"
    BY DEF Artifacts
<1>6. /\ UNCHANGED <<env, proc, output>> /\ pc = "classify"
      /\ LET outcome == IF Refusal(E) # "" THEN Refusal(E) ELSE Refusal(A) IN
         result' = [result EXCEPT !.state = IF outcome = "" THEN "COMPLETE" ELSE "PARTIAL",
                                  !.reason_code = IF outcome = "" THEN "DETECTION_COMPLETED" ELSE outcome,
                                  !.artifacts = IF Refusal(E) # "" THEN {}
                                                ELSE {<<n, output[n].size>> : n \in Present("regular")}]
    BY DEF Classify, tool
<1>7. DOMAIN result = DOMAIN Pending /\ result.attempted /\ env.mode \in {"detect", "deobfuscate"}
    BY <1>6 DEF CleanInv, WatchedPCs
<1> HIDE DEF E, A
<1>8. \A i \in DOMAIN E : E[i][2] \notin Success /\ E[i][2] # ""
    <2> SUFFICES ASSUME NEW i \in 1 .. 9 PROVE E[i][2] \notin Success /\ E[i][2] # ""
        BY <1>1
    <2>1. CASE i = 9
        <3>1. E[i][2] \in {"UNSAFE_OUTPUT", "OVERSIZED_OUTPUT"}
            BY <1>3, <2>1
        <3> QED BY <3>1 DEF Success
    <2>2. CASE i # 9
        <3>1. i = 1 \/ i = 2 \/ i = 3 \/ i = 4 \/ i = 5 \/ i = 6 \/ i = 7 \/ i = 8
            BY <2>2
        <3> QED BY <1>2, <3>1 DEF Success
    <2> QED BY <2>1, <2>2
<1>9. DOMAIN E \subseteq Nat
    BY <1>1
<1>10. DOMAIN A \subseteq Nat
    BY <1>1
<1>11. Refusal(E) = "" /\ \A i \in DOMAIN E : E[i][1]
    <2>1. SUFFICES ASSUME Refusal(E) # "" PROVE FALSE
        BY <1>8, <1>9, NothingRefused
    <2>2. Refusal(E) \notin Success
        <3>1. PICK i \in DOMAIN E : Refusal(E) = E[i][2]
            BY <1>9, <2>1, FirstRefusal
        <3> QED BY <1>8, <3>1
    <2>3. result'.reason_code = Refusal(E)
        BY <1>6, <1>7, <2>1 DEF Pending
    <2> QED BY <2>2, <2>3
<1>12. /\ result'.reason_code = IF Refusal(A) = "" THEN "DETECTION_COMPLETED" ELSE Refusal(A)
       /\ result'.artifacts = {<<n, output[n].size>> : n \in Present("regular")}
       /\ result'.attempted
    BY <1>6, <1>7, <1>11 DEF Pending
<1>13. /\ result'.reason_code = "DETECTION_COMPLETED" => env.mode = "detect" /\ Present("regular") = {}
       /\ result'.reason_code = "PENDING_CORE_REPARSE" => "cleaned" \in Present("regular")
    <2>1. CASE Refusal(A) = "" /\ \A i \in DOMAIN A : A[i][1]
        <3>1. result'.reason_code = "DETECTION_COMPLETED"
            BY <1>12, <2>1
        <3>2. A[2][1] /\ A[3][1]
            <4>1. 2 \in DOMAIN A /\ 3 \in DOMAIN A
                BY <1>1
            <4> QED BY <2>1, <4>1
        <3>3. env.mode # "deobfuscate" /\ Present("regular") = {}
            BY <1>5, <3>2
        <3> QED BY <1>7, <3>1, <3>3
    <2>2. CASE \E i \in DOMAIN A : /\ ~ A[i][1] /\ Refusal(A) = A[i][2]
                                   /\ \A j \in DOMAIN A : j < i => A[j][1]
        <3>1. PICK i \in 1 .. 3 : /\ ~ A[i][1] /\ Refusal(A) = A[i][2]
                                  /\ \A j \in 1 .. 3 : j < i => A[j][1]
            BY <1>1, <2>2
        <3>2. Refusal(A) # ""
            <4>1. i = 1 \/ i = 2 \/ i = 3
                OBVIOUS
            <4>2. A[i][2] # ""
                BY <1>5, <4>1
            <4> QED BY <3>1, <4>2
        <3>3. result'.reason_code = A[i][2]
            BY <1>12, <3>1, <3>2
        <3>4. i = 2 /\ result'.reason_code = "PENDING_CORE_REPARSE"
            <4>1. CASE i = 1
                BY <1>5, <3>3, <4>1 DEF Success
            <4>2. CASE i = 3
                BY <1>5, <3>3, <4>2 DEF Success
            <4>3. CASE i = 2
                BY <1>5, <3>3, <4>3
            <4> QED BY <4>1, <4>2, <4>3
        <3>5. ~ A[2][1] /\ A[1][1]
            BY <3>1, <3>4
        <3>6. "cleaned" \in Present("regular")
            BY <1>5, <3>5
        <3> QED BY <3>4, <3>6
    <2> QED BY <1>10, <2>1, <2>2, FirstRefusal
<1>14. proc = "exit 0" /\ enumerate_artifacts[1]
    <2>1. E[6][1] /\ E[9][1]
        <3>1. 6 \in DOMAIN E /\ 9 \in DOMAIN E
            BY <1>1
        <3> QED BY <1>11, <3>1
    <2>2. proc = "exit 0"
        BY <1>4, <2>1
    <2>3. enumerate_artifacts[1]
        BY <1>3, <2>1
    <2> QED BY <2>2, <2>3
<1>15. Present("special") = {} /\ Cardinality(Present("regular")) <= MaxFiles /\ TotalSize <= env.output_bytes
    BY <1>14 DEF enumerate_artifacts
<1>16. \A k : Present(k)' = Present(k)
    BY <1>6 DEF Present
<1>17. TotalSize' = TotalSize
    BY <1>6, <1>16 DEF TotalSize
<1> QED BY <1>6, <1>12, <1>13, <1>14, <1>15, <1>16, <1>17 DEF SuccessIsClean

\* Every step keeps it.
LEMMA CleanStep ==
    ASSUME CleanInv, [Next]_vars
    PROVE  CleanInv'
<1>1. CASE Preflight \/ Resolve \/ Authorize \/ ToolTree \/ LauncherDigest \/ LauncherProbe \/ LauncherUnchanged
           \/ validate_hard_cgroup \/ OutputDirectory \/ Compare
    BY <1>1, Preflight_Clean, Resolve_Clean, Authorize_Clean, ToolTree_Clean, LauncherDigest_Clean, LauncherProbe_Clean,
       LauncherUnchanged_Clean, validate_hard_cgroup_Clean, OutputDirectory_Clean, Compare_Clean
<1>2. CASE HashStat \/ CopyStat
    <2>1. "hash open" \notin WatchedPCs /\ "copy open" \notin WatchedPCs
        BY DEF WatchedPCs
    <2> QED BY <1>2, <2>1, require_plain_file_Clean DEF HashStat, CopyStat
<1>3. CASE HashOpen \/ CopyOpen
    <2>1. "hash" \notin WatchedPCs /\ "copy" \notin WatchedPCs
        BY DEF WatchedPCs
    <2> QED BY <1>3, <2>1, open_plain_file_Clean DEF HashOpen, CopyOpen
<1>4. CASE sha256_plain_file \/ CopyChunk \/ Start \/ Poll \/ output_usage \/ LogSizes \/ Reap \/ Abort
    <2> USE DEF CleanInv, Unsettled, WatchedPCs, Success, Pending
    <2>0. Unsettled
        BY <1>4 DEF sha256_plain_file, CopyChunk, Start, Poll, output_usage, LogSizes, Reap, Abort
    <2>1. CASE sha256_plain_file \/ CopyChunk
        BY <2>0, <2>1, Untouched DEF sha256_plain_file, CopyChunk, partial
    <2>2. CASE Start
        BY <2>0, <2>2, Untouched DEF Start
    <2>3. CASE Poll \/ output_usage \/ LogSizes
        BY <2>0, <2>3, Untouched DEF Poll, output_usage, LogSizes
    <2>4. CASE Reap \/ Abort
        BY <2>0, <2>4, Untouched DEF Reap, Abort, partial
    <2> QED BY <1>4, <2>1, <2>2, <2>3, <2>4
<1>5. CASE Classify
    <2>1. env' = env /\ pc' = "done"
        BY <1>5 DEF Classify
    <2>2. DOMAIN result' = DOMAIN result
        BY <1>5 DEF Classify
    <2>3. pc' \notin WatchedPCs
        BY <2>1 DEF WatchedPCs
    <2>4. result'.reason_code \in Success => SuccessIsClean'
        BY <1>5, Classified
    <2> QED BY <2>1, <2>2, <2>3, <2>4 DEF CleanInv
<1>6. CASE World
    <2>1. UNCHANGED <<env, pc, result>>
        BY <1>6 DEF World, Rewrite, Replace, Update, ToolWrites, ToolLogs, ToolStep, ToolExits, Deadline
    <2>2. result.reason_code \in Success => UNCHANGED <<proc, output>>
        <3>1. result.reason_code \in Success => proc # "running"
            BY DEF CleanInv, SuccessIsClean, Success
        <3>2. proc # "running" => UNCHANGED <<proc, output>>
            BY <1>6 DEF World, Rewrite, Replace, Update, ToolWrites, ToolLogs, ToolStep, ToolExits, Deadline, tool
        <3> QED BY <3>1, <3>2
    <2>3. result.reason_code \in Success => SuccessIsClean'
        <3> SUFFICES ASSUME result.reason_code \in Success PROVE SuccessIsClean'
            OBVIOUS
        <3>1. SuccessIsClean /\ UNCHANGED <<env, proc, output, result>>
            BY <2>1, <2>2 DEF CleanInv
        <3>2. Present("special")' = Present("special") /\ Present("regular")' = Present("regular")
            BY <3>1 DEF Present
        <3>3. TotalSize' = TotalSize
            BY <3>1, <3>2 DEF TotalSize
        <3> QED BY <3>1, <3>2, <3>3 DEF SuccessIsClean
    <2> QED BY <2>1, <2>3 DEF CleanInv
<1>7. CASE Ended \/ UNCHANGED vars
    <2>1. UNCHANGED <<env, pc, result, proc, output>>
        BY <1>7 DEF Ended, vars, tool
    <2>2. Present("special")' = Present("special") /\ Present("regular")' = Present("regular")
        BY <2>1 DEF Present
    <2>3. TotalSize' = TotalSize
        BY <2>1, <2>2 DEF TotalSize
    <2> QED BY <2>1, <2>2, <2>3 DEF CleanInv, SuccessIsClean
<1> QED BY <1>1, <1>2, <1>3, <1>4, <1>5, <1>6, <1>7 DEF Next, Adapter

\* The adapter knows two modes.
LEMMA ModeOfCall ==
    ASSUME NEW e \in Calls
    PROVE  e.mode \in {"detect", "deobfuscate"}
<1>1. Sound.mode = "detect" /\ "mode" \in DOMAIN Sound
    BY DEF Sound
<1>2. Wrong["mode"] = {"deobfuscate"}
    BY <1>1 DEF Wrong
<1>3. CASE e = Sound
    BY <1>1, <1>3
<1>4. ASSUME NEW f \in DOMAIN Sound, NEW v \in Wrong[f], e = [Sound EXCEPT ![f] = v]
      PROVE  e.mode \in {"detect", "deobfuscate"}
    <2>1. CASE f = "mode"
        BY <1>1, <1>2, <1>4, <2>1
    <2>2. CASE f # "mode"
        BY <1>1, <1>4, <2>2
    <2> QED BY <2>1, <2>2
<1> QED BY <1>3, <1>4 DEF Calls

(* A finished result is never given for a tool that failed, was stopped,   *)
(* left something else than files within its budgets, or whose output may  *)
(* still change; and its artifact list is the directory's (adapter.py,     *)
(* run_adapter after the polling loop, enumerate_artifacts).               *)
THEOREM FinishedResultIsClean == Spec => []SuccessIsClean
<1>1. Init => CleanInv
    <2> SUFFICES ASSUME Init PROVE CleanInv
        OBVIOUS
    <2>1. env.mode \in {"detect", "deobfuscate"}
        <3>1. CASE env \in Calls
            BY <3>1, ModeOfCall
        <3>2. CASE env = [Sound EXCEPT !.pinned = FALSE, !.wellformed = FALSE]
            <4>1. Sound.mode = "detect"
                BY DEF Sound
            <4> QED BY <3>2, <4>1
        <3> QED BY <3>1, <3>2 DEF Init
    <2>2. pc = "preflight" /\ result = Pending
        BY DEF Init
    <2>3. result.reason_code \notin Success
        BY <2>2 DEF Pending, Success
    <2> QED BY <2>1, <2>2, <2>3 DEF CleanInv, WatchedPCs
<1>2. CleanInv /\ [Next]_vars => CleanInv'
    BY CleanStep
<1>3. CleanInv => SuccessIsClean
    BY DEF CleanInv, SuccessIsClean, Success
<1> QED BY <1>1, <1>2, <1>3, PTL DEF Spec

=============================================================================
