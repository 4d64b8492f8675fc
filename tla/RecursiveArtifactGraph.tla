----------------------- MODULE RecursiveArtifactGraph -----------------------
(***************************************************************************)
(* The artifact graph of `--extract --recursive` (main.cpp): the given     *)
(* files are analysed breadth first, each analysis extracts files under    *)
(* what is left of the byte and node budgets, and an extracted file is     *)
(* queued unless it is unsafe, over a budget or a copy of known content.   *)
(*                                                                         *)
(* A file is its content (what its SHA-256 stands for); a container is the *)
(* sequence of the contents packed in it, in the order of the extracted    *)
(* paths, and may contain a copy of itself.  Byte counts stay far below    *)
(* 2^64, where the code would saturate.                                    *)
(***************************************************************************)
EXTENDS Integers, Sequences, FiniteSets, SequencesExt

CONSTANTS
    Contents,
    SizeOf,          \* size of each content
    MaxMembers,      \* bound: files packed in one container
    KindOf,          \* how a content counts as a container at the depth limit
    Selective,       \* bound: contents whose extractors may pass over members
    RootLists,       \* the lists of files that may be given to the analyser
    MaxDepth,        \* artifact_max_depth
    MaxNodes,        \* artifact_max_nodes
    MaxBytes         \* artifact_max_bytes

ASSUME GraphAssumption ==
    /\ "none" \notin Contents
    /\ SizeOf \in [Contents -> Nat] /\ MaxMembers \in Nat
    /\ KindOf \in [Contents -> {"container", "dotnet", "other"}]
    /\ Selective \subseteq Contents
    /\ RootLists \subseteq Seq(Contents) \ {<<>>}
    /\ MaxDepth \in Nat /\ MaxNodes \in Nat \ {0} /\ MaxBytes \in Nat \ {0}

VARIABLES
    roots,                \* contents of the given files, in inventory order
    opened, inside,       \* the members of the contents analysed so far
    trusted,              \* whether extractors keep to their allowance
    reached,              \* members that extractors did not pass over
    queue, cur,           \* nodes to analyse, and the one under analysis
    todo,                 \* its extracted files that are still to be handled
    reports,              \* analysed nodes; ok: the file could be mapped
    first_by_sha,         \* contents known
    materialized_bytes, admitted_bytes,
    truncated,
    edges,                \* parent: index the parent has in reports
    exit                  \* "none" while the graph grows

world == <<roots, opened, inside, trusted, reached>>
graph == <<materialized_bytes, admitted_bytes, truncated, edges>>
vars == <<world, queue, cur, todo, reports, first_by_sha, graph, exit>>

Nodes == [content : Contents, depth : Nat, root : BOOLEAN]

Reports == [content : Contents, depth : Nat, root : BOOLEAN, ok : BOOLEAN]

Idle == [content |-> "none", depth |-> 0, root |-> FALSE]

EdgeStates == {"SKIPPED_UNSAFE", "SKIPPED_BYTE_LIMIT", "DUPLICATE_SKIPPED",
               "SKIPPED_DEPTH", "SKIPPED_NODE_LIMIT", "ADMITTED"}

TypeOK ==
    /\ queue \in Seq(Nodes) /\ cur \in Nodes \cup {Idle}
    /\ todo \in Seq(Contents)
    /\ reports \in Seq(Reports)
    /\ first_by_sha \subseteq Contents
    /\ materialized_bytes \in Nat /\ admitted_bytes \in 0 .. materialized_bytes
    /\ truncated \in BOOLEAN
    /\ \A e \in edges : /\ e.parent \in 1 .. Len(reports) + 1
                        /\ e.content \in Contents /\ e.state \in EdgeStates
    /\ exit \in {"none", "Success", "Input"}

Node(c, d, r) == [content |-> c, depth |-> d, root |-> r]

\* Roots beyond the node limit are dropped before anything is analysed.
Init ==
    /\ trusted \in BOOLEAN
    /\ opened = {} /\ inside = [c \in Contents |-> <<>>] /\ reached = {}
    /\ roots \in RootLists
    /\ queue = [i \in 1 .. (IF Len(roots) <= MaxNodes THEN Len(roots) ELSE MaxNodes)
                    |-> Node(roots[i], 0, TRUE)]
    /\ truncated = (Len(roots) > MaxNodes)
    /\ cur = Idle /\ todo = <<>> /\ reports = <<>> /\ first_by_sha = {}
    /\ materialized_bytes = 0 /\ admitted_bytes = 0
    /\ edges = {} /\ exit = "none"

-----------------------------------------------------------------------------
(* Extraction.  The mutants, named <definition>_<fault>, are what a slip in   *)
(* the code would make of the definition after them; nothing uses them.      *)

\* One cell for each byte of each file of s: a total is their number, which
\* needs no recursion.
Cells(s) == UNION {{i} \X (1 .. SizeOf[s[i]]) : i \in DOMAIN s}

BytesOf(s) == Cardinality(Cells(s))

\* What the extractors of the next node may still write.
BytesLeft == IF materialized_bytes < MaxBytes THEN MaxBytes - materialized_bytes ELSE 0

\* Evaluated before the node leaves the queue: it is the one that counts for
\* the "+1" of the code.
FilesLeft_CurrentForgotten ==
    LET occupied == Len(reports) + Len(queue) - 1
    IN  IF occupied < MaxNodes THEN MaxNodes - occupied ELSE 0

FilesLeft ==
    LET occupied == Len(reports) + Len(queue)
    IN  IF occupied < MaxNodes THEN MaxNodes - occupied ELSE 0

Within(s) == BytesOf(s) <= BytesLeft /\ Len(s) <= FilesLeft

\* What is packed in a content is the same whenever it is analysed.
MembersOf(c) == IF c \in opened THEN {inside[c]} ELSE BoundedSeq(Contents, MaxMembers)

\* What is left of m when some of its members are not extracted.
Subsequences(m) ==
    {s \in BoundedSeq(Contents, Len(m)) :
        \E at \in [DOMAIN s -> DOMAIN m] :
            /\ \A i \in DOMAIN s : s[i] = m[at[i]]
            /\ \A i, j \in DOMAIN s : i < j => at[i] < at[j]}

\* What the extractors come to; other members they pass over, whatever the
\* budgets: compressed members of a .NET bundle, a container whose output
\* directory is refused, members that fail or that core-only extraction leaves
\* out, entries of a PyInstaller archive that are no candidates.
ComesTo(n, m) == IF n.content \in Selective THEN Subsequences(m) ELSE {m}

\* What is written of r.  Above the depth limit all extractors draw on one
\* allowance, and what does not fit is omitted or refused.  At the limit only
\* automatic extraction is left, where each ecosystem has the allowance to
\* itself: two of them (say .NET resources and a .NET bundle) can exceed it
\* together.  Extractors that ignore their allowance write everything.
Extracted(n, r) ==
    IF ~trusted THEN {r} ELSE
    {s \in Subsequences(r) :
        IF n.depth < MaxDepth THEN Within(s)
        ELSE \E k \in 0 .. Len(s) : Within(SubSeq(s, 1, k)) /\ Within(SubSeq(s, k + 1, Len(s)))}

\* has_extractable_child_container: .NET resources and bundles count by the
\* files written from them, other containers if they are valid, also without
\* a member.  Neither a plain file nor a ZIP with a Hermes bundle counts.
ShowsContainer(n, s) ==
    KindOf[n.content] = "container" \/ (KindOf[n.content] = "dotnet" /\ s # <<>>)

NotesTruncation_BudgetForgotten(n, r, s) == n.depth >= MaxDepth /\ ShowsContainer(n, s)

\* note_recursive_extraction_budget, which sees only what was left out for the
\* budget, and the container at the depth limit.
NotesTruncation(n, r, s) ==
    \/ s # r
    \/ n.depth >= MaxDepth /\ ShowsContainer(n, s)

\* analyze_file maps the node's file and extracts what it may of its members.
Analyze ==
    /\ exit = "none" /\ cur = Idle /\ queue # <<>>
    /\ LET n == Head(queue)
       IN \E m \in MembersOf(n.content) : \E r \in ComesTo(n, m) : \E s \in Extracted(n, r) :
             /\ inside' = [inside EXCEPT ![n.content] = m]
             /\ opened' = opened \cup {n.content}
             /\ reached' = reached \cup ToSet(r)
             /\ cur' = n /\ queue' = Tail(queue) /\ todo' = s
             /\ first_by_sha' = first_by_sha \cup {n.content}
             /\ truncated' = (truncated \/ NotesTruncation(n, r, s))
    /\ UNCHANGED <<roots, trusted, reports, materialized_bytes, admitted_bytes,
                   edges, exit>>

Report(n, ok) == [content |-> n.content, depth |-> n.depth, root |-> n.root, ok |-> ok]

AnalyzeFails_Requeued ==
    /\ exit = "none" /\ cur = Idle /\ queue # <<>>
    /\ queue' = Append(Tail(queue), Head(queue))
    /\ UNCHANGED <<world, cur, todo, reports, first_by_sha, graph, exit>>

\* The file cannot be mapped: a report without a hash and without children.
AnalyzeFails ==
    /\ exit = "none" /\ cur = Idle /\ queue # <<>>
    /\ queue' = Tail(queue)
    /\ reports' = Append(reports, Report(Head(queue), FALSE))
    /\ UNCHANGED <<world, cur, todo, first_by_sha, graph, exit>>

-----------------------------------------------------------------------------
(* The extracted files of a node, one after the other *)

Child == Head(todo)

ChildDepth == cur.depth + 1

Handled(state) ==
    /\ cur # Idle /\ todo # <<>>
    /\ todo' = Tail(todo)
    /\ edges' = edges \cup {[parent |-> Len(reports) + 1, content |-> Child,
                             depth |-> ChildDepth, state |-> state]}
    /\ UNCHANGED <<world, cur, reports, exit>>

\* A symlink or another non-regular file, or its size or hash is not to be had.
ChildUnsafe ==
    /\ Handled("SKIPPED_UNSAFE")
    /\ UNCHANGED <<queue, first_by_sha, materialized_bytes, admitted_bytes, truncated>>

Measured_NotAdded == materialized_bytes

Measured == materialized_bytes + SizeOf[Child]

OverBytes == Measured > MaxBytes

Duplicate_Forgotten == FALSE

Duplicate == Child \in first_by_sha

TooDeep == ChildDepth > MaxDepth

NoNodeLeft_QueueForgotten == Len(reports) + 1 >= MaxNodes

NoNodeLeft == Len(reports) + Len(queue) + 1 >= MaxNodes

\* The first check that objects decides; only a duplicate is no truncation.
Refusal ==
    CASE OverBytes  -> "SKIPPED_BYTE_LIMIT"
      [] ~OverBytes /\ Duplicate -> "DUPLICATE_SKIPPED"
      [] ~OverBytes /\ ~Duplicate /\ TooDeep -> "SKIPPED_DEPTH"
      [] ~OverBytes /\ ~Duplicate /\ ~TooDeep /\ NoNodeLeft -> "SKIPPED_NODE_LIMIT"
      [] OTHER -> "ADMITTED"

ChildSkipped ==
    /\ Refusal # "ADMITTED"
    /\ Handled(Refusal)
    /\ materialized_bytes' = Measured
    /\ truncated' = (truncated \/ Refusal # "DUPLICATE_SKIPPED")
    /\ UNCHANGED <<queue, first_by_sha, admitted_bytes>>

Enqueued_InFront(n) == <<n>> \o queue

Enqueued(n) == Append(queue, n)

ChildAdmitted ==
    /\ Refusal = "ADMITTED"
    /\ Handled("ADMITTED")
    /\ materialized_bytes' = Measured
    /\ admitted_bytes' = admitted_bytes + SizeOf[Child]
    /\ first_by_sha' = first_by_sha \cup {Child}
    /\ queue' = Enqueued(Node(Child, ChildDepth, FALSE))
    /\ UNCHANGED truncated

FinishNode ==
    /\ cur # Idle /\ todo = <<>>
    /\ reports' = Append(reports, Report(cur, TRUE))
    /\ cur' = Idle
    /\ UNCHANGED <<world, queue, todo, first_by_sha, graph, exit>>

\* The graph is written into the first report; without one given file that
\* could be analysed the program reports an input error instead.
Finish ==
    /\ exit = "none" /\ cur = Idle /\ queue = <<>>
    /\ exit' = IF \E i \in DOMAIN reports : reports[i].root /\ reports[i].ok
               THEN "Success" ELSE "Input"
    /\ UNCHANGED <<world, queue, cur, todo, reports, first_by_sha, graph>>

Exited == exit # "none" /\ UNCHANGED vars

Next ==
    \/ Analyze
    \/ AnalyzeFails
    \/ todo # <<>> /\ (ChildUnsafe \/ ChildSkipped \/ ChildAdmitted)
    \/ FinishNode
    \/ Finish
    \/ Exited

Spec == Init /\ [][Next]_vars

\* One thread; every analysis and every extraction comes to an end.
FairSpec == Spec /\ WF_vars(Next)

-----------------------------------------------------------------------------
(* Properties *)

\* A node is paid for when it is queued: what is analysed, under analysis and
\* waiting never exceeds the node limit, so no queued artifact is dropped
\* later; and the admitted bytes never exceed the byte limit, although it is
\* the materialized bytes that are compared with it.
WithinBudgets ==
    /\ Len(reports) + Len(queue) + (IF cur = Idle THEN 0 ELSE 1) <= MaxNodes
    /\ admitted_bytes <= MaxBytes

\* Cycles are cut: of two analyses of the same content at least one is of a
\* file that was given; content is extracted and analysed at most once, and
\* not at all if a given file was found to have it before.
OnlyRootsRepeat ==
    /\ \A i, j \in DOMAIN reports :
          i # j /\ reports[i].content = reports[j].content => reports[i].root \/ reports[j].root
    /\ \A e \in edges, i \in DOMAIN reports :
          e.state = "ADMITTED" /\ i < e.parent /\ reports[i].ok => e.content # reports[i].content

Unsafe == {e \in edges : e.state = "SKIPPED_UNSAFE"}

\* What the budgets cut off is told: in a graph that is not called PARTIAL and
\* has no unsafe files (they have their own counter), every given file was
\* analysed, and every member an extractor came to, from any analysis and to
\* any depth.  It does not say that the graph is complete: members passed over
\* for another reason than the budgets are missing from a CONFIRMED graph too.
CutsAreTold ==
    exit = "Success" /\ ~truncated /\ Unsafe = {} =>
        ToSet(roots) \cup reached \subseteq {reports[i].content : i \in DOMAIN reports}

\* The allowance a node is given fits the checks its files meet: as long as
\* extractors keep to it, nothing they wrote is refused for want of a node, and
\* bytes are refused only beyond the depth limit, where nothing is analysed.
AllowanceIsEnough ==
    trusted => \A e \in edges :
        /\ e.state # "SKIPPED_NODE_LIMIT"
        /\ e.state = "SKIPPED_BYTE_LIMIT" => e.depth > MaxDepth

\* An artifact that is refused for its depth or for want of a node is not
\* admitted at another place later: the report never both refuses and
\* descends into the same content (the queue is breadth first and the budgets
\* only shrink).
RefusalIsFinal ==
    \A e, f \in edges :
        e.state \in {"SKIPPED_DEPTH", "SKIPPED_NODE_LIMIT"} /\ f.state = "ADMITTED"
            => e.content # f.content

\* The analysis comes to its end, also on containers that contain themselves.
Terminates == <>(exit # "none")
=============================================================================
