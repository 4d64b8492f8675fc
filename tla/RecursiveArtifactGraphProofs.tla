-------------------- MODULE RecursiveArtifactGraphProofs --------------------
(***************************************************************************)
(* The recursive artifact graph, for any contents, containers and limits,  *)
(* and extractors that may ignore their allowance.  Type correctness       *)
(* carries the one fact the byte budget needs (what is admitted was        *)
(* materialized), so it and the node count are inductive together          *)
(* (GraphInv).  What the graph says of repeated, refused and missing       *)
(* content rests on four strengthenings on top of it: contents that are    *)
(* known and the nodes that have them, the breadth-first order of depths,  *)
(* what is still to be done for a graph that is not truncated, and what is *)
(* left of the allowance of the node under analysis.                       *)
(***************************************************************************)
EXTENDS RecursiveArtifactGraph, SequenceTheorems, FiniteSetTheorems, WellFoundedInduction, TLAPS

WorldOK ==
    /\ roots \in RootLists /\ trusted \in BOOLEAN
    /\ inside \in [Contents -> Seq(Contents)]
    /\ \A e \in edges : e.depth \in Nat
    /\ cur = Idle => todo = <<>>

GraphInv == TypeOK /\ WorldOK /\ WithinBudgets

LEMMA IdleIsNoNode == Idle \notin Nodes
  BY GraphAssumption DEF Idle, Nodes

LEMMA AppendOne ==
  ASSUME NEW S, NEW s \in Seq(S), NEW e \in S
  PROVE  Append(s, e) \in Seq(S) /\ Len(Append(s, e)) = Len(s) + 1 /\ Len(s) \in Nat
  BY AppendProperties, LenProperties

LEMMA BoundedSeqIsSeq ==
  ASSUME NEW n \in Nat PROVE BoundedSeq(Contents, n) \subseteq Seq(Contents)
  BY DEF BoundedSeq, SeqOf

LEMMA SubsequenceIsSeq ==
  ASSUME NEW m \in Seq(Contents), NEW r \in Subsequences(m)
  PROVE  r \in Seq(Contents)
  BY BoundedSeqIsSeq DEF Subsequences

LEMMA ExtractedIsSeq ==
  ASSUME NEW n, NEW m \in Seq(Contents), NEW r \in ComesTo(n, m), NEW s \in Extracted(n, r)
  PROVE  r \in Seq(Contents) /\ s \in Seq(Contents)
<1>1. r \in Seq(Contents)
  BY SubsequenceIsSeq DEF ComesTo
<1>2. s = r \/ s \in Subsequences(r)
  BY DEF Extracted
<1> QED
  BY <1>1, <1>2, SubsequenceIsSeq

LEMMA MembersAreSeq ==
  ASSUME GraphInv, NEW c \in Contents, NEW m \in MembersOf(c)
  PROVE  m \in Seq(Contents)
  BY BoundedSeqIsSeq, GraphAssumption DEF MembersOf, GraphInv, WorldOK

LEMMA InitInv == Init => GraphInv
<1> SUFFICES ASSUME Init PROVE GraphInv
  OBVIOUS
<1> USE GraphAssumption
<1>1. Len(roots) \in Nat /\ roots \in Seq(Contents)
  BY DEF Init
<1>2. PICK k \in Nat : k <= MaxNodes /\ k <= Len(roots)
                       /\ queue = [i \in 1 .. k |-> Node(roots[i], 0, TRUE)]
  BY <1>1 DEF Init
<1>3. \A i \in 1 .. k : Node(roots[i], 0, TRUE) \in Nodes
  BY <1>1, <1>2 DEF Node, Nodes
<1>4. queue \in Seq(Nodes) /\ Len(queue) = k
  <2>1. queue \in [1 .. k -> Nodes]
    BY <1>2, <1>3
  <2>2. queue \in Seq(Nodes)
    <3>1. Seq(Nodes) = UNION {[1 .. n -> Nodes] : n \in Nat}
      BY SeqDef
    <3>2. [1 .. k -> Nodes] \in {[1 .. n -> Nodes] : n \in Nat}
      BY <1>2, Zenon
    <3> QED
      BY <2>1, <3>1, <3>2, Zenon
  <2>3. Len(queue) \in Nat /\ DOMAIN queue = 1 .. Len(queue)
    BY <2>2, LenProperties
  <2>4. 1 .. Len(queue) = 1 .. k
    BY <2>1, <2>3
  <2>5. Len(queue) = k
    BY <2>3, <2>4, <1>2
  <2> QED
    BY <2>2, <2>5
<1>5. TypeOK
  <2>1. reports = <<>> /\ edges = {} /\ todo = <<>> /\ cur = Idle
    BY DEF Init
  <2>2. truncated \in BOOLEAN
    BY <1>1, SMT DEF Init
  <2>5. exit = "none" /\ first_by_sha = {}
    BY Zenon DEF Init
  <2>3. materialized_bytes = 0 /\ admitted_bytes = 0
    BY DEF Init
  <2>4. QED
    BY <2>1, <2>2, <2>3, <2>5, <1>4 DEF TypeOK
<1>6. WorldOK
  BY DEF Init, WorldOK
<1>7. WithinBudgets
  BY <1>2, <1>4 DEF Init, WithinBudgets
<1> QED
  BY <1>5, <1>6, <1>7 DEF GraphInv

LEMMA StepInv == GraphInv /\ [Next]_vars => GraphInv'
<1> SUFFICES ASSUME GraphInv, [Next]_vars PROVE GraphInv'
  OBVIOUS
<1> USE GraphAssumption
<1>t. TypeOK /\ WorldOK /\ WithinBudgets
  BY DEF GraphInv
<1>q. ASSUME queue # <<>>
      PROVE  /\ Head(queue) \in Nodes /\ Head(queue) # Idle
             /\ Tail(queue) \in Seq(Nodes) /\ Len(Tail(queue)) = Len(queue) - 1
  BY <1>t, <1>q, HeadTailProperties, IdleIsNoNode DEF TypeOK
<1>c. ASSUME todo # <<>>
      PROVE  /\ Child \in Contents /\ SizeOf[Child] \in Nat
             /\ Tail(todo) \in Seq(Contents)
             /\ cur \in Nodes /\ cur # Idle
  BY <1>t, <1>c, HeadTailProperties, IdleIsNoNode DEF TypeOK, WorldOK, Child
<1>1. CASE Analyze
  <2>1. queue # <<>> /\ cur = Idle
    BY <1>1 DEF Analyze
  <2>a. PICK m \in MembersOf(Head(queue).content) :
          \E r \in ComesTo(Head(queue), m) : \E s \in Extracted(Head(queue), r) :
             /\ inside' = [inside EXCEPT ![Head(queue).content] = m]
             /\ cur' = Head(queue) /\ queue' = Tail(queue) /\ todo' = s
             /\ first_by_sha' = first_by_sha \cup {Head(queue).content}
             /\ truncated' = (truncated \/ NotesTruncation(Head(queue), r, s))
    BY <1>1, Zenon DEF Analyze
  <2>b. PICK r \in ComesTo(Head(queue), m) : \E s \in Extracted(Head(queue), r) :
             /\ inside' = [inside EXCEPT ![Head(queue).content] = m]
             /\ cur' = Head(queue) /\ queue' = Tail(queue) /\ todo' = s
             /\ first_by_sha' = first_by_sha \cup {Head(queue).content}
             /\ truncated' = (truncated \/ NotesTruncation(Head(queue), r, s))
    BY <2>a
  <2>2. PICK s \in Extracted(Head(queue), r) :
             /\ inside' = [inside EXCEPT ![Head(queue).content] = m]
             /\ cur' = Head(queue) /\ queue' = Tail(queue) /\ todo' = s
             /\ first_by_sha' = first_by_sha \cup {Head(queue).content}
             /\ truncated' = (truncated \/ NotesTruncation(Head(queue), r, s))
    BY <2>b
  <2>3. Head(queue).content \in Contents
    BY <1>q, <2>1 DEF Nodes
  <2>4. m \in Seq(Contents) /\ s \in Seq(Contents)
    BY <2>3, MembersAreSeq, ExtractedIsSeq
  <2>5. truncated' \in BOOLEAN
    BY <1>t, <2>2, Zenon DEF TypeOK, NotesTruncation
  <2>6. UNCHANGED <<roots, trusted, reports, materialized_bytes, admitted_bytes, edges, exit>>
    BY <1>1 DEF Analyze
  <2>7. TypeOK'
    BY <1>t, <1>q, <2>1, <2>2, <2>3, <2>4, <2>5, <2>6 DEF TypeOK
  <2>8. WorldOK'
    BY <1>t, <1>q, <2>1, <2>2, <2>3, <2>4, <2>6 DEF WorldOK
  <2>9. WithinBudgets'
    BY <1>t, <1>q, <2>1, <2>2, <2>6 DEF WithinBudgets, TypeOK
  <2> QED
    BY <2>7, <2>8, <2>9 DEF GraphInv
<1>2. CASE AnalyzeFails
  <2>1. queue # <<>> /\ cur = Idle /\ cur' = cur /\ queue' = Tail(queue)
    BY <1>2 DEF AnalyzeFails
  <2>2. Report(Head(queue), FALSE) \in Reports
    BY <1>q, <2>1 DEF Report, Reports, Nodes
  <2>3. /\ reports' \in Seq(Reports)
        /\ Len(reports') = Len(reports) + 1 /\ Len(reports) \in Nat
    <3>1. reports \in Seq(Reports)
      BY <1>t DEF TypeOK
    <3>2. reports' = Append(reports, Report(Head(queue), FALSE))
      BY <1>2 DEF AnalyzeFails
    <3> QED
      BY <2>2, <3>1, <3>2, AppendOne
  <2>4. UNCHANGED <<world, todo, first_by_sha, graph, exit>>
    BY <1>2 DEF AnalyzeFails
  <2>5. TypeOK'
    BY <1>t, <1>q, <2>1, <2>3, <2>4 DEF TypeOK, graph
  <2>6. WorldOK' /\ WithinBudgets'
    BY <1>t, <1>q, <2>1, <2>3, <2>4 DEF TypeOK, WorldOK, WithinBudgets, world, graph
  <2> QED
    BY <2>5, <2>6 DEF GraphInv
<1>h. ASSUME NEW st \in EdgeStates, todo # <<>>, Handled(st)
      PROVE  /\ todo' \in Seq(Contents)
             /\ \A e \in edges' : /\ e.parent \in 1 .. Len(reports') + 1
                                  /\ e.content \in Contents /\ e.state \in EdgeStates
                                  /\ e.depth \in Nat
             /\ UNCHANGED <<world, cur, reports, exit>> /\ cur \in Nodes /\ cur # Idle
  <2>1. PICK e0 : /\ e0 = [parent |-> Len(reports) + 1, content |-> Child,
                           depth |-> ChildDepth, state |-> st]
                  /\ edges' = edges \cup {e0}
    BY <1>h DEF Handled
  <2>2. ChildDepth \in Nat
    BY <1>c, <1>h DEF ChildDepth, Nodes
  <2>3. /\ e0.parent \in 1 .. Len(reports) + 1 /\ e0.content \in Contents
        /\ e0.state \in EdgeStates /\ e0.depth \in Nat
    BY <1>t, <1>c, <1>h, <2>1, <2>2 DEF TypeOK
  <2>4. UNCHANGED <<world, cur, reports, exit>> /\ todo' = Tail(todo)
    BY <1>h DEF Handled
  <2> QED
    BY <1>t, <1>c, <1>h, <2>1, <2>3, <2>4 DEF TypeOK, WorldOK
<1>3. CASE todo # <<>> /\ ChildUnsafe
  <2>1. Handled("SKIPPED_UNSAFE") /\ "SKIPPED_UNSAFE" \in EdgeStates
    BY <1>3 DEF ChildUnsafe, EdgeStates
  <2>2. UNCHANGED <<queue, first_by_sha, materialized_bytes, admitted_bytes, truncated>>
    BY <1>3 DEF ChildUnsafe
  <2> QED
    BY <1>t, <1>h, <1>3, <2>1, <2>2 DEF GraphInv, TypeOK, WorldOK, WithinBudgets, world
<1>4. CASE todo # <<>> /\ ChildSkipped
  <2>1. Refusal \in EdgeStates
    BY DEF Refusal, EdgeStates
  <2>2. Handled(Refusal) /\ UNCHANGED <<queue, first_by_sha, admitted_bytes>>
    BY <1>4 DEF ChildSkipped
  <2>3. materialized_bytes' = materialized_bytes + SizeOf[Child]
    BY <1>4 DEF ChildSkipped, Measured
  <2>4. truncated' \in BOOLEAN
    BY <1>t, <1>4, Zenon DEF TypeOK, ChildSkipped
  <2>5. TypeOK'
    BY <1>t, <1>h, <1>c, <1>4, <2>1, <2>2, <2>3, <2>4 DEF TypeOK
  <2>6. WorldOK' /\ WithinBudgets'
    BY <1>t, <1>h, <1>4, <2>1, <2>2 DEF TypeOK, WorldOK, WithinBudgets, world
  <2> QED
    BY <2>5, <2>6 DEF GraphInv
<1>5. CASE todo # <<>> /\ ChildAdmitted
  <2>1. Handled("ADMITTED") /\ "ADMITTED" \in EdgeStates
    BY <1>5 DEF ChildAdmitted, EdgeStates
  <2>2. ~OverBytes /\ ~NoNodeLeft
    BY <1>5 DEF ChildAdmitted, Refusal
  <2>3. /\ materialized_bytes' = materialized_bytes + SizeOf[Child]
        /\ admitted_bytes' = admitted_bytes + SizeOf[Child]
        /\ first_by_sha' = first_by_sha \cup {Child}
        /\ truncated' = truncated
        /\ queue' = Append(queue, Node(Child, ChildDepth, FALSE))
    BY <1>5 DEF ChildAdmitted, Measured, Enqueued
  <2>4. Node(Child, ChildDepth, FALSE) \in Nodes
    BY <1>c, <1>5 DEF Node, Nodes, ChildDepth
  <2>5. queue' \in Seq(Nodes) /\ Len(queue') = Len(queue) + 1 /\ Len(queue) \in Nat
    <3>1. queue \in Seq(Nodes)
      BY <1>t DEF TypeOK
    <3> QED
      BY <2>3, <2>4, <3>1, AppendOne
  <2>6. TypeOK'
    <3>1. admitted_bytes' \in 0 .. materialized_bytes' /\ materialized_bytes' \in Nat
      BY <1>t, <1>c, <1>5, <2>3 DEF TypeOK
    <3>2. first_by_sha' \subseteq Contents /\ truncated' \in BOOLEAN
      BY <1>t, <1>c, <1>5, <2>3, Zenon DEF TypeOK
    <3>3. /\ todo' \in Seq(Contents) /\ cur' \in Nodes /\ UNCHANGED <<reports, exit>>
          /\ \A e \in edges' : /\ e.parent \in 1 .. Len(reports') + 1
                               /\ e.content \in Contents /\ e.state \in EdgeStates
      BY <1>h, <1>5, <2>1
    <3> QED
      BY <1>t, <2>5, <3>1, <3>2, <3>3 DEF TypeOK
  <2>7. WorldOK'
    BY <1>t, <1>h, <1>5, <2>1 DEF WorldOK, world
  <2>8. Len(reports) + Len(queue) + 1 < MaxNodes /\ materialized_bytes + SizeOf[Child] <= MaxBytes
    BY <1>t, <1>c, <1>5, <2>2, <2>5 DEF TypeOK, OverBytes, NoNodeLeft, Measured
  <2>9. WithinBudgets'
    BY <1>t, <1>h, <1>c, <1>5, <2>1, <2>3, <2>5, <2>8 DEF TypeOK, WithinBudgets
  <2> QED
    BY <2>6, <2>7, <2>9 DEF GraphInv
<1>6. CASE FinishNode
  <2>1. cur \in Nodes /\ cur # Idle /\ cur' = Idle
    BY <1>t, <1>6 DEF TypeOK, FinishNode
  <2>2. Report(cur, TRUE) \in Reports
    BY <2>1 DEF Report, Reports, Nodes
  <2>3. /\ reports' \in Seq(Reports)
        /\ Len(reports') = Len(reports) + 1 /\ Len(reports) \in Nat
    <3>1. reports \in Seq(Reports)
      BY <1>t DEF TypeOK
    <3>2. reports' = Append(reports, Report(cur, TRUE))
      BY <1>6 DEF FinishNode
    <3> QED
      BY <2>2, <3>1, <3>2, AppendOne
  <2>4. UNCHANGED <<world, queue, todo, first_by_sha, graph, exit>> /\ todo = <<>>
    BY <1>6 DEF FinishNode
  <2>5. TypeOK'
    BY <1>t, <2>1, <2>3, <2>4 DEF TypeOK, graph
  <2>6. WorldOK' /\ WithinBudgets'
    BY <1>t, <2>1, <2>3, <2>4 DEF TypeOK, WorldOK, WithinBudgets, world, graph
  <2> QED
    BY <2>5, <2>6 DEF GraphInv
<1>7. CASE Finish
  <2>1. exit' \in {"none", "Success", "Input"}
    BY <1>7 DEF Finish
  <2>2. UNCHANGED <<world, queue, cur, todo, reports, first_by_sha, graph>>
    BY <1>7 DEF Finish
  <2> QED
    BY <1>t, <2>1, <2>2 DEF GraphInv, TypeOK, WorldOK, WithinBudgets, world, graph
<1>8. CASE UNCHANGED vars
  BY <1>t, <1>8 DEF GraphInv, TypeOK, WorldOK, WithinBudgets, vars, world, graph
<1> QED
  BY <1>1, <1>2, <1>3, <1>4, <1>5, <1>6, <1>7, <1>8 DEF Next, Exited

\* The strengthening behind the two theorems below.
THEOREM GraphInvariant == Spec => []GraphInv
  BY InitInv, StepInv, PTL DEF Spec

\* Every variable of the loop of main.cpp keeps its type, and the bytes that
\* were admitted were materialized before.
THEOREM GraphTypeCorrect == Spec => []TypeOK
  BY GraphInvariant, PTL DEF GraphInv

\* For every list of inputs, every nesting of containers and every behaviour
\* of the extractors, the graph analyses and queues at most artifact_max_nodes
\* nodes and admits at most artifact_max_bytes.
THEOREM GraphBudgets == Spec => []WithinBudgets
  BY GraphInvariant, PTL DEF GraphInv

\* ---------------------------------------------------------------- order and completeness

\* Extracted nodes have contents of their own, all of them known.
KnownInv ==
    /\ \A i \in DOMAIN reports : reports[i].ok \/ ~reports[i].root => reports[i].content \in first_by_sha
    /\ \A i \in DOMAIN queue : ~queue[i].root => queue[i].content \in first_by_sha
    /\ cur # Idle => cur.content \in first_by_sha
    /\ \A e \in edges : e.state = "ADMITTED" => e.content \in first_by_sha

AloneInv ==
    /\ \A i, j \in DOMAIN queue :
          ~queue[i].root /\ ~queue[j].root /\ queue[i].content = queue[j].content => i = j
    /\ \A i \in DOMAIN queue, j \in DOMAIN reports :
          ~queue[i].root /\ ~reports[j].root => queue[i].content # reports[j].content
    /\ cur # Idle /\ ~cur.root =>
          /\ \A i \in DOMAIN queue : ~queue[i].root => queue[i].content # cur.content
          /\ \A j \in DOMAIN reports : ~reports[j].root => reports[j].content # cur.content

\* Depths in the queue grow, by one at most, and not below the current node's.
DepthInv ==
    /\ \A i, j \in DOMAIN queue : i <= j => queue[i].depth <= queue[j].depth
    /\ \A i, j \in DOMAIN queue : queue[j].depth <= queue[i].depth + 1
    /\ cur # Idle => \A i \in DOMAIN queue : queue[i].depth \in {cur.depth, cur.depth + 1}

Refused(state) == \E e \in edges : e.state = state

\* Once something was too deep, everything that is left is at the depth limit;
\* once a node was refused, all nodes are taken.
RefusedInv ==
    /\ Refused("SKIPPED_DEPTH") =>
          /\ cur # Idle => cur.depth >= MaxDepth
          /\ \A i \in DOMAIN queue : queue[i].depth >= MaxDepth
    /\ Refused("SKIPPED_NODE_LIMIT") =>
          Len(reports) + Len(queue) + (IF cur = Idle THEN 0 ELSE 1) >= MaxNodes

OrderInv == KnownInv /\ AloneInv /\ OnlyRootsRepeat /\ DepthInv /\ RefusedInv /\ RefusalIsFinal

Analysed == {reports[i].content : i \in DOMAIN reports}

Waiting == {queue[i].content : i \in DOMAIN queue}

Current == IF cur = Idle THEN {} ELSE {cur.content}

\* In a graph that is not truncated, what is known is analysed or will be, and
\* what an extractor came to is known or will be handled.
TodoInv ==
    /\ exit # "none" => queue = <<>> /\ cur = Idle
    /\ ~truncated /\ Unsafe = {} =>
          /\ ToSet(roots) \cup first_by_sha \subseteq Analysed \cup Waiting \cup Current
          /\ reached \subseteq first_by_sha \cup ToSet(todo)

-----------------------------------------------------------------------------
(* Sequences and steps, index by index.                                    *)

LEMMA AppendAt ==
  ASSUME NEW S, NEW s \in Seq(S), NEW e \in S
  PROVE  /\ DOMAIN s = 1 .. Len(s) /\ Len(s) \in Nat
         /\ DOMAIN Append(s, e) = 1 .. Len(s) + 1
         /\ \A i \in DOMAIN s : Append(s, e)[i] = s[i]
         /\ Append(s, e)[Len(s) + 1] = e
  BY AppendProperties, LenProperties

LEMMA TailAt ==
  ASSUME NEW S, NEW s \in Seq(S), s # <<>>
  PROVE  /\ DOMAIN s = 1 .. Len(s) /\ Len(s) \in Nat /\ 1 \in DOMAIN s /\ s[1] = Head(s)
         /\ DOMAIN Tail(s) = 1 .. Len(s) - 1
         /\ \A i \in DOMAIN Tail(s) : i + 1 \in DOMAIN s /\ Tail(s)[i] = s[i + 1]
<1>1. Len(s) \in Nat /\ DOMAIN s = 1 .. Len(s) /\ Len(s) # 0 /\ s[1] = Head(s)
  BY LenProperties, EmptySeq, HeadTailProperties
<1>2. Tail(s) \in Seq(S) /\ Len(Tail(s)) = Len(s) - 1 /\ \A i \in 1 .. Len(Tail(s)) : Tail(s)[i] = s[i + 1]
  BY HeadTailProperties
<1>3. DOMAIN Tail(s) = 1 .. Len(s) - 1
  BY <1>2, LenProperties
<1> QED
  BY <1>1, <1>2, <1>3

\* What the types say of each entry.
LEMMA Entries ==
  ASSUME GraphInv
  PROVE  /\ DOMAIN queue = 1 .. Len(queue) /\ Len(queue) \in Nat
         /\ DOMAIN reports = 1 .. Len(reports) /\ Len(reports) \in Nat
         /\ \A i \in DOMAIN queue : queue[i].depth \in Nat /\ queue[i].root \in BOOLEAN /\ queue[i] \in Nodes
         /\ \A i \in DOMAIN reports : reports[i].root \in BOOLEAN /\ reports[i].ok \in BOOLEAN /\ reports[i] \in Reports
         /\ cur # Idle => cur.depth \in Nat /\ cur.root \in BOOLEAN
         /\ \A e \in edges : e.parent \in 1 .. Len(reports) + 1 /\ e.depth \in Nat
<1>1. queue \in Seq(Nodes) /\ reports \in Seq(Reports) /\ cur \in Nodes \cup {Idle}
  BY DEF GraphInv, TypeOK
<1>2. \A i \in DOMAIN queue : queue[i] \in Nodes
  BY <1>1, LenProperties, ElementOfSeq
<1>3. \A i \in DOMAIN reports : reports[i] \in Reports
  BY <1>1, LenProperties, ElementOfSeq
<1>4. \A e \in edges : e.parent \in 1 .. Len(reports) + 1 /\ e.depth \in Nat
  BY DEF GraphInv, TypeOK, WorldOK
<1> QED
  BY <1>1, <1>2, <1>3, <1>4, LenProperties DEF Nodes, Reports

\* A node leaves the queue.
LEMMA AnalyzeAt ==
  ASSUME GraphInv, Analyze
  PROVE  /\ cur = Idle /\ 1 \in DOMAIN queue /\ cur' = queue[1] /\ cur' # Idle
         /\ Len(queue') = Len(queue) - 1
         /\ \A i \in DOMAIN queue' : i \in Nat \ {0} /\ i + 1 \in DOMAIN queue /\ queue'[i] = queue[i + 1]
         /\ first_by_sha' = first_by_sha \cup {queue[1].content}
         /\ reports' = reports /\ edges' = edges
<1>1. queue \in Seq(Nodes) /\ queue # <<>> /\ cur = Idle
  BY DEF GraphInv, TypeOK, Analyze
<1>2. /\ cur' = Head(queue) /\ queue' = Tail(queue) /\ reports' = reports /\ edges' = edges
      /\ first_by_sha' = first_by_sha \cup {Head(queue).content}
  BY DEF Analyze
<1>3. queue[1] = Head(queue) /\ Head(queue) \in Nodes
  BY <1>1, TailAt, HeadTailProperties
<1>4. Len(Tail(queue)) = Len(queue) - 1
  BY <1>1, HeadTailProperties
<1>5. \A i \in DOMAIN Tail(queue) : i \in Nat \ {0} /\ i + 1 \in DOMAIN queue /\ Tail(queue)[i] = queue[i + 1]
  BY <1>1, TailAt
<1> QED
  BY <1>1, <1>2, <1>3, <1>4, <1>5, TailAt, IdleIsNoNode

LEMMA AnalyzeFailsAt ==
  ASSUME GraphInv, AnalyzeFails
  PROVE  /\ cur = Idle /\ 1 \in DOMAIN queue /\ cur' = Idle
         /\ Len(queue') = Len(queue) - 1 /\ Len(reports') = Len(reports) + 1
         /\ \A i \in DOMAIN queue' : i \in Nat \ {0} /\ i + 1 \in DOMAIN queue /\ queue'[i] = queue[i + 1]
         /\ DOMAIN reports' = 1 .. Len(reports) + 1
         /\ \A i \in DOMAIN reports : reports'[i] = reports[i]
         /\ reports'[Len(reports) + 1].content = queue[1].content
         /\ reports'[Len(reports) + 1].root = queue[1].root
         /\ reports'[Len(reports) + 1].ok = FALSE
         /\ UNCHANGED <<first_by_sha, edges>>
<1>1. queue \in Seq(Nodes) /\ reports \in Seq(Reports) /\ queue # <<>> /\ cur = Idle
  BY DEF GraphInv, TypeOK, AnalyzeFails
<1>2. /\ queue' = Tail(queue) /\ reports' = Append(reports, Report(Head(queue), FALSE))
      /\ UNCHANGED <<cur, first_by_sha, edges>>
  BY DEF AnalyzeFails, graph
<1>3. queue[1] = Head(queue) /\ Head(queue) \in Nodes /\ 1 \in DOMAIN queue
  BY <1>1, TailAt, HeadTailProperties
<1>4. Len(Tail(queue)) = Len(queue) - 1
  BY <1>1, HeadTailProperties
<1>5. \A i \in DOMAIN Tail(queue) : i \in Nat \ {0} /\ i + 1 \in DOMAIN queue /\ Tail(queue)[i] = queue[i + 1]
  BY <1>1, TailAt
<1>6. Report(Head(queue), FALSE) \in Reports
  BY <1>3 DEF Report, Reports, Nodes
<1>7. /\ DOMAIN reports' = 1 .. Len(reports) + 1
      /\ \A i \in DOMAIN reports : reports'[i] = reports[i]
      /\ reports'[Len(reports) + 1] = Report(Head(queue), FALSE)
  <2>1. PICK e \in Reports : e = Report(Head(queue), FALSE)
    BY <1>6, Zenon
  <2>2. /\ DOMAIN Append(reports, e) = 1 .. Len(reports) + 1
        /\ \A i \in DOMAIN reports : Append(reports, e)[i] = reports[i]
        /\ Append(reports, e)[Len(reports) + 1] = e
    BY <1>1, AppendAt
  <2> QED
    BY <1>1, <1>2, <1>6, <2>1, <2>2, Zenon
<1>8. Len(reports') = Len(reports) + 1
  BY <1>1, <1>2, <1>6, AppendOne
<1> QED
  BY <1>1, <1>2, <1>3, <1>4, <1>5, <1>7, <1>8 DEF Report

LEMMA FinishNodeAt ==
  ASSUME GraphInv, FinishNode
  PROVE  /\ cur # Idle /\ cur' = Idle
         /\ DOMAIN reports' = 1 .. Len(reports) + 1 /\ Len(reports') = Len(reports) + 1
         /\ \A i \in DOMAIN reports : reports'[i] = reports[i]
         /\ reports'[Len(reports) + 1].content = cur.content
         /\ reports'[Len(reports) + 1].root = cur.root
         /\ UNCHANGED <<queue, first_by_sha, edges>>
<1>1. reports \in Seq(Reports) /\ cur \in Nodes /\ cur # Idle
  BY DEF GraphInv, TypeOK, FinishNode
<1>2. reports' = Append(reports, Report(cur, TRUE)) /\ cur' = Idle /\ UNCHANGED <<queue, first_by_sha, edges>>
  BY DEF FinishNode, graph
<1>3. Report(cur, TRUE) \in Reports
  BY <1>1 DEF Report, Reports, Nodes
<1>4. /\ DOMAIN reports' = 1 .. Len(reports) + 1
      /\ \A i \in DOMAIN reports : reports'[i] = reports[i]
      /\ reports'[Len(reports) + 1] = Report(cur, TRUE)
  <2>1. PICK e \in Reports : e = Report(cur, TRUE)
    BY <1>3, Zenon
  <2>2. /\ DOMAIN Append(reports, e) = 1 .. Len(reports) + 1
        /\ \A i \in DOMAIN reports : Append(reports, e)[i] = reports[i]
        /\ Append(reports, e)[Len(reports) + 1] = e
    BY <1>1, AppendAt
  <2> QED
    BY <1>1, <1>2, <1>3, <2>1, <2>2, Zenon
<1>5. Len(reports') = Len(reports) + 1
  BY <1>1, <1>2, <1>3, AppendOne
<1> QED
  BY <1>1, <1>2, <1>4, <1>5 DEF Report

\* An extracted file is handled, and refused or admitted.
LEMMA HandledAt ==
  ASSUME GraphInv, NEW st, Handled(st)
  PROVE  /\ cur # Idle /\ cur' = cur /\ reports' = reports
         /\ edges' = edges \cup {[parent |-> Len(reports) + 1, content |-> Child,
                                  depth |-> cur.depth + 1, state |-> st]}
  BY DEF Handled, ChildDepth

LEMMA RefusedAt ==
  ASSUME GraphInv, todo # <<>>, ChildUnsafe \/ ChildSkipped
  PROVE  /\ UNCHANGED <<queue, first_by_sha, cur, reports>> /\ cur # Idle
         /\ \E st \in EdgeStates \ {"ADMITTED"} :
              /\ st = "SKIPPED_DEPTH" => cur.depth + 1 > MaxDepth
              /\ st = "SKIPPED_NODE_LIMIT" => Len(reports) + Len(queue) + 1 >= MaxNodes
              /\ st \in {"SKIPPED_DEPTH", "SKIPPED_NODE_LIMIT"} => Child \notin first_by_sha
              /\ edges' = edges \cup {[parent |-> Len(reports) + 1, content |-> Child,
                                       depth |-> cur.depth + 1, state |-> st]}
<1>1. CASE ChildUnsafe
  BY <1>1, HandledAt DEF ChildUnsafe, EdgeStates
<1>2. CASE ChildSkipped
  <2>1. Handled(Refusal) /\ UNCHANGED <<queue, first_by_sha>> /\ Refusal # "ADMITTED" /\ Refusal \in EdgeStates
    BY <1>2 DEF ChildSkipped, Refusal, EdgeStates
  <2>2. Refusal = "SKIPPED_DEPTH" => ~Duplicate /\ TooDeep
    BY DEF Refusal
  <2>3. Refusal = "SKIPPED_NODE_LIMIT" => ~Duplicate /\ NoNodeLeft
    BY DEF Refusal
  <2>4. /\ UNCHANGED <<cur, reports>> /\ cur # Idle
        /\ edges' = edges \cup {[parent |-> Len(reports) + 1, content |-> Child,
                                  depth |-> cur.depth + 1, state |-> Refusal]}
    BY <2>1, HandledAt
  <2> QED
    BY <2>1, <2>2, <2>3, <2>4 DEF Duplicate, TooDeep, NoNodeLeft, ChildDepth
<1> QED
  BY <1>1, <1>2

LEMMA AdmittedAt ==
  ASSUME GraphInv, todo # <<>>, ChildAdmitted
  PROVE  /\ UNCHANGED <<cur, reports>> /\ cur # Idle
         /\ Child \notin first_by_sha /\ cur.depth + 1 <= MaxDepth
         /\ Len(reports) + Len(queue) + 1 < MaxNodes
         /\ first_by_sha' = first_by_sha \cup {Child}
         /\ Len(queue') = Len(queue) + 1 /\ DOMAIN queue' = 1 .. Len(queue) + 1
         /\ \A i \in DOMAIN queue : queue'[i] = queue[i]
         /\ queue'[Len(queue) + 1].content = Child
         /\ queue'[Len(queue) + 1].depth = cur.depth + 1
         /\ queue'[Len(queue) + 1].root = FALSE
         /\ edges' = edges \cup {[parent |-> Len(reports) + 1, content |-> Child,
                                  depth |-> cur.depth + 1, state |-> "ADMITTED"]}
<1>1. /\ UNCHANGED <<cur, reports>> /\ cur # Idle
      /\ edges' = edges \cup {[parent |-> Len(reports) + 1, content |-> Child,
                               depth |-> cur.depth + 1, state |-> "ADMITTED"]}
  BY HandledAt DEF ChildAdmitted
<1>2. ~OverBytes /\ ~Duplicate /\ ~TooDeep /\ ~NoNodeLeft
  BY DEF ChildAdmitted, Refusal
<1>3. queue \in Seq(Nodes) /\ cur \in Nodes /\ Child \in Contents
  <2>1. todo \in Seq(Contents) /\ queue \in Seq(Nodes) /\ cur \in Nodes
    BY <1>1 DEF GraphInv, TypeOK
  <2> QED
    BY <2>1, HeadTailProperties DEF Child
<1>4. Node(Child, cur.depth + 1, FALSE) \in Nodes
  BY <1>3 DEF Node, Nodes
<1>5. queue' = Append(queue, Node(Child, cur.depth + 1, FALSE)) /\ first_by_sha' = first_by_sha \cup {Child}
  BY DEF ChildAdmitted, Enqueued, ChildDepth
<1>6. /\ DOMAIN queue' = 1 .. Len(queue) + 1
      /\ \A i \in DOMAIN queue : queue'[i] = queue[i]
      /\ queue'[Len(queue) + 1] = Node(Child, cur.depth + 1, FALSE)
  <2>1. PICK e \in Nodes : e = Node(Child, cur.depth + 1, FALSE)
    BY <1>4, Zenon
  <2>2. /\ DOMAIN Append(queue, e) = 1 .. Len(queue) + 1
        /\ \A i \in DOMAIN queue : Append(queue, e)[i] = queue[i]
        /\ Append(queue, e)[Len(queue) + 1] = e
    BY <1>3, AppendAt
  <2> QED
    BY <1>3, <1>4, <1>5, <2>1, <2>2, Zenon
<1>7. Len(queue') = Len(queue) + 1
  BY <1>3, <1>4, <1>5, AppendOne
<1>8. cur.depth + 1 <= MaxDepth /\ Len(reports) + Len(queue) + 1 < MaxNodes
  BY <1>2, <1>3, Entries, GraphAssumption DEF TooDeep, NoNodeLeft, ChildDepth, Nodes
<1> QED
  BY <1>1, <1>2, <1>5, <1>6, <1>7, <1>8 DEF Duplicate, Node

-----------------------------------------------------------------------------
(* The steps, by what they do to nodes and edges.                          *)

Refusing == todo # <<>> /\ (ChildUnsafe \/ ChildSkipped)

Admitting == todo # <<>> /\ ChildAdmitted

LEMMA StepKinds ==
  ASSUME [Next]_vars
  PROVE  \/ Analyze \/ AnalyzeFails \/ Refusing \/ Admitting \/ FinishNode
         \/ UNCHANGED <<queue, cur, reports, first_by_sha, edges>>
  BY DEF Next, Refusing, Admitting, Finish, Exited, vars, graph

LEMMA KnownStep ==
  ASSUME GraphInv, KnownInv, [Next]_vars
  PROVE  KnownInv'
<1>1. CASE Analyze
  BY <1>1, AnalyzeAt, Entries DEF KnownInv
<1>2. CASE AnalyzeFails
  <2>1. \A i \in DOMAIN reports' : i \in DOMAIN reports \/ i = Len(reports) + 1
    BY <1>2, AnalyzeFailsAt, Entries
  <2>2. \A i \in DOMAIN reports' : reports'[i].ok \/ ~reports'[i].root => reports'[i].content \in first_by_sha'
    BY <1>2, <2>1, AnalyzeFailsAt DEF KnownInv
  <2>3. \A i \in DOMAIN queue' : ~queue'[i].root => queue'[i].content \in first_by_sha'
    BY <1>2, AnalyzeFailsAt DEF KnownInv
  <2>4. cur' = Idle /\ UNCHANGED <<edges, first_by_sha>>
    BY <1>2, AnalyzeFailsAt
  <2> QED
    BY <2>2, <2>3, <2>4 DEF KnownInv
<1>3. CASE Refusing
  BY <1>3, RefusedAt, Entries DEF KnownInv, Refusing
<1>4. CASE Admitting
  BY <1>4, AdmittedAt, Entries DEF KnownInv, Admitting
<1>5. CASE FinishNode
  BY <1>5, FinishNodeAt, Entries DEF KnownInv
<1>6. CASE UNCHANGED <<queue, cur, reports, first_by_sha, edges>>
  BY <1>6 DEF KnownInv
<1> QED
  BY <1>1, <1>2, <1>3, <1>4, <1>5, <1>6, StepKinds

LEMMA AloneStep ==
  ASSUME GraphInv, KnownInv, AloneInv, [Next]_vars
  PROVE  AloneInv'
<1>1. CASE Analyze
  <2>1. \A i, j \in DOMAIN queue' :
           ~queue'[i].root /\ ~queue'[j].root /\ queue'[i].content = queue'[j].content => i = j
    BY <1>1, AnalyzeAt DEF AloneInv
  <2>2. \A i \in DOMAIN queue', j \in DOMAIN reports' :
           ~queue'[i].root /\ ~reports'[j].root => queue'[i].content # reports'[j].content
    BY <1>1, AnalyzeAt DEF AloneInv
  <2>3. \A i \in DOMAIN queue' : ~cur'.root /\ ~queue'[i].root => queue'[i].content # cur'.content
    BY <1>1, AnalyzeAt DEF AloneInv
  <2>4. \A j \in DOMAIN reports' : ~cur'.root /\ ~reports'[j].root => reports'[j].content # cur'.content
    BY <1>1, AnalyzeAt DEF AloneInv
  <2> QED
    BY <2>1, <2>2, <2>3, <2>4 DEF AloneInv
<1>2. CASE AnalyzeFails
  <2>1. \A i, j \in DOMAIN queue' :
           ~queue'[i].root /\ ~queue'[j].root /\ queue'[i].content = queue'[j].content => i = j
    BY <1>2, AnalyzeFailsAt DEF AloneInv
  <2>2. \A i \in DOMAIN queue', j \in DOMAIN reports :
           ~queue'[i].root /\ ~reports'[j].root => queue'[i].content # reports'[j].content
    BY <1>2, AnalyzeFailsAt DEF AloneInv
  <2>3. \A i \in DOMAIN queue' : ~queue'[i].root /\ ~queue[1].root => queue'[i].content # queue[1].content
    BY <1>2, AnalyzeFailsAt DEF AloneInv
  <2>4. \A j \in DOMAIN reports' : j \in DOMAIN reports \/ j = Len(reports) + 1
    BY <1>2, AnalyzeFailsAt, Entries
  <2>5. \A i \in DOMAIN queue', j \in DOMAIN reports' :
           ~queue'[i].root /\ ~reports'[j].root => queue'[i].content # reports'[j].content
    BY <1>2, <2>2, <2>3, <2>4, AnalyzeFailsAt
  <2>6. cur' = Idle
    BY <1>2, AnalyzeFailsAt
  <2> QED
    BY <2>1, <2>5, <2>6 DEF AloneInv
<1>3. CASE Refusing
  BY <1>3, RefusedAt DEF AloneInv, Refusing
<1>4. CASE Admitting
  <2>1. \A i \in DOMAIN queue' : i \in DOMAIN queue \/ i = Len(queue) + 1
    BY <1>4, AdmittedAt, Entries DEF Admitting
  <2>2. /\ UNCHANGED <<cur, reports>> /\ cur # Idle /\ Child \notin first_by_sha
        /\ \A i \in DOMAIN queue : queue'[i] = queue[i]
        /\ queue'[Len(queue) + 1].content = Child
    BY <1>4, AdmittedAt DEF Admitting
  <2>3. /\ \A i \in DOMAIN queue : ~queue[i].root => queue[i].content # Child
        /\ \A i \in DOMAIN reports : ~reports[i].root => reports[i].content # Child
        /\ cur.content # Child
    BY <2>2 DEF KnownInv
  <2>4. \A i, j \in DOMAIN queue' :
           ~queue'[i].root /\ ~queue'[j].root /\ queue'[i].content = queue'[j].content => i = j
    BY <2>1, <2>2, <2>3 DEF AloneInv
  <2>5. \A i \in DOMAIN queue', j \in DOMAIN reports' :
           ~queue'[i].root /\ ~reports'[j].root => queue'[i].content # reports'[j].content
    BY <2>1, <2>2, <2>3 DEF AloneInv
  <2>6. ~cur'.root => /\ \A i \in DOMAIN queue' : ~queue'[i].root => queue'[i].content # cur'.content
                      /\ \A j \in DOMAIN reports' : ~reports'[j].root => reports'[j].content # cur'.content
    BY <2>1, <2>2, <2>3 DEF AloneInv
  <2> QED
    BY <2>4, <2>5, <2>6 DEF AloneInv
<1>5. CASE FinishNode
  BY <1>5, FinishNodeAt, Entries DEF AloneInv
<1>6. CASE UNCHANGED <<queue, cur, reports, first_by_sha, edges>>
  BY <1>6 DEF AloneInv
<1> QED
  BY <1>1, <1>2, <1>3, <1>4, <1>5, <1>6, StepKinds

LEMMA RepeatStep ==
  ASSUME GraphInv, KnownInv, AloneInv, OnlyRootsRepeat, [Next]_vars
  PROVE  OnlyRootsRepeat'
<1>1. CASE Analyze
  BY <1>1, AnalyzeAt DEF OnlyRootsRepeat
<1>2. CASE AnalyzeFails
  <2>1. \A i \in DOMAIN reports' : i \in DOMAIN reports \/ i = Len(reports) + 1
    BY <1>2, AnalyzeFailsAt, Entries
  <2>2. \A j \in DOMAIN reports : ~queue[1].root /\ ~reports[j].root => queue[1].content # reports[j].content
    BY <1>2, AnalyzeFailsAt DEF AloneInv
  <2>3. \A i, j \in DOMAIN reports' :
           i # j /\ reports'[i].content = reports'[j].content => reports'[i].root \/ reports'[j].root
    BY <1>2, <2>1, <2>2, AnalyzeFailsAt, Entries DEF OnlyRootsRepeat
  <2>4. \A e \in edges', i \in DOMAIN reports' :
           e.state = "ADMITTED" /\ i < e.parent /\ reports'[i].ok => e.content # reports'[i].content
    BY <1>2, <2>1, AnalyzeFailsAt, Entries DEF OnlyRootsRepeat
  <2> QED
    BY <2>3, <2>4 DEF OnlyRootsRepeat
<1>3. CASE Refusing
  BY <1>3, RefusedAt, Entries DEF OnlyRootsRepeat, Refusing
<1>4. CASE Admitting
  BY <1>4, AdmittedAt, Entries DEF OnlyRootsRepeat, KnownInv, Admitting
<1>5. CASE FinishNode
  BY <1>5, FinishNodeAt, Entries DEF OnlyRootsRepeat, AloneInv
<1>6. CASE UNCHANGED <<queue, cur, reports, first_by_sha, edges>>
  BY <1>6 DEF OnlyRootsRepeat
<1> QED
  BY <1>1, <1>2, <1>3, <1>4, <1>5, <1>6, StepKinds

LEMMA DepthStep ==
  ASSUME GraphInv, DepthInv, [Next]_vars
  PROVE  DepthInv'
<1>1. CASE Analyze
  <2>1. \A i, j \in DOMAIN queue' : i <= j => queue'[i].depth <= queue'[j].depth
    BY <1>1, AnalyzeAt DEF DepthInv
  <2>2. \A i, j \in DOMAIN queue' : queue'[j].depth <= queue'[i].depth + 1
    BY <1>1, AnalyzeAt DEF DepthInv
  <2>3. \A i \in DOMAIN queue' : queue'[i].depth \in {cur'.depth, cur'.depth + 1}
    <3> SUFFICES ASSUME NEW i \in DOMAIN queue' PROVE queue'[i].depth \in {cur'.depth, cur'.depth + 1}
      OBVIOUS
    <3>1. /\ queue'[i] = queue[i + 1] /\ cur' = queue[1] /\ i \in Nat \ {0}
          /\ i + 1 \in DOMAIN queue /\ 1 \in DOMAIN queue
      BY <1>1, AnalyzeAt
    <3>2. queue[i + 1].depth \in Nat /\ queue[1].depth \in Nat
      BY <3>1, Entries
    <3>3. queue[1].depth <= queue[i + 1].depth /\ queue[i + 1].depth <= queue[1].depth + 1
      BY <3>1 DEF DepthInv
    <3> QED
      BY <3>1, <3>2, <3>3
  <2> QED
    BY <2>1, <2>2, <2>3 DEF DepthInv
<1>2. CASE AnalyzeFails
  <2>1. \A i, j \in DOMAIN queue' : i <= j => queue'[i].depth <= queue'[j].depth
    BY <1>2, AnalyzeFailsAt DEF DepthInv
  <2>2. \A i, j \in DOMAIN queue' : queue'[j].depth <= queue'[i].depth + 1
    BY <1>2, AnalyzeFailsAt DEF DepthInv
  <2> QED
    BY <1>2, <2>1, <2>2, AnalyzeFailsAt DEF DepthInv
<1>3. CASE Refusing
  BY <1>3, RefusedAt DEF DepthInv, Refusing
<1>4. CASE Admitting
  <2>1. \A i \in DOMAIN queue' : i \in DOMAIN queue \/ i = Len(queue) + 1
    BY <1>4, AdmittedAt, Entries DEF Admitting
  <2>2. \A i \in DOMAIN queue : i <= Len(queue) /\ ~(Len(queue) + 1 <= i)
    BY Entries
  <2>3. /\ cur' = cur /\ cur # Idle /\ cur.depth \in Nat
        /\ \A i \in DOMAIN queue : queue'[i] = queue[i]
        /\ queue'[Len(queue) + 1].depth = cur.depth + 1
    BY <1>4, AdmittedAt, Entries DEF Admitting
  <2>4. \A i \in DOMAIN queue' : queue'[i].depth \in {cur.depth, cur.depth + 1}
    BY <2>1, <2>3 DEF DepthInv
  <2>5. \A i, j \in DOMAIN queue' : queue'[j].depth <= queue'[i].depth + 1
    BY <2>3, <2>4
  <2>6. \A i, j \in DOMAIN queue' : i <= j => queue'[i].depth <= queue'[j].depth
    <3> SUFFICES ASSUME NEW i \in DOMAIN queue', NEW j \in DOMAIN queue', i <= j
                 PROVE  queue'[i].depth <= queue'[j].depth
      OBVIOUS
    <3>1. CASE j = Len(queue) + 1
      BY <2>3, <2>4, <3>1
    <3>2. CASE j \in DOMAIN queue
      BY <2>1, <2>2, <2>3, <3>2 DEF DepthInv
    <3> QED
      BY <2>1, <3>1, <3>2
  <2> QED
    BY <2>3, <2>4, <2>5, <2>6 DEF DepthInv
<1>5. CASE FinishNode
  BY <1>5, FinishNodeAt, Entries DEF DepthInv
<1>6. CASE UNCHANGED <<queue, cur, reports, first_by_sha, edges>>
  BY <1>6 DEF DepthInv
<1> QED
  BY <1>1, <1>2, <1>3, <1>4, <1>5, <1>6, StepKinds

LEMMA RefusedStep ==
  ASSUME GraphInv, DepthInv, RefusedInv, [Next]_vars
  PROVE  RefusedInv'
<1> USE GraphAssumption
<1>1. CASE Analyze
  BY <1>1, AnalyzeAt, Entries DEF RefusedInv, Refused
<1>2. CASE AnalyzeFails
  BY <1>2, AnalyzeFailsAt, Entries DEF RefusedInv, Refused
<1>3. CASE Refusing
  <2>1. PICK st \in EdgeStates :
              /\ st = "SKIPPED_DEPTH" => cur.depth + 1 > MaxDepth
              /\ st = "SKIPPED_NODE_LIMIT" => Len(reports) + Len(queue) + 1 >= MaxNodes
              /\ edges' = edges \cup {[parent |-> Len(reports) + 1, content |-> Child,
                                       depth |-> cur.depth + 1, state |-> st]}
    BY <1>3, RefusedAt DEF Refusing
  <2>2. UNCHANGED <<queue, cur, reports>> /\ cur # Idle
    BY <1>3, RefusedAt DEF Refusing
  <2>3. st = "SKIPPED_DEPTH" => cur.depth >= MaxDepth
    BY <2>1, <2>2, Entries
  <2>4. st = "SKIPPED_DEPTH" => \A i \in DOMAIN queue : queue[i].depth >= MaxDepth
    <3>1. \A i \in DOMAIN queue : queue[i].depth \in {cur.depth, cur.depth + 1}
      BY <2>2 DEF DepthInv
    <3>2. cur.depth \in Nat
      BY <2>2, Entries
    <3> QED
      BY <2>3, <3>1, <3>2
  <2>5. Refused("SKIPPED_DEPTH")' => Refused("SKIPPED_DEPTH") \/ st = "SKIPPED_DEPTH"
    BY <2>1 DEF Refused
  <2>6. Refused("SKIPPED_NODE_LIMIT")' => Refused("SKIPPED_NODE_LIMIT") \/ st = "SKIPPED_NODE_LIMIT"
    BY <2>1 DEF Refused
  <2> QED
    BY <2>1, <2>2, <2>3, <2>4, <2>5, <2>6 DEF RefusedInv
<1>4. CASE Admitting
  BY <1>4, AdmittedAt, Entries DEF RefusedInv, Refused, Admitting
<1>5. CASE FinishNode
  BY <1>5, FinishNodeAt, Entries DEF RefusedInv, Refused
<1>6. CASE UNCHANGED <<queue, cur, reports, first_by_sha, edges>>
  BY <1>6 DEF RefusedInv, Refused
<1> QED
  BY <1>1, <1>2, <1>3, <1>4, <1>5, <1>6, StepKinds

LEMMA FinalStep ==
  ASSUME GraphInv, KnownInv, RefusedInv, RefusalIsFinal, [Next]_vars
  PROVE  RefusalIsFinal'
<1> USE GraphAssumption
<1>1. CASE Analyze
  BY <1>1, AnalyzeAt DEF RefusalIsFinal
<1>2. CASE AnalyzeFails
  BY <1>2, AnalyzeFailsAt DEF RefusalIsFinal
<1>3. CASE Refusing
  BY <1>3, RefusedAt, Entries DEF RefusalIsFinal, KnownInv, Refusing
<1>4. CASE Admitting
  BY <1>4, AdmittedAt, Entries DEF RefusalIsFinal, RefusedInv, Refused, Admitting
<1>5. CASE FinishNode
  BY <1>5, FinishNodeAt DEF RefusalIsFinal
<1>6. CASE UNCHANGED <<queue, cur, reports, first_by_sha, edges>>
  BY <1>6 DEF RefusalIsFinal
<1> QED
  BY <1>1, <1>2, <1>3, <1>4, <1>5, <1>6, StepKinds

LEMMA OrderInit == Init => OrderInv
<1> SUFFICES ASSUME Init PROVE OrderInv
  OBVIOUS
<1>1. reports = <<>> /\ edges = {} /\ cur = Idle
  BY DEF Init
<1>2. GraphInv
  BY InitInv
<1>3. PICK k \in Nat : queue = [i \in 1 .. k |-> Node(roots[i], 0, TRUE)]
  <2>1. roots \in Seq(Contents)
    BY GraphAssumption DEF Init
  <2> QED
    BY <2>1, LenProperties, GraphAssumption DEF Init
<1>4. \A i \in DOMAIN queue : queue[i].root = TRUE /\ queue[i].depth = 0
  BY <1>3 DEF Node
<1>5. DOMAIN reports = {}
  BY <1>1, <1>2, Entries, EmptySeq
<1>6. KnownInv /\ AloneInv /\ OnlyRootsRepeat /\ DepthInv
  BY <1>1, <1>4, <1>5 DEF KnownInv, AloneInv, OnlyRootsRepeat, DepthInv
<1>7. RefusedInv /\ RefusalIsFinal
  BY <1>1 DEF RefusedInv, Refused, RefusalIsFinal
<1> QED
  BY <1>6, <1>7 DEF OrderInv

LEMMA OrderStep == GraphInv /\ OrderInv /\ [Next]_vars => OrderInv'
  BY KnownStep, AloneStep, RepeatStep, DepthStep, RefusedStep, FinalStep DEF OrderInv

\* For all containers, also those that contain themselves or each other, of two
\* analyses of one content at least one is of a given file, and what was
\* analysed before is not admitted again (main.cpp: first_by_sha).
THEOREM CyclesAreCut == Spec => []OnlyRootsRepeat
<1>1. Spec => []OrderInv
  BY OrderInit, OrderStep, GraphInvariant, PTL DEF Spec
<1> QED
  BY <1>1, PTL DEF OrderInv

\* For all containers and limits, no content is refused for its depth or for
\* want of a node and admitted elsewhere: the queue is breadth first and slots
\* are only taken.
THEOREM RefusalsAreFinal == Spec => []RefusalIsFinal
<1>1. Spec => []OrderInv
  BY OrderInit, OrderStep, GraphInvariant, PTL DEF Spec
<1> QED
  BY <1>1, PTL DEF OrderInv

-----------------------------------------------------------------------------
(* Completeness                                                            *)

LEMMA TailCovers ==
  ASSUME NEW S, NEW s \in Seq(S), s # <<>>
  PROVE  /\ \A i \in DOMAIN s : i = 1 \/ (i - 1 \in DOMAIN Tail(s) /\ Tail(s)[i - 1] = s[i])
         /\ ToSet(s) \subseteq {Head(s)} \cup ToSet(Tail(s))
<1>1. \A i \in DOMAIN s : i = 1 \/ (i - 1 \in DOMAIN Tail(s) /\ Tail(s)[i - 1] = s[i])
  <2> SUFFICES ASSUME NEW i \in DOMAIN s, i # 1
               PROVE  i - 1 \in DOMAIN Tail(s) /\ Tail(s)[i - 1] = s[i]
    OBVIOUS
  <2>1. i - 1 \in DOMAIN Tail(s) /\ (i - 1) + 1 = i
    BY TailAt
  <2>2. Tail(s)[i - 1] = s[(i - 1) + 1]
    BY <2>1, TailAt
  <2> QED
    BY <2>1, <2>2
<1>2. s[1] = Head(s)
  BY TailAt
<1> QED
  BY <1>1, <1>2 DEF ToSet

\* What the invariant says once nothing was truncated.
LEMMA Untruncated ==
  ASSUME TodoInv, ~truncated, Unsafe = {}
  PROVE  /\ ToSet(roots) \cup first_by_sha \subseteq Analysed \cup Waiting \cup Current
         /\ reached \subseteq first_by_sha \cup ToSet(todo)
  BY DEF TodoInv

LEMMA WaitingShrinks ==
  ASSUME GraphInv, queue # <<>>, queue' = Tail(queue)
  PROVE  Waiting \subseteq Waiting' \cup {Head(queue).content}
<1>1. queue \in Seq(Nodes)
  BY DEF GraphInv, TypeOK
<1>2. \A i \in DOMAIN queue : i = 1 \/ (i - 1 \in DOMAIN queue' /\ queue'[i - 1] = queue[i])
  BY <1>1, TailCovers
<1>3. queue[1] = Head(queue)
  BY <1>1, TailAt
<1> QED
  BY <1>2, <1>3 DEF Waiting

LEMMA ReportsGrow ==
  ASSUME GraphInv, NEW r \in Reports, reports' = Append(reports, r)
  PROVE  /\ Analysed \cup {r.content} \subseteq Analysed'
         /\ \A i \in DOMAIN reports' : reports'[i] = r \/ (i \in DOMAIN reports /\ reports'[i] = reports[i])
<1>1. reports \in Seq(Reports)
  BY DEF GraphInv, TypeOK
<1>2. /\ DOMAIN reports = 1 .. Len(reports) /\ Len(reports) \in Nat
      /\ DOMAIN Append(reports, r) = 1 .. Len(reports) + 1
      /\ \A i \in DOMAIN reports : Append(reports, r)[i] = reports[i]
      /\ Append(reports, r)[Len(reports) + 1] = r
  BY <1>1, AppendAt
<1>3. /\ DOMAIN reports' = 1 .. Len(reports) + 1
      /\ \A i \in DOMAIN reports : reports'[i] = reports[i]
      /\ reports'[Len(reports) + 1] = r
  BY <1>2, Zenon
<1>4. Len(reports) + 1 \in DOMAIN reports' /\ DOMAIN reports \subseteq DOMAIN reports'
  BY <1>2, <1>3
<1>5. \A i \in DOMAIN reports' : i \in DOMAIN reports \/ i = Len(reports) + 1
  BY <1>2, <1>3
<1> QED
  BY <1>3, <1>4, <1>5 DEF Analysed

LEMMA TodoInit == Init => TodoInv
<1> SUFFICES ASSUME Init PROVE TodoInv
  OBVIOUS
<1>1. first_by_sha = {} /\ reached = {} /\ exit = "none"
  BY DEF Init
<1>2. ~truncated => ToSet(roots) \subseteq Waiting
  <2>1. roots \in Seq(Contents) /\ DOMAIN roots = 1 .. Len(roots) /\ Len(roots) \in Nat
    BY GraphAssumption, LenProperties DEF Init
  <2>2. ~truncated => queue = [i \in 1 .. Len(roots) |-> Node(roots[i], 0, TRUE)]
    <3>1. ~truncated => ~(Len(roots) > MaxNodes)
      BY Zenon DEF Init
    <3>2. ~truncated => Len(roots) <= MaxNodes
      BY <2>1, <3>1, GraphAssumption
    <3> QED
      BY <3>2, Zenon DEF Init
  <2> QED
    BY <2>1, <2>2 DEF Waiting, ToSet, Node
<1> QED
  BY <1>1, <1>2 DEF TodoInv

LEMMA TodoAnalyze ==
  ASSUME GraphInv, TodoInv, Analyze
  PROVE  TodoInv'
<1> DEFINE n == Head(queue)
<1>1. exit = "none" /\ cur = Idle /\ queue # <<>> /\ exit' = exit
  BY DEF Analyze
<1>a. PICK m \in MembersOf(n.content) : \E r \in ComesTo(n, m) : \E s \in Extracted(n, r) :
         /\ reached' = reached \cup ToSet(r)
         /\ cur' = n /\ queue' = Tail(queue) /\ todo' = s
         /\ first_by_sha' = first_by_sha \cup {n.content}
         /\ truncated' = (truncated \/ NotesTruncation(n, r, s))
  BY Zenon DEF Analyze
<1>b. PICK r \in ComesTo(n, m) : \E s \in Extracted(n, r) :
         /\ reached' = reached \cup ToSet(r)
         /\ cur' = n /\ queue' = Tail(queue) /\ todo' = s
         /\ first_by_sha' = first_by_sha \cup {n.content}
         /\ truncated' = (truncated \/ NotesTruncation(n, r, s))
  BY <1>a, Zenon
<1>2. PICK s \in Extracted(n, r) :
         /\ reached' = reached \cup ToSet(r)
         /\ cur' = n /\ queue' = Tail(queue) /\ todo' = s
         /\ first_by_sha' = first_by_sha \cup {n.content}
         /\ truncated' = (truncated \/ NotesTruncation(n, r, s))
  BY <1>b, Zenon
<1>3. UNCHANGED <<roots, reports, edges>>
  BY DEF Analyze
<1>4. n \in Nodes /\ n # Idle /\ todo = <<>>
  BY <1>1, HeadTailProperties, IdleIsNoNode DEF GraphInv, TypeOK, WorldOK
<1>5. ~NotesTruncation(n, r, s) => s = r
  BY Zenon DEF NotesTruncation
<1>6. Waiting \subseteq Waiting' \cup Current'
  BY <1>1, <1>2, <1>4, WaitingShrinks DEF Current
<1>7. n.content \in Current' /\ Analysed' = Analysed /\ Current = {} /\ Unsafe' = Unsafe
  BY <1>1, <1>2, <1>3, <1>4 DEF Current, Analysed, Unsafe
<1>8. ASSUME ~truncated', Unsafe' = {}
      PROVE  /\ ToSet(roots') \cup first_by_sha' \subseteq Analysed' \cup Waiting' \cup Current'
             /\ reached' \subseteq first_by_sha' \cup ToSet(todo')
  <2>1. ~truncated /\ Unsafe = {} /\ ~NotesTruncation(n, r, s)
    BY <1>2, <1>7, <1>8
  <2>2. ToSet(roots) \cup first_by_sha \subseteq Analysed' \cup Waiting' \cup Current'
    BY <2>1, <1>6, <1>7, Untruncated
  <2>3. ToSet(todo) = {}
    BY <1>4 DEF ToSet
  <2>4. reached \subseteq first_by_sha
    BY <2>1, <2>3, Untruncated
  <2> QED
    BY <2>1, <2>2, <2>4, <1>2, <1>3, <1>5, <1>7
<1> QED
  BY <1>1, <1>8 DEF TodoInv

LEMMA TodoFails ==
  ASSUME GraphInv, TodoInv, AnalyzeFails
  PROVE  TodoInv'
<1>1. exit = "none" /\ cur = Idle /\ queue # <<>> /\ queue' = Tail(queue)
  BY DEF AnalyzeFails
<1>2. UNCHANGED <<roots, reached, cur, todo, first_by_sha, truncated, edges, exit>>
  BY DEF AnalyzeFails, world, graph
<1>3. Head(queue) \in Nodes
  BY <1>1, HeadTailProperties DEF GraphInv, TypeOK
<1>4. Analysed \cup {Head(queue).content} \subseteq Analysed'
  <2>1. Report(Head(queue), FALSE) \in Reports /\ Report(Head(queue), FALSE).content = Head(queue).content
    BY <1>3 DEF Report, Reports, Nodes
  <2>2. reports' = Append(reports, Report(Head(queue), FALSE))
    BY DEF AnalyzeFails
  <2> QED
    BY <2>1, <2>2, ReportsGrow
<1>5. Waiting \subseteq Waiting' \cup {Head(queue).content} /\ Current = {} /\ Unsafe' = Unsafe
  BY <1>1, <1>2, WaitingShrinks DEF Current, Unsafe
<1>6. ASSUME ~truncated', Unsafe' = {}
      PROVE  /\ ToSet(roots') \cup first_by_sha' \subseteq Analysed' \cup Waiting'
             /\ reached' \subseteq first_by_sha' \cup ToSet(todo')
  <2>1. ~truncated /\ Unsafe = {}
    BY <1>2, <1>5, <1>6
  <2> QED
    BY <2>1, <1>2, <1>4, <1>5, Untruncated
<1> QED
  BY <1>1, <1>2, <1>6 DEF TodoInv

LEMMA TodoFinishNode ==
  ASSUME GraphInv, TodoInv, FinishNode
  PROVE  TodoInv'
<1>1. cur # Idle /\ cur' = Idle /\ todo = <<>> /\ cur \in Nodes
  BY DEF FinishNode, GraphInv, TypeOK
<1>2. UNCHANGED <<roots, reached, queue, todo, first_by_sha, truncated, edges, exit>>
  BY DEF FinishNode, world, graph
<1>3. Analysed \cup {cur.content} \subseteq Analysed'
  <2>1. Report(cur, TRUE) \in Reports /\ Report(cur, TRUE).content = cur.content
    BY <1>1 DEF Report, Reports, Nodes
  <2>2. reports' = Append(reports, Report(cur, TRUE))
    BY DEF FinishNode
  <2> QED
    BY <2>1, <2>2, ReportsGrow
<1>4. Waiting' = Waiting /\ Current = {cur.content} /\ Unsafe' = Unsafe /\ exit' = "none"
  BY <1>1, <1>2 DEF Current, Waiting, Unsafe, TodoInv
<1>5. ASSUME ~truncated', Unsafe' = {}
      PROVE  /\ ToSet(roots') \cup first_by_sha' \subseteq Analysed' \cup Waiting'
             /\ reached' \subseteq first_by_sha' \cup ToSet(todo')
  <2>1. ~truncated /\ Unsafe = {}
    BY <1>2, <1>4, <1>5
  <2> QED
    BY <2>1, <1>2, <1>3, <1>4, Untruncated
<1> QED
  BY <1>1, <1>4, <1>5 DEF TodoInv

\* Of the files of a node, a copy is known, an admitted one waits.
LEMMA TodoHandled ==
  ASSUME GraphInv, TodoInv, Refusing \/ Admitting
  PROVE  TodoInv'
<1>1. PICK st : Handled(st) /\ (Refusing => st # "ADMITTED" /\ (ChildUnsafe => st = "SKIPPED_UNSAFE"))
  BY DEF Refusing, Admitting, ChildUnsafe, ChildSkipped, ChildAdmitted
<1>2. /\ UNCHANGED <<roots, reached, cur, reports, exit>>
      /\ cur # Idle /\ todo # <<>> /\ todo' = Tail(todo) /\ edges \subseteq edges'
  BY <1>1 DEF Handled, world
<1>3. todo \in Seq(Contents)
  BY DEF GraphInv, TypeOK
<1>4. ToSet(todo) \subseteq {Child} \cup ToSet(todo')
  BY <1>2, <1>3, TailCovers DEF Child
<1>5. Unsafe \subseteq Unsafe' /\ Analysed' = Analysed /\ Current' = Current
  BY <1>2 DEF Unsafe, Analysed, Current
<1>6. exit' = "none"
  BY <1>2 DEF TodoInv
<1>7. ASSUME ~truncated', Unsafe' = {}
      PROVE  /\ ~truncated /\ Unsafe = {}
             /\ first_by_sha' = first_by_sha \cup {Child}
             /\ first_by_sha' \subseteq first_by_sha \cup Waiting' /\ Waiting \subseteq Waiting'
  <2>1. Unsafe = {}
    BY <1>5, <1>7
  <2>2. CASE Admitting
    <3>1. truncated' = truncated
      BY <2>2 DEF Admitting, ChildAdmitted
    <3>2. /\ first_by_sha' = first_by_sha \cup {Child}
          /\ DOMAIN queue' = 1 .. Len(queue) + 1 /\ DOMAIN queue = 1 .. Len(queue) /\ Len(queue) \in Nat
          /\ \A i \in DOMAIN queue : queue'[i] = queue[i]
          /\ queue'[Len(queue) + 1].content = Child
      BY <2>2, AdmittedAt, Entries DEF Admitting
    <3>3. Len(queue) + 1 \in DOMAIN queue' /\ DOMAIN queue \subseteq DOMAIN queue'
      BY <3>2
    <3>4. Child \in Waiting'
      BY <3>2, <3>3 DEF Waiting
    <3>5. Waiting \subseteq Waiting'
      BY <3>2, <3>3 DEF Waiting
    <3> QED
      BY <1>7, <2>1, <3>1, <3>2, <3>4, <3>5
  <2>3. CASE Refusing
    <3>1. ~ChildUnsafe
      <4>1. ASSUME ChildUnsafe PROVE FALSE
        <5>1. [parent |-> Len(reports) + 1, content |-> Child, depth |-> ChildDepth, state |-> "SKIPPED_UNSAFE"] \in edges'
          BY <4>1 DEF ChildUnsafe, Handled
        <5> QED
          BY <5>1, <1>7 DEF Unsafe
      <4> QED
        BY <4>1
    <3>2. ChildSkipped
      BY <2>3, <3>1 DEF Refusing
    <3>3. ~truncated /\ Refusal = "DUPLICATE_SKIPPED"
      BY <1>7, <3>2, Zenon DEF ChildSkipped
    <3>4. Child \in first_by_sha
      BY <3>3 DEF Refusal, Duplicate
    <3>5. UNCHANGED <<queue, first_by_sha>>
      BY <3>2 DEF ChildSkipped
    <3> QED
      BY <2>1, <3>3, <3>4, <3>5 DEF Waiting
  <2> QED
    BY <2>2, <2>3
<1>8. ASSUME ~truncated', Unsafe' = {}
      PROVE  /\ ToSet(roots') \cup first_by_sha' \subseteq Analysed' \cup Waiting' \cup Current'
             /\ reached' \subseteq first_by_sha' \cup ToSet(todo')
  <2>1. /\ ToSet(roots) \cup first_by_sha \subseteq Analysed \cup Waiting \cup Current
        /\ reached \subseteq first_by_sha \cup ToSet(todo)
    BY <1>7, <1>8, Untruncated
  <2> QED
    BY <1>2, <1>4, <1>5, <1>7, <1>8, <2>1
<1> QED
  BY <1>6, <1>8 DEF TodoInv

LEMMA TodoStep == GraphInv /\ TodoInv /\ [Next]_vars => TodoInv'
<1> SUFFICES ASSUME GraphInv, TodoInv, [Next]_vars PROVE TodoInv'
  OBVIOUS
<1>1. CASE Finish
  <2>1. cur = Idle /\ queue = <<>> /\ UNCHANGED <<world, queue, cur, todo, reports, first_by_sha, graph>>
    BY <1>1 DEF Finish
  <2> QED
    BY <2>1 DEF TodoInv, world, graph, Analysed, Waiting, Current, Unsafe
<1>2. CASE UNCHANGED vars
  BY <1>2 DEF vars, world, graph, TodoInv, Analysed, Waiting, Current, Unsafe
<1>3. CASE Refusing \/ Admitting
  BY <1>3, TodoHandled
<1> QED
  BY <1>1, <1>2, <1>3, TodoAnalyze, TodoFails, TodoFinishNode DEF Next, Exited, Refusing, Admitting

\* For all containers, extractors and limits: in a graph that is neither PARTIAL
\* nor has unsafe files, every given file was analysed and every member that an
\* extractor came to, whatever the budgets were.  Members that extractors pass
\* over for another reason are left out of such a graph too.
THEOREM CutsAreReported == Spec => []CutsAreTold
<1>1. Spec => []TodoInv
  BY TodoInit, TodoStep, GraphInvariant, PTL DEF Spec
<1>2. GraphInv /\ TodoInv => CutsAreTold
  <2> SUFFICES ASSUME GraphInv, TodoInv, exit = "Success", ~truncated, Unsafe = {}
               PROVE  ToSet(roots) \cup reached \subseteq Analysed
    BY DEF CutsAreTold, Analysed
  <2>1. queue = <<>> /\ cur = Idle /\ todo = <<>>
    BY DEF TodoInv, GraphInv, WorldOK
  <2>2. Waiting = {} /\ Current = {} /\ ToSet(todo) = {}
    BY <2>1 DEF Waiting, Current, ToSet
  <2> QED
    BY <2>2, Untruncated
<1> QED
  BY <1>1, <1>2, GraphInvariant, PTL

-----------------------------------------------------------------------------
(* The allowance.  A total of bytes is the size of the first file and the   *)
(* total of the others; that totals are finite is shown with the least      *)
(* length of a list whose cells would not be.                               *)

\* A set of numbers has a least one.
LEMMA LeastNumber ==
  ASSUME NEW T \in SUBSET Nat, T # {}
  PROVE  \E n \in T : \A m \in T : ~ (m < n)
<1>1. \E n \in T : \A m \in T : ~ (<<m, n>> \in OpToRel(<, Nat))
  BY NatLessThanWellFounded, WFMin
<1>2. \A m, n \in Nat : <<m, n>> \in OpToRel(<, Nat) <=> m < n
  BY DEF OpToRel
<1> QED BY <1>1, <1>2

\* As many bytes as the size says.
LEMMA FirstCells ==
  ASSUME NEW n \in Nat
  PROVE  IsFiniteSet({1} \X (1 .. n)) /\ Cardinality({1} \X (1 .. n)) = n
<1>1. IsFiniteSet({1}) /\ Cardinality({1}) = 1
  BY FS_Singleton
<1>2. /\ IsFiniteSet(1 .. n)
      /\ Cardinality(1 .. n) = IF 1 > n THEN 0 ELSE n - 1 + 1
  BY FS_Interval
<1>3. Cardinality(1 .. n) = n
  BY <1>2
<1>4. /\ IsFiniteSet({1} \X (1 .. n))
      /\ Cardinality({1} \X (1 .. n)) = Cardinality({1}) * Cardinality(1 .. n)
  BY <1>1, <1>2, FS_Product
<1> QED BY <1>1, <1>3, <1>4

\* The cells of a list, those of its first file apart.
Shifted(t) == {<<c[1] + 1, c[2]>> : c \in Cells(t)}

\* The first file apart, the cells of the others are those of the tail, one file on.
LEMMA CellsSplit ==
  ASSUME NEW s \in Seq(Contents), s # <<>>
  PROVE  /\ Cells(s) = ({1} \X (1 .. SizeOf[Head(s)])) \cup Shifted(Tail(s))
         /\ ({1} \X (1 .. SizeOf[Head(s)])) \cap Shifted(Tail(s)) = {}
         /\ ExistsBijection(Cells(Tail(s)), Shifted(Tail(s)))
<1>0. DEFINE t == Tail(s)
             n == Len(s) - 1
<1>1. /\ Len(s) \in Nat /\ DOMAIN s = 1 .. Len(s) /\ 1 \in DOMAIN s /\ s[1] = Head(s)
      /\ DOMAIN t = 1 .. n /\ \A i \in DOMAIN t : i + 1 \in DOMAIN s /\ t[i] = s[i + 1]
  BY TailAt
<1> HIDE DEF t
<1>2. n \in Nat /\ DOMAIN s = 1 .. n + 1
  BY <1>1
<1> HIDE DEF n
<1>3. \A c : c \in Cells(t) <=> \E i \in 1 .. n : \E k \in 1 .. SizeOf[t[i]] : c = <<i, k>>
  BY <1>1 DEF Cells
<1>4. \A c : c \in Cells(s) <=> \E i \in 1 .. n + 1 : \E k \in 1 .. SizeOf[s[i]] : c = <<i, k>>
  BY <1>2 DEF Cells
<1>5. \A c : c \in Shifted(t) <=> \E i \in 1 .. n : \E k \in 1 .. SizeOf[s[i + 1]] : c = <<i + 1, k>>
  <2>1. ASSUME NEW c \in Shifted(t) PROVE \E i \in 1 .. n : \E k \in 1 .. SizeOf[s[i + 1]] : c = <<i + 1, k>>
    <3>1. PICK d \in Cells(t) : c = <<d[1] + 1, d[2]>>
      BY DEF Shifted
    <3>2. PICK i \in 1 .. n : \E k \in 1 .. SizeOf[t[i]] : d = <<i, k>>
      BY <1>3
    <3>3. PICK k \in 1 .. SizeOf[t[i]] : d = <<i, k>>
      BY <3>2
    <3>4. t[i] = s[i + 1]
      BY <1>1
    <3>5. c = <<i + 1, k>>
      BY <3>1, <3>3
    <3> QED BY <3>3, <3>4, <3>5
  <2>2. ASSUME NEW i \in 1 .. n, NEW k \in 1 .. SizeOf[s[i + 1]] PROVE <<i + 1, k>> \in Shifted(t)
    <3>1. t[i] = s[i + 1]
      BY <1>1
    <3>2. <<i, k>> \in Cells(t)
      BY <1>3, <3>1
    <3> QED BY <3>2 DEF Shifted
  <2> QED BY <2>1, <2>2
<1>6. Cells(s) = ({1} \X (1 .. SizeOf[Head(s)])) \cup Shifted(t)
  <2>1. ASSUME NEW c \in Cells(s) PROVE c \in ({1} \X (1 .. SizeOf[Head(s)])) \cup Shifted(t)
    <3>1. PICK i \in 1 .. n + 1 : \E k \in 1 .. SizeOf[s[i]] : c = <<i, k>>
      BY <1>4
    <3>2. PICK k \in 1 .. SizeOf[s[i]] : c = <<i, k>>
      BY <3>1
    <3>3. CASE i = 1
      BY <1>1, <3>2, <3>3
    <3>4. CASE i # 1
      <4>1. i - 1 \in 1 .. n /\ (i - 1) + 1 = i
        BY <1>2, <3>4
      <4> QED BY <1>5, <3>2, <4>1
    <3> QED BY <3>3, <3>4
  <2>2. ASSUME NEW c \in Shifted(t) PROVE c \in Cells(s)
    <3>1. PICK i \in 1 .. n : \E k \in 1 .. SizeOf[s[i + 1]] : c = <<i + 1, k>>
      BY <1>5
    <3>2. i + 1 \in 1 .. n + 1
      BY <1>2
    <3> QED BY <1>4, <3>1, <3>2
  <2>3. ASSUME NEW c \in {1} \X (1 .. SizeOf[Head(s)]) PROVE c \in Cells(s)
    <3>1. 1 \in 1 .. n + 1
      BY <1>2
    <3>2. PICK k \in 1 .. SizeOf[s[1]] : c = <<1, k>>
      BY <1>1
    <3> QED BY <1>4, <3>1, <3>2
  <2> QED BY <2>1, <2>2, <2>3
<1>7. ({1} \X (1 .. SizeOf[Head(s)])) \cap Shifted(t) = {}
  BY <1>2, <1>5
<1>8. ExistsBijection(Cells(t), Shifted(t))
  <2> DEFINE f == [c \in Cells(t) |-> <<c[1] + 1, c[2]>>]
  <2>1. f \in [Cells(t) -> Shifted(t)]
    BY DEF Shifted
  <2>2. \A c \in Cells(t) : c[1] \in Int /\ c = <<c[1], c[2]>>
    BY <1>2, <1>3
  <2>3. IsInjective(f)
    BY <2>2 DEF IsInjective
  <2>4. \A d \in Shifted(t) : \E c \in Cells(t) : f[c] = d
    BY DEF Shifted
  <2>5. f \in Bijection(Cells(t), Shifted(t))
    BY <2>1, <2>3, <2>4 DEF Bijection, Injection, Surjection
  <2> QED BY <2>5 DEF ExistsBijection
<1> QED BY <1>6, <1>7, <1>8 DEF t

\* No list has infinitely many bytes: a shortest one that had would have a shorter tail that had.
LEMMA CellsFinite == \A s \in Seq(Contents) : IsFiniteSet(Cells(s))
<1> DEFINE T == {n \in Nat : \E s \in Seq(Contents) : Len(s) = n /\ ~ IsFiniteSet(Cells(s))}
<1>1. SUFFICES ASSUME T # {} PROVE FALSE
  <2>1. \A s \in Seq(Contents) : Len(s) \in Nat
    BY LenProperties
  <2> QED BY <2>1
<1>2. PICK n \in T : \A m \in T : ~ (m < n)
  <2>1. T \in SUBSET Nat
    OBVIOUS
  <2> HIDE DEF T
  <2> QED BY <1>1, <2>1, LeastNumber
<1>3. PICK s \in Seq(Contents) : Len(s) = n /\ ~ IsFiniteSet(Cells(s))
  OBVIOUS
<1>4. CASE s = <<>>
  <2>1. DOMAIN s = {}
    BY <1>4
  <2>2. Cells(s) = {}
    BY <2>1 DEF Cells
  <2> QED BY <1>3, <2>2, FS_EmptySet
<1>5. CASE s # <<>>
  <2>1. Tail(s) \in Seq(Contents) /\ Len(Tail(s)) = n - 1 /\ n \in Nat /\ n # 0
    BY <1>3, <1>5, HeadTailProperties, EmptySeq
  <2>2. n - 1 \in Nat /\ n - 1 < n
    BY <2>1
  <2>3. IsFiniteSet(Cells(Tail(s)))
    <3>1. SUFFICES ASSUME ~ IsFiniteSet(Cells(Tail(s))) PROVE FALSE
      OBVIOUS
    <3>2. n - 1 \in T
      BY <2>1, <2>2, <3>1
    <3> HIDE DEF T
    <3> QED BY <1>2, <2>2, <3>2
  <2>4. IsFiniteSet(Shifted(Tail(s)))
    BY <1>5, <2>3, CellsSplit, FS_Bijection
  <2>5. IsFiniteSet({1} \X (1 .. SizeOf[Head(s)]))
    <3>1. SizeOf[Head(s)] \in Nat
      BY <1>5, HeadTailProperties, GraphAssumption
    <3> QED BY <3>1, FirstCells
  <2>6. IsFiniteSet(Cells(s))
    <3>1. Cells(s) = ({1} \X (1 .. SizeOf[Head(s)])) \cup Shifted(Tail(s))
      BY <1>5, CellsSplit
    <3>2. IsFiniteSet(({1} \X (1 .. SizeOf[Head(s)])) \cup Shifted(Tail(s)))
      BY <2>4, <2>5, FS_Union
    <3> QED BY <3>1, <3>2
  <2> QED BY <1>3, <2>6
<1> QED BY <1>4, <1>5

\* A total is the first size and the total of the rest.
LEMMA BytesOfSplit ==
  ASSUME NEW s \in Seq(Contents)
  PROVE  /\ BytesOf(s) \in Nat
         /\ s # <<>> => BytesOf(s) = SizeOf[Head(s)] + BytesOf(Tail(s)) /\ BytesOf(Tail(s)) \in Nat
<1>1. BytesOf(s) \in Nat
  BY CellsFinite, FS_CardinalityType DEF BytesOf
<1>2. ASSUME s # <<>>
      PROVE  BytesOf(s) = SizeOf[Head(s)] + BytesOf(Tail(s)) /\ BytesOf(Tail(s)) \in Nat
  <2> DEFINE F == {1} \X (1 .. SizeOf[Head(s)])
             G == Shifted(Tail(s))
  <2>1. Tail(s) \in Seq(Contents) /\ SizeOf[Head(s)] \in Nat
    BY <1>2, HeadTailProperties, GraphAssumption
  <2>2. Cells(s) = F \cup G /\ F \cap G = {} /\ ExistsBijection(Cells(Tail(s)), G)
    BY <1>2, CellsSplit
  <2>3. IsFiniteSet(G) /\ Cardinality(G) = BytesOf(Tail(s)) /\ BytesOf(Tail(s)) \in Nat
    BY <2>1, <2>2, CellsFinite, FS_Bijection, FS_CardinalityType DEF BytesOf
  <2>4. IsFiniteSet(F) /\ Cardinality(F) = SizeOf[Head(s)]
    BY <2>1, FirstCells
  <2> HIDE DEF F, G
  <2>5. Cardinality(F \cup G) = Cardinality(F) + Cardinality(G) - Cardinality({})
    BY <2>2, <2>3, <2>4, FS_Union
  <2>6. Cardinality({}) = 0
    BY FS_EmptySet
  <2> QED BY <2>1, <2>2, <2>3, <2>4, <2>5, <2>6 DEF BytesOf
<1> QED BY <1>1, <1>2

\* What is left of a node's allowance covers the files that are still to be
\* handled, and above the depth limit the byte limit is never exceeded: beyond
\* it two extractors may overdraw together, but then nothing shallower is left.
AllowanceInv ==
    trusted =>
        /\ AllowanceIsEnough
        /\ cur # Idle /\ cur.depth < MaxDepth =>
              /\ Len(reports) + Len(queue) + 1 + Len(todo) <= MaxNodes
              /\ materialized_bytes + BytesOf(todo) <= MaxBytes
        /\ (\E i \in DOMAIN queue : queue[i].depth < MaxDepth) => materialized_bytes <= MaxBytes

\* A node above the depth limit is given what the limits leave.
LEMMA AllowanceAnalyze ==
  ASSUME GraphInv, AllowanceInv, Analyze, trusted
  PROVE  AllowanceInv'
<1> USE GraphAssumption
<1>1. /\ cur = Idle /\ 1 \in DOMAIN queue /\ cur' = queue[1]
      /\ Len(queue') = Len(queue) - 1
      /\ \A i \in DOMAIN queue' : i + 1 \in DOMAIN queue /\ queue'[i] = queue[i + 1]
      /\ reports' = reports /\ edges' = edges /\ materialized_bytes' = materialized_bytes
      /\ queue # <<>> /\ Head(queue) = queue[1]
  <2>1. queue \in Seq(Nodes) /\ queue # <<>> /\ materialized_bytes' = materialized_bytes
    BY DEF GraphInv, TypeOK, Analyze
  <2> QED BY <2>1, AnalyzeAt, TailAt
<1>2. PICK m \in MembersOf(Head(queue).content) :
        \E r \in ComesTo(Head(queue), m) : \E s \in Extracted(Head(queue), r) : todo' = s
  BY DEF Analyze
<1>a. PICK r \in ComesTo(Head(queue), m) : \E s \in Extracted(Head(queue), r) : todo' = s
  BY <1>2
<1>3. PICK s \in Extracted(Head(queue), r) : todo' = s
  BY <1>a
<1>4. Len(reports) \in Nat /\ Len(queue) \in Nat /\ materialized_bytes \in Nat /\ queue[1].depth \in Nat
  BY <1>1, Entries DEF GraphInv, TypeOK
<1>5. AllowanceIsEnough'
  BY <1>1 DEF AllowanceInv, AllowanceIsEnough
<1>6. (\E i \in DOMAIN queue' : queue'[i].depth < MaxDepth) => materialized_bytes' <= MaxBytes
  BY <1>1 DEF AllowanceInv
<1>7. ASSUME cur'.depth < MaxDepth
      PROVE  /\ Len(reports') + Len(queue') + 1 + Len(todo') <= MaxNodes
             /\ materialized_bytes' + BytesOf(todo') <= MaxBytes
  <2>1. Within(s)
    BY <1>1, <1>3, <1>7 DEF Extracted
  <2>2. materialized_bytes <= MaxBytes
    BY <1>1, <1>7 DEF AllowanceInv
  <2>3. Len(reports) + Len(queue) <= MaxNodes
    BY <1>1, <1>4 DEF GraphInv, WithinBudgets
  <2>4. s \in Seq(Contents)
    <3>1. Head(queue).content \in Contents
      BY <1>1, Entries DEF Nodes
    <3>2. m \in Seq(Contents)
      BY <3>1, MembersAreSeq
    <3> QED BY <3>2, ExtractedIsSeq
  <2>5. Len(s) \in Nat /\ BytesOf(s) \in Nat
    BY <2>4, LenProperties, BytesOfSplit
  <2>6. Len(s) <= MaxNodes - (Len(reports) + Len(queue))
    <3>1. FilesLeft = MaxNodes - (Len(reports) + Len(queue))
      BY <1>4, <2>3 DEF FilesLeft
    <3> QED BY <2>1, <3>1 DEF Within
  <2>7. BytesOf(s) <= MaxBytes - materialized_bytes
    <3>1. BytesLeft = MaxBytes - materialized_bytes
      BY <1>4, <2>2 DEF BytesLeft
    <3> QED BY <2>1, <3>1 DEF Within
  <2>8. Len(reports) + (Len(queue) - 1) + 1 + Len(s) <= MaxNodes
    BY <1>4, <2>5, <2>6
  <2>9. materialized_bytes + BytesOf(s) <= MaxBytes
    BY <1>4, <2>5, <2>7
  <2>10. BytesOf(todo') = BytesOf(s) /\ Len(todo') = Len(s)
    BY <1>3
  <2> QED BY <1>1, <2>8, <2>9, <2>10
<1> QED BY <1>1, <1>5, <1>6, <1>7 DEF AllowanceInv, BytesOf, Cells

\* A file that is handled takes its bytes and its slot out of what is left.
LEMMA AllowanceHandled ==
  ASSUME GraphInv, DepthInv, AllowanceInv, Refusing \/ Admitting, trusted
  PROVE  AllowanceInv'
<1> USE GraphAssumption
<1>1. PICK st : Handled(st) /\ st \in {"SKIPPED_UNSAFE", Refusal}
                /\ (st # "SKIPPED_UNSAFE" => materialized_bytes' = Measured)
                /\ (st = "SKIPPED_UNSAFE" => materialized_bytes' = materialized_bytes)
  <2>1. Refusal \in EdgeStates /\ Refusal # "SKIPPED_UNSAFE"
    BY DEF Refusal, EdgeStates
  <2>2. CASE ChildUnsafe
    BY <2>2 DEF ChildUnsafe
  <2>3. CASE ChildSkipped
    BY <2>1, <2>3 DEF ChildSkipped
  <2>4. CASE ChildAdmitted
    BY <2>1, <2>4 DEF ChildAdmitted
  <2> QED BY <2>2, <2>3, <2>4 DEF Refusing, Admitting
<1>2. /\ todo \in Seq(Contents) /\ todo # <<>> /\ cur # Idle /\ materialized_bytes \in Nat
      /\ Len(reports) \in Nat /\ Len(queue) \in Nat /\ cur.depth \in Nat
  BY <1>1, Entries DEF GraphInv, TypeOK, Handled, Refusing, Admitting
<1>3. /\ SizeOf[Child] \in Nat /\ BytesOf(todo) = SizeOf[Child] + BytesOf(Tail(todo))
      /\ BytesOf(Tail(todo)) \in Nat /\ Len(Tail(todo)) = Len(todo) - 1 /\ Len(todo) \in Nat \ {0}
  <2>1. Head(todo) \in Contents /\ Len(Tail(todo)) = Len(todo) - 1 /\ Len(todo) \in Nat \ {0}
    BY <1>2, HeadTailProperties, LenProperties, EmptySeq
  <2> QED BY <1>2, <2>1, BytesOfSplit DEF Child
<1>4. /\ todo' = Tail(todo) /\ cur' = cur /\ reports' = reports /\ trusted' = trusted
      /\ edges' = edges \cup {[parent |-> Len(reports) + 1, content |-> Child,
                               depth |-> cur.depth + 1, state |-> st]}
  BY <1>1 DEF Handled, ChildDepth, world
<1>5. BytesOf(todo') = BytesOf(Tail(todo)) /\ Len(todo') = Len(todo) - 1
  BY <1>3, <1>4
<1>6. materialized_bytes' \in {materialized_bytes, materialized_bytes + SizeOf[Child]}
  BY <1>1 DEF Measured
<1>7. \/ queue' = queue
      \/ /\ Len(queue') = Len(queue) + 1 /\ DOMAIN queue' = 1 .. Len(queue) + 1
         /\ \A i \in DOMAIN queue : queue'[i] = queue[i]
         /\ queue'[Len(queue) + 1].depth = cur.depth + 1
  BY RefusedAt, AdmittedAt DEF Refusing, Admitting
<1>8. CASE cur.depth < MaxDepth
  <2>1. /\ Len(reports) + Len(queue) + 1 + Len(todo) <= MaxNodes
        /\ materialized_bytes + BytesOf(todo) <= MaxBytes
        /\ AllowanceIsEnough
    BY <1>2, <1>8 DEF AllowanceInv
  <2>2. materialized_bytes + SizeOf[Child] <= MaxBytes
    BY <1>2, <1>3, <2>1
  <2>3. Len(reports) + Len(queue) + 1 < MaxNodes
    BY <1>2, <1>3, <2>1
  <2>4. ~ OverBytes /\ ~ NoNodeLeft
    <3>1. ~ OverBytes
      BY <1>2, <1>3, <2>2 DEF OverBytes, Measured
    <3>2. ~ NoNodeLeft
      BY <1>2, <2>3 DEF NoNodeLeft
    <3> QED BY <3>1, <3>2
  <2>5. st \notin {"SKIPPED_BYTE_LIMIT", "SKIPPED_NODE_LIMIT"}
    BY <1>1, <2>4 DEF Refusal
  <2>6. AllowanceIsEnough'
    BY <1>4, <2>1, <2>5 DEF AllowanceIsEnough
  <2>7. Len(queue') <= Len(queue) + 1 /\ Len(queue') \in Nat
    BY <1>2, <1>7
  <2>8. Len(reports) + Len(queue') + 1 + (Len(todo) - 1) <= MaxNodes
    BY <1>2, <1>3, <2>1, <2>7
  <2>9. materialized_bytes' + BytesOf(Tail(todo)) <= MaxBytes /\ materialized_bytes' <= MaxBytes
    <3>1. materialized_bytes + SizeOf[Child] + BytesOf(Tail(todo)) <= MaxBytes
      BY <1>2, <1>3, <2>1
    <3>2. CASE materialized_bytes' = materialized_bytes
      BY <1>2, <1>3, <3>1, <3>2
    <3>3. CASE materialized_bytes' = materialized_bytes + SizeOf[Child]
      BY <1>2, <1>3, <3>1, <3>3
    <3> QED BY <1>6, <3>2, <3>3
  <2> QED BY <1>4, <1>5, <2>6, <2>8, <2>9 DEF AllowanceInv, BytesOf, Cells
<1>9. CASE ~ (cur.depth < MaxDepth)
  <2>1. cur.depth + 1 > MaxDepth
    BY <1>2, <1>9
  <2>2. TooDeep
    BY <2>1 DEF TooDeep, ChildDepth
  <2>3. st # "SKIPPED_NODE_LIMIT"
    BY <1>1, <2>2 DEF Refusal
  <2>4. AllowanceIsEnough
    BY DEF AllowanceInv
  <2>5. AllowanceIsEnough'
    BY <1>4, <2>1, <2>3, <2>4 DEF AllowanceIsEnough
  <2>6. \A i \in DOMAIN queue : ~ (queue[i].depth < MaxDepth)
    <3> TAKE i \in DOMAIN queue
    <3>1. queue[i].depth \in {cur.depth, cur.depth + 1}
      BY <1>2 DEF DepthInv
    <3> QED BY <1>2, <1>9, <2>1, <3>1
  <2>7. \A i \in DOMAIN queue' : ~ (queue'[i].depth < MaxDepth)
    <3>1. ASSUME NEW i \in DOMAIN queue' PROVE i \in DOMAIN queue \/ (queue' # queue /\ i = Len(queue) + 1)
      BY <1>7, Entries
    <3> QED BY <1>2, <1>7, <1>9, <2>1, <2>6, <3>1
  <2> QED BY <1>4, <1>9, <2>5, <2>7 DEF AllowanceInv
<1> QED BY <1>8, <1>9

\* Every step leaves the allowances enough.
LEMMA AllowanceStep ==
  ASSUME GraphInv, DepthInv, AllowanceInv, [Next]_vars
  PROVE  AllowanceInv'
<1>0. trusted' = trusted
  BY DEF Next, Analyze, AnalyzeFails, ChildUnsafe, ChildSkipped, ChildAdmitted, Handled, FinishNode, Finish, Exited,
         vars, world
<1>1. SUFFICES ASSUME trusted PROVE AllowanceInv'
  BY <1>0 DEF AllowanceInv
<1>2. CASE Analyze
  BY <1>1, <1>2, AllowanceAnalyze
<1>3. CASE AnalyzeFails
  <2>1. /\ cur' = Idle /\ UNCHANGED <<edges, materialized_bytes>>
        /\ \A i \in DOMAIN queue' : i + 1 \in DOMAIN queue /\ queue'[i] = queue[i + 1]
    BY <1>3, AnalyzeFailsAt DEF AnalyzeFails, graph
  <2> QED BY <1>1, <2>1 DEF AllowanceInv, AllowanceIsEnough
<1>4. CASE Refusing \/ Admitting
  BY <1>1, <1>4, AllowanceHandled
<1>5. CASE FinishNode
  <2>1. cur' = Idle /\ UNCHANGED <<queue, edges, materialized_bytes>>
    BY <1>5 DEF FinishNode, graph
  <2> QED BY <1>1, <2>1 DEF AllowanceInv, AllowanceIsEnough
<1>6. CASE Finish \/ Exited \/ UNCHANGED vars
  <2>1. UNCHANGED <<queue, cur, todo, reports, edges, materialized_bytes>>
    BY <1>6 DEF Finish, Exited, vars, graph
  <2> QED BY <1>1, <2>1 DEF AllowanceInv, AllowanceIsEnough, BytesOf, Cells
<1> QED BY <1>2, <1>3, <1>4, <1>5, <1>6 DEF Next, Refusing, Admitting

\* As long as extractors keep to the allowance they are given, nothing they
\* wrote is refused for want of a node, and bytes are refused only beyond the
\* depth limit: the "+1" and the order of the checks of main.cpp are right for
\* all containers, sizes and limits.
THEOREM AllowancesSuffice == Spec => []AllowanceIsEnough
<1>1. Init => AllowanceInv
  <2>1. Init => cur = Idle /\ edges = {} /\ materialized_bytes = 0
    BY DEF Init
  <2> QED BY <2>1, GraphAssumption DEF AllowanceInv, AllowanceIsEnough
<1>2. GraphInv /\ OrderInv /\ AllowanceInv /\ [Next]_vars => AllowanceInv'
  BY AllowanceStep DEF OrderInv
<1>3. Spec => []OrderInv
  BY OrderInit, OrderStep, GraphInvariant, PTL DEF Spec
<1>4. AllowanceInv => AllowanceIsEnough
  BY DEF AllowanceInv, AllowanceIsEnough
<1> QED BY <1>1, <1>2, <1>3, <1>4, GraphInvariant, PTL DEF Spec

=============================================================================
