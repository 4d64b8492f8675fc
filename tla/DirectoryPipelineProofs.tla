----------------------- MODULE DirectoryPipelineProofs -----------------------
(***************************************************************************)
(* What a directory analysis promises for any directory, command line,     *)
(* budgets and limits: the artifact budget is exact and hard, what the     *)
(* report says of a candidate is what lies under its root, child graphs    *)
(* are honest, every report is spooled once, retention covers what the     *)
(* relationships change, and the runtime stays within its total.           *)
(***************************************************************************)
EXTENDS DirectoryPipeline, FiniteSetTheorems, SequenceTheorems, TLAPS

-----------------------------------------------------------------------------
(* Totals *)

\* The cells of one column.
Column(i, n) == {i} \X (1 .. n)

LEMMA ColumnFinite ==
    ASSUME NEW i, NEW n \in Nat
    PROVE  IsFiniteSet(Column(i, n))
<1>1. IsFiniteSet({i})
  BY FS_Singleton
<1>2. IsFiniteSet(1 .. n)
  BY FS_Interval
<1> QED BY <1>1, <1>2, FS_Product DEF Column

LEMMA CellsMember ==
    ASSUME NEW f, NEW c
    PROVE  c \in Cells(f) <=> \E i \in DOMAIN f : \E k \in 1 .. f[i] : c = <<i, k>>
BY DEF Cells

LEMMA CellsFinite ==
    ASSUME NEW n \in Nat, NEW f \in [1 .. n -> Nat]
    PROVE  IsFiniteSet(Cells(f))
<1> DEFINE S == {Column(i, f[i]) : i \in 1 .. n}
           g == [i \in 1 .. n |-> Column(i, f[i])]
<1>1. IsFiniteSet(1 .. n)
  BY FS_Interval
<1>2. g \in Surjection(1 .. n, S)
  BY DEF Surjection
<1> HIDE DEF g
<1>3. IsFiniteSet(S)
  BY <1>1, <1>2, FS_Surjection
<1>4. \A T \in S : IsFiniteSet(T)
  BY ColumnFinite
<1>5. Cells(f) = UNION S
  BY DEF Cells, Column
<1> HIDE DEF S
<1> QED BY <1>3, <1>4, <1>5, FS_UNION

LEMMA TotalType ==
    ASSUME NEW n \in Nat, NEW f \in [1 .. n -> Nat]
    PROVE  Total(f) \in Nat
BY CellsFinite, FS_CardinalityType DEF Total

\* Nothing counted, nothing in total.
LEMMA TotalZero ==
    ASSUME NEW f, \A i \in DOMAIN f : f[i] = 0
    PROVE  Total(f) = 0
<1>1. \A i \in DOMAIN f : 1 .. f[i] = {}
  OBVIOUS
<1>2. Cells(f) = {}
  BY <1>1, CellsMember
<1> QED BY <1>2, FS_EmptySet DEF Total

LEMMA NextCells ==
    ASSUME NEW a \in Nat, NEW k \in Nat
    PROVE  IsFiniteSet((a + 1) .. (a + k)) /\ Cardinality((a + 1) .. (a + k)) = k
<1>1. a + 1 \in Int /\ a + k \in Int
  OBVIOUS
<1>2. \A x, y \in Int : /\ IsFiniteSet(x .. y)
                        /\ Cardinality(x .. y) = IF x > y THEN 0 ELSE y - x + 1
  BY FS_Interval
<1> QED BY <1>1, <1>2

\* k more in one column are k more in total.
LEMMA TotalAdd ==
    ASSUME NEW n \in Nat, NEW f \in [1 .. n -> Nat], NEW i \in 1 .. n, NEW k \in Nat
    PROVE  Total([f EXCEPT ![i] = f[i] + k]) = Total(f) + k
<1> DEFINE g == [f EXCEPT ![i] = f[i] + k]
           New == {i} \X ((f[i] + 1) .. (f[i] + k))
<1>1. f[i] \in Nat
  OBVIOUS
<1>2. g \in [1 .. n -> Nat] /\ g[i] = f[i] + k /\ \A j \in 1 .. n : j # i => g[j] = f[j]
  OBVIOUS
<1>3. DOMAIN f = 1 .. n /\ DOMAIN g = 1 .. n
  OBVIOUS
<1> HIDE DEF g
<1>4. 1 .. (f[i] + k) = (1 .. f[i]) \cup ((f[i] + 1) .. (f[i] + k))
  BY <1>1
<1>5. \A x : x \in Cells(g) <=> x \in Cells(f) \/ x \in New
  <2> TAKE x
  <2>1. ASSUME x \in Cells(g) PROVE x \in Cells(f) \/ x \in New
    <3>1. PICK j \in 1 .. n : \E q \in 1 .. g[j] : x = <<j, q>>
      BY <2>1, <1>3, CellsMember
    <3>2. PICK q \in 1 .. g[j] : x = <<j, q>>
      BY <3>1
    <3>3. CASE j # i
      BY <3>3, <3>2, <1>2, <1>3, CellsMember
    <3>4. CASE j = i
      <4>1. q \in (1 .. f[i]) \cup ((f[i] + 1) .. (f[i] + k))
        BY <3>2, <3>4, <1>2, <1>4
      <4>2. CASE q \in 1 .. f[i]
        BY <4>2, <3>2, <3>4, <1>3, CellsMember
      <4>3. CASE q \in (f[i] + 1) .. (f[i] + k)
        BY <4>3, <3>2, <3>4
      <4> QED BY <4>1, <4>2, <4>3
    <3> QED BY <3>3, <3>4
  <2>2. ASSUME x \in Cells(f) PROVE x \in Cells(g)
    <3>1. PICK j \in 1 .. n : \E q \in 1 .. f[j] : x = <<j, q>>
      BY <2>2, <1>3, CellsMember
    <3>2. PICK q \in 1 .. f[j] : x = <<j, q>>
      BY <3>1
    <3>3. q \in 1 .. g[j]
      BY <3>2, <1>2, <1>4
    <3> QED BY <3>2, <3>3, <1>3, CellsMember
  <2>3. ASSUME x \in New PROVE x \in Cells(g)
    <3>1. PICK q \in (f[i] + 1) .. (f[i] + k) : x = <<i, q>>
      BY <2>3
    <3>2. q \in 1 .. g[i]
      BY <3>1, <1>2, <1>4
    <3> QED BY <3>1, <3>2, <1>3, CellsMember
  <2> QED BY <2>1, <2>2, <2>3
<1>6. Cells(g) = Cells(f) \cup New
  BY <1>5
<1>7. Cells(f) \cap New = {}
  <2>1. SUFFICES ASSUME NEW x \in Cells(f), x \in New PROVE FALSE
    OBVIOUS
  <2>2. PICK q \in (f[i] + 1) .. (f[i] + k) : x = <<i, q>>
    BY <2>1
  <2>3. PICK j \in 1 .. n : \E r \in 1 .. f[j] : x = <<j, r>>
    BY <2>1, <1>3, CellsMember
  <2>4. PICK r \in 1 .. f[j] : x = <<j, r>>
    BY <2>3
  <2>5. j = i /\ r = q
    BY <2>2, <2>4
  <2> QED BY <2>2, <2>4, <2>5, <1>1
<1>8. IsFiniteSet(New) /\ Cardinality(New) = k
  <2>1. IsFiniteSet({i}) /\ Cardinality({i}) = 1
    BY FS_Singleton
  <2>2. IsFiniteSet((f[i] + 1) .. (f[i] + k))
    BY <1>1, NextCells
  <2>3. Cardinality((f[i] + 1) .. (f[i] + k)) = k
    BY <1>1, NextCells
  <2>4. /\ IsFiniteSet(New)
        /\ Cardinality(New) = Cardinality({i}) * Cardinality((f[i] + 1) .. (f[i] + k))
    BY <2>1, <2>2, FS_Product
  <2> QED BY <2>1, <2>3, <2>4
<1> HIDE DEF New
<1>9. IsFiniteSet(Cells(f)) /\ Cardinality(Cells(f)) \in Nat
  BY CellsFinite, FS_CardinalityType
<1>10. Cardinality(Cells(f) \cap New) = 0
  BY <1>7, FS_EmptySet
<1>11. Cardinality(Cells(g)) = Cardinality(Cells(f)) + k
  BY <1>6, <1>8, <1>9, <1>10, FS_Union
<1> QED BY <1>11 DEF Total, g

\* What a list of artifacts weighs.
LEMMA BytesOfType == \A s \in Seq(Contents) : BytesOf(s) \in Nat
<1> TAKE s \in Seq(Contents)
<1> DEFINE w == [j \in DOMAIN s |-> SizeOf[s[j]]]
<1>1. Len(s) \in Nat /\ DOMAIN s = 1 .. Len(s) /\ \A j \in DOMAIN s : s[j] \in Contents
  OBVIOUS
<1>2. w \in [1 .. Len(s) -> Nat]
  BY <1>1, PipelineAssumption
<1> HIDE DEF w
<1> QED BY <1>1, <1>2, TotalType DEF BytesOf, w

LEMMA BytesOfNothing == BytesOf(<<>>) = 0
BY TotalZero DEF BytesOf
-----------------------------------------------------------------------------
(* The invariant *)

Amounts == [bytes : Nat, files : Nat]

PlaceTypes ==
    /\ dir \in Seq(STRING)
    /\ opt \in [extract : BOOLEAN, run : BOOLEAN, run_all : BOOLEAN]
    /\ pc \in Stages /\ cur \in Nat /\ sem \in Nat
    /\ exec \in [Inputs -> BOOLEAN]
    /\ env \in [chmods : Nat, faults : Nat, leaked : BOOLEAN]

MStates ==
    {"NONE", "DEFERRED", "REFUSED_UNSAFE_ROOT", "NO_OUTPUT", "MATERIALIZED", "MATERIALIZED_PARTIAL"}

RStates ==
    {"NONE", "SKIPPED_STATIC_NOT_EXECUTABLE", "SKIPPED_NO_STATIC_REPORT", "SKIPPED_PRIORITY",
     "SKIPPED_TARGET_LIMIT", "SKIPPED_RUNTIME_BUDGET", "RAN"}

DiskTypes ==
    /\ disk \in [Inputs -> Amounts] /\ used \in Amounts
    /\ mstate \in [Inputs -> MStates] /\ omitted \in [Inputs -> BOOLEAN] /\ partial \in BOOLEAN
    /\ call \in [refused : BOOLEAN, skips : BOOLEAN, added : BOOLEAN]

BookTypes ==
    /\ compact \in Seq(Inputs) /\ retained \in Seq(Inputs) /\ spooled \in Seq(Inputs)
    /\ failed \subseteq Inputs /\ mutated \subseteq Inputs

RunTypes == rstate \in [Inputs -> RStates] /\ spent \in [Inputs -> Nat]

\* Which candidate or retained report the stage is about.
PlaceInv ==
    /\ cur >= 1
    /\ exit # "none" => pc = "done"
    /\ pc \in {"next", "index"} => sem = 0
    /\ pc = "index" => cur <= Len(dir)
    /\ pc = "children" => IF sem = 0 THEN cur <= Len(dir) ELSE sem <= Len(retained)
    /\ pc \in {"semantics", "runtime", "spool"} => sem >= 1

\* Every report analysed so far is spooled or retained, not both, until the
\* retained ones are spooled in their order.
OrderInv ==
    /\ pc # "done" /\ sem = 0 => \A i \in ToSet(compact) : i < cur
    /\ IsInjective(retained) /\ IsInjective(spooled)
    /\ ToSet(compact) = ToSet(spooled) \cup ToSet(retained)
    /\ pc # "done" =>
          \A j \in DOMAIN retained :
             retained[j] \in ToSet(spooled) <=> pc = "spool" /\ j < sem
    /\ pc = "spool" => sem <= Len(retained) + 1
    /\ pc \notin {"spool", "done"} => Len(spooled) + Len(retained) = Len(compact)
    /\ pc = "spool" => Len(spooled) + Len(retained) = Len(compact) + (sem - 1)

\* While no permission bit has changed, what has to be retained is, and what
\* the relationships changed had to be.
RetentionInv ==
    /\ sem = 0 => mutated = {}
    /\ env.chmods = 0 =>
          /\ \A i \in ToSet(compact) : RequiresRetention(i) => i \in ToSet(retained)
          /\ \A i \in mutated : i \in ToSet(compact) /\ RequiresRetention(i)

\* Time is granted to one candidate after the other.
RunInv ==
    /\ pc \in {"next", "children", "index", "semantics"} => \A i \in Inputs : spent[i] = 0
    /\ pc = "runtime" => \A i \in Inputs : i >= cur => spent[i] = 0

\* The budget, whatever was lost track of on the disk.
BudgetInv ==
    Bounded =>
        /\ used.bytes <= MaxBytes /\ used.files <= MaxFiles
        /\ sem = 0 => used.bytes <= PreBytes /\ used.files <= PreFiles
        /\ ~env.leaked =>
              /\ used.bytes = Total([i \in Inputs |-> disk[i].bytes])
              /\ used.files = Total([i \in Inputs |-> disk[i].files])

Written == {"MATERIALIZED", "MATERIALIZED_PARTIAL"}

\* What StatesMatchDisk says of one candidate.
StateFits(i) ==
    /\ disk[i].files > 0 => mstate[i] \in Written
    /\ mstate[i] = "MATERIALIZED" => disk[i].files > 0
    /\ mstate[i] = "MATERIALIZED_PARTIAL" => disk[i].files > 0 \/ (sem > 0 /\ partial)

\* ... and what is known of the one whose children are being analysed: its
\* state is settled when they are done.
StatePending ==
    IF sem = 0
    THEN /\ mstate[cur] \in Written => disk[cur].files > 0
         /\ mstate[cur] \notin Written => todo = <<>> /\ disk[cur].files = 0
    ELSE /\ call.refused \/ call.added
         /\ call.refused => partial
         /\ call.added => disk[retained[sem]].files > 0

StateInv ==
    Bounded =>
        /\ pc # "done" /\ sem = 0 =>
              \A i \in Inputs : i > cur \/ (pc = "next" /\ i = cur) => disk[i].files = 0
        /\ ~env.leaked =>
              /\ pc = "children" => StatePending
              /\ \A i \in Inputs :
                    pc \notin {"children", "done"} \/ (pc = "children" /\ i # Owner) => StateFits(i)

\* What a graph answers for: the input, and what was analysed.
Accounted(g) ==
    {"self"} \cup {e.content : e \in {x \in g.edges : x.state = "ANALYZED_STATIC"}}

IsRecord(g) ==
    g = [enabled |-> g.enabled, nodes |-> g.nodes, bytes |-> g.bytes,
         truncated |-> g.truncated, edges |-> g.edges]

IsGraph(g) ==
    /\ IsRecord(g) /\ g.enabled \in BOOLEAN /\ g.truncated \in BOOLEAN
    /\ ~g.enabled => g.edges = {}
    /\ ~g.truncated => \A e \in g.edges : e.content \in Accounted(g)

GraphInv ==
    /\ DOMAIN graph = Inputs /\ \A i \in Inputs : IsGraph(graph[i])
    /\ pc = "children" /\ todo # <<>> => G.enabled
    /\ pc = "children" /\ ~G.truncated => known \subseteq Accounted(G)

PipeInv ==
    /\ PlaceTypes /\ DiskTypes /\ BookTypes /\ RunTypes
    /\ PlaceInv /\ OrderInv /\ NoReportLost /\ RetentionInv /\ RetentionCoversMutation
    /\ RunInv /\ RuntimeWithinBudget /\ BudgetInv /\ StateInv /\ GraphInv

-----------------------------------------------------------------------------
(* What each step leaves alone *)

LEMMA Cases ==
    ASSUME [Next]_vars
    PROVE  Step \/ Chmod \/ UNCHANGED vars
BY DEF Next, Done

LEMMA ConstantInput ==
    ASSUME [Next]_vars
    PROVE  dir' = dir /\ opt' = opt /\ Inputs' = Inputs /\ Bounded' = Bounded
<1>1. dir' = dir /\ opt' = opt
  <2>1. CASE Unreadable
    BY <2>1 DEF Unreadable, Faulted
  <2>2. CASE AnalysisFails
    BY <2>2 DEF AnalysisFails, Faulted
  <2>3. CASE UnsafeRoot
    BY <2>3 DEF UnsafeRoot, Refused, Faulted
  <2>4. CASE Deferred
    BY <2>4 DEF Deferred, Refused
  <2>5. CASE RolledBack
    BY <2>5 DEF RolledBack, Refused
  <2>6. CASE RollbackFails
    BY <2>6 DEF RollbackFails, Abort, Faulted
  <2>7. CASE Kept
    BY <2>7 DEF Kept
  <2>8. CASE Extracted
    BY <2>8 DEF Extracted
  <2>9. CASE ChildUnsafe
    BY <2>9 DEF ChildUnsafe, HandledAs, Faulted
  <2>10. CASE ChildDuplicate
    BY <2>10 DEF ChildDuplicate, HandledAs
  <2>11. CASE ChildRefused
    BY <2>11 DEF ChildRefused, HandledAs
  <2>12. CASE ChildRootFails
    BY <2>12 DEF ChildRootFails, HandledAs, Faulted
  <2>13. CASE ChildReported
    BY <2>13 DEF ChildReported, HandledAs
  <2>14. CASE ChildReportTooBig
    BY <2>14 DEF ChildReportTooBig, HandledAs
  <2>15. CASE ChildReportFails
    BY <2>15 DEF ChildReportFails, HandledAs, Faulted
  <2>16. CASE ChildExtracted
    BY <2>16 DEF ChildExtracted, HandledAs, Faulted
  <2>17. CASE ChildrenDone
    BY <2>17 DEF ChildrenDone
  <2>18. CASE Index
    BY <2>18 DEF Index
  <2>19. CASE SpoolFails
    BY <2>19 DEF SpoolFails, Abort, Faulted
  <2>20. CASE Relate
    BY <2>20 DEF Relate
  <2>21. CASE NoInput
    BY <2>21 DEF NoInput, Abort
  <2>22. CASE TargetSkipped
    BY <2>22 DEF TargetSkipped
  <2>23. CASE Compose
    BY <2>23 DEF Compose, Composed, Faulted
  <2>24. CASE ComposeUnbounded
    BY <2>24 DEF ComposeUnbounded
  <2>25. CASE CheckRetention
    BY <2>25 DEF CheckRetention, Abort
  <2>26. CASE RuntimeStep
    BY <2>26 DEF RuntimeStep
  <2>27. CASE RuntimeDone
    BY <2>27 DEF RuntimeDone
  <2>28. CASE SpoolRetained
    BY <2>28 DEF SpoolRetained
  <2>29. CASE Finish
    BY <2>29 DEF Finish, Abort
  <2>30. CASE Chmod
    BY <2>30 DEF Chmod
  <2>31. CASE UNCHANGED vars
    BY <2>31 DEF vars
  <2> QED BY Cases, <2>1, <2>2, <2>3, <2>4, <2>5, <2>6, <2>7, <2>8, <2>9, <2>10, <2>11, <2>12, <2>13, <2>14, <2>15, <2>16, <2>17, <2>18, <2>19, <2>20, <2>21, <2>22, <2>23, <2>24, <2>25, <2>26, <2>27, <2>28, <2>29, <2>30, <2>31 DEF Step
<1> QED BY <1>1 DEF Inputs, Bounded

\* Only these steps touch what lies under a root, or the budget.
LEMMA DiskFrame ==
    ASSUME [Next]_vars, ~Kept, ~ChildReported, ~ChildReportFails, ~Compose
    PROVE  disk' = disk /\ used' = used
<1>1. CASE Unreadable
  BY <1>1 DEF Unreadable, Faulted, analysis
<1>2. CASE AnalysisFails
  BY <1>2 DEF AnalysisFails, Faulted, analysis
<1>3. CASE UnsafeRoot
  BY <1>3 DEF UnsafeRoot, Refused, Faulted, analysis
<1>4. CASE Deferred
  BY <1>4 DEF Deferred, Refused, analysis
<1>5. CASE RolledBack
  BY <1>5 DEF RolledBack, Refused, analysis
<1>6. CASE RollbackFails
  BY <1>6 DEF RollbackFails, Abort, Faulted, analysis
<1>7. CASE Extracted
  BY <1>7 DEF Extracted, analysis
<1>8. CASE ChildUnsafe
  BY <1>8 DEF ChildUnsafe, HandledAs, Faulted, analysis
<1>9. CASE ChildDuplicate
  BY <1>9 DEF ChildDuplicate, HandledAs, analysis
<1>10. CASE ChildRefused
  BY <1>10 DEF ChildRefused, HandledAs, analysis
<1>11. CASE ChildRootFails
  BY <1>11 DEF ChildRootFails, HandledAs, Faulted, analysis
<1>12. CASE ChildReportTooBig
  BY <1>12 DEF ChildReportTooBig, HandledAs, analysis
<1>13. CASE ChildExtracted
  BY <1>13 DEF ChildExtracted, HandledAs, Faulted, analysis
<1>14. CASE ChildrenDone
  BY <1>14 DEF ChildrenDone, analysis
<1>15. CASE Index
  BY <1>15 DEF Index, analysis
<1>16. CASE SpoolFails
  BY <1>16 DEF SpoolFails, Abort, Faulted, analysis
<1>17. CASE Relate
  BY <1>17 DEF Relate, analysis
<1>18. CASE NoInput
  BY <1>18 DEF NoInput, Abort, analysis
<1>19. CASE TargetSkipped
  BY <1>19 DEF TargetSkipped, analysis
<1>20. CASE ComposeUnbounded
  BY <1>20 DEF ComposeUnbounded, analysis
<1>21. CASE CheckRetention
  BY <1>21 DEF CheckRetention, Abort, analysis
<1>22. CASE RuntimeStep
  BY <1>22 DEF RuntimeStep, analysis
<1>23. CASE RuntimeDone
  BY <1>23 DEF RuntimeDone, analysis
<1>24. CASE SpoolRetained
  BY <1>24 DEF SpoolRetained, analysis
<1>25. CASE Finish
  BY <1>25 DEF Finish, Abort, analysis
<1>26. CASE Chmod
  BY <1>26 DEF Chmod, analysis
<1>27. CASE UNCHANGED vars
  BY <1>27 DEF vars, analysis
<1> QED BY Cases, <1>1, <1>2, <1>3, <1>4, <1>5, <1>6, <1>7, <1>8, <1>9, <1>10, <1>11, <1>12, <1>13, <1>14, <1>15, <1>16, <1>17, <1>18, <1>19, <1>20, <1>21, <1>22, <1>23, <1>24, <1>25, <1>26, <1>27 DEF Step

\* Only these steps sort reports.
LEMMA BooksFrame ==
    ASSUME [Next]_vars, ~AnalysisFails, ~Index, ~Relate, ~SpoolRetained
    PROVE  UNCHANGED books
<1>1. CASE Unreadable
  BY <1>1 DEF Unreadable, Faulted, books
<1>2. CASE UnsafeRoot
  BY <1>2 DEF UnsafeRoot, Refused, Faulted, books
<1>3. CASE Deferred
  BY <1>3 DEF Deferred, Refused, books
<1>4. CASE RolledBack
  BY <1>4 DEF RolledBack, Refused, books
<1>5. CASE RollbackFails
  BY <1>5 DEF RollbackFails, Abort, Faulted, books
<1>6. CASE Kept
  BY <1>6 DEF Kept, books
<1>7. CASE Extracted
  BY <1>7 DEF Extracted, books
<1>8. CASE ChildUnsafe
  BY <1>8 DEF ChildUnsafe, HandledAs, Faulted, books
<1>9. CASE ChildDuplicate
  BY <1>9 DEF ChildDuplicate, HandledAs, books
<1>10. CASE ChildRefused
  BY <1>10 DEF ChildRefused, HandledAs, books
<1>11. CASE ChildRootFails
  BY <1>11 DEF ChildRootFails, HandledAs, Faulted, books
<1>12. CASE ChildReported
  BY <1>12 DEF ChildReported, HandledAs, books
<1>13. CASE ChildReportTooBig
  BY <1>13 DEF ChildReportTooBig, HandledAs, books
<1>14. CASE ChildReportFails
  BY <1>14 DEF ChildReportFails, HandledAs, Faulted, books
<1>15. CASE ChildExtracted
  BY <1>15 DEF ChildExtracted, HandledAs, Faulted, books
<1>16. CASE ChildrenDone
  BY <1>16 DEF ChildrenDone, books
<1>17. CASE SpoolFails
  BY <1>17 DEF SpoolFails, Abort, Faulted, books
<1>18. CASE NoInput
  BY <1>18 DEF NoInput, Abort, books
<1>19. CASE TargetSkipped
  BY <1>19 DEF TargetSkipped, books
<1>20. CASE Compose
  BY <1>20 DEF Compose, Composed, Faulted, books
<1>21. CASE ComposeUnbounded
  BY <1>21 DEF ComposeUnbounded, books
<1>22. CASE CheckRetention
  BY <1>22 DEF CheckRetention, Abort, books
<1>23. CASE RuntimeStep
  BY <1>23 DEF RuntimeStep, books
<1>24. CASE RuntimeDone
  BY <1>24 DEF RuntimeDone, books
<1>25. CASE Finish
  BY <1>25 DEF Finish, Abort, books
<1>26. CASE Chmod
  BY <1>26 DEF Chmod, books
<1>27. CASE UNCHANGED vars
  BY <1>27 DEF vars, books
<1> QED BY Cases, <1>1, <1>2, <1>3, <1>4, <1>5, <1>6, <1>7, <1>8, <1>9, <1>10, <1>11, <1>12, <1>13, <1>14, <1>15, <1>16, <1>17, <1>18, <1>19, <1>20, <1>21, <1>22, <1>23, <1>24, <1>25, <1>26, <1>27 DEF Step

\* Only these steps decide about running a candidate.
LEMMA RuntimeFrame ==
    ASSUME [Next]_vars, ~Index, ~RuntimeStep
    PROVE  UNCHANGED runtime
<1>1. CASE Unreadable
  BY <1>1 DEF Unreadable, Faulted, runtime
<1>2. CASE AnalysisFails
  BY <1>2 DEF AnalysisFails, Faulted, runtime
<1>3. CASE UnsafeRoot
  BY <1>3 DEF UnsafeRoot, Refused, Faulted, runtime
<1>4. CASE Deferred
  BY <1>4 DEF Deferred, Refused, runtime
<1>5. CASE RolledBack
  BY <1>5 DEF RolledBack, Refused, runtime
<1>6. CASE RollbackFails
  BY <1>6 DEF RollbackFails, Abort, Faulted, runtime
<1>7. CASE Kept
  BY <1>7 DEF Kept, runtime
<1>8. CASE Extracted
  BY <1>8 DEF Extracted, runtime
<1>9. CASE ChildUnsafe
  BY <1>9 DEF ChildUnsafe, HandledAs, Faulted, runtime
<1>10. CASE ChildDuplicate
  BY <1>10 DEF ChildDuplicate, HandledAs, runtime
<1>11. CASE ChildRefused
  BY <1>11 DEF ChildRefused, HandledAs, runtime
<1>12. CASE ChildRootFails
  BY <1>12 DEF ChildRootFails, HandledAs, Faulted, runtime
<1>13. CASE ChildReported
  BY <1>13 DEF ChildReported, HandledAs, runtime
<1>14. CASE ChildReportTooBig
  BY <1>14 DEF ChildReportTooBig, HandledAs, runtime
<1>15. CASE ChildReportFails
  BY <1>15 DEF ChildReportFails, HandledAs, Faulted, runtime
<1>16. CASE ChildExtracted
  BY <1>16 DEF ChildExtracted, HandledAs, Faulted, runtime
<1>17. CASE ChildrenDone
  BY <1>17 DEF ChildrenDone, runtime
<1>18. CASE SpoolFails
  BY <1>18 DEF SpoolFails, Abort, Faulted, runtime
<1>19. CASE Relate
  BY <1>19 DEF Relate, runtime
<1>20. CASE NoInput
  BY <1>20 DEF NoInput, Abort, runtime
<1>21. CASE TargetSkipped
  BY <1>21 DEF TargetSkipped, runtime
<1>22. CASE Compose
  BY <1>22 DEF Compose, Composed, Faulted, runtime
<1>23. CASE ComposeUnbounded
  BY <1>23 DEF ComposeUnbounded, runtime
<1>24. CASE CheckRetention
  BY <1>24 DEF CheckRetention, Abort, runtime
<1>25. CASE RuntimeDone
  BY <1>25 DEF RuntimeDone, runtime
<1>26. CASE SpoolRetained
  BY <1>26 DEF SpoolRetained, runtime
<1>27. CASE Finish
  BY <1>27 DEF Finish, Abort, runtime
<1>28. CASE Chmod
  BY <1>28 DEF Chmod, runtime
<1>29. CASE UNCHANGED vars
  BY <1>29 DEF vars, runtime
<1> QED BY Cases, <1>1, <1>2, <1>3, <1>4, <1>5, <1>6, <1>7, <1>8, <1>9, <1>10, <1>11, <1>12, <1>13, <1>14, <1>15, <1>16, <1>17, <1>18, <1>19, <1>20, <1>21, <1>22, <1>23, <1>24, <1>25, <1>26, <1>27, <1>28, <1>29 DEF Step

\* Only the environment changes permission bits.
LEMMA ExecFrame ==
    ASSUME [Next]_vars, ~Chmod
    PROVE  exec' = exec
<1>1. CASE Unreadable
  BY <1>1 DEF Unreadable, Faulted, books
<1>2. CASE AnalysisFails
  BY <1>2 DEF AnalysisFails, Faulted, books
<1>3. CASE UnsafeRoot
  BY <1>3 DEF UnsafeRoot, Refused, Faulted, books
<1>4. CASE Deferred
  BY <1>4 DEF Deferred, Refused, books
<1>5. CASE RolledBack
  BY <1>5 DEF RolledBack, Refused, books
<1>6. CASE RollbackFails
  BY <1>6 DEF RollbackFails, Abort, Faulted, books
<1>7. CASE Kept
  BY <1>7 DEF Kept, books
<1>8. CASE Extracted
  BY <1>8 DEF Extracted, books
<1>9. CASE ChildUnsafe
  BY <1>9 DEF ChildUnsafe, HandledAs, Faulted, books
<1>10. CASE ChildDuplicate
  BY <1>10 DEF ChildDuplicate, HandledAs, books
<1>11. CASE ChildRefused
  BY <1>11 DEF ChildRefused, HandledAs, books
<1>12. CASE ChildRootFails
  BY <1>12 DEF ChildRootFails, HandledAs, Faulted, books
<1>13. CASE ChildReported
  BY <1>13 DEF ChildReported, HandledAs, books
<1>14. CASE ChildReportTooBig
  BY <1>14 DEF ChildReportTooBig, HandledAs, books
<1>15. CASE ChildReportFails
  BY <1>15 DEF ChildReportFails, HandledAs, Faulted, books
<1>16. CASE ChildExtracted
  BY <1>16 DEF ChildExtracted, HandledAs, Faulted, books
<1>17. CASE ChildrenDone
  BY <1>17 DEF ChildrenDone, books
<1>18. CASE Index
  BY <1>18 DEF Index, books
<1>19. CASE SpoolFails
  BY <1>19 DEF SpoolFails, Abort, Faulted, books
<1>20. CASE Relate
  BY <1>20 DEF Relate, books
<1>21. CASE NoInput
  BY <1>21 DEF NoInput, Abort, books
<1>22. CASE TargetSkipped
  BY <1>22 DEF TargetSkipped, books
<1>23. CASE Compose
  BY <1>23 DEF Compose, Composed, Faulted, books
<1>24. CASE ComposeUnbounded
  BY <1>24 DEF ComposeUnbounded, books
<1>25. CASE CheckRetention
  BY <1>25 DEF CheckRetention, Abort, books
<1>26. CASE RuntimeStep
  BY <1>26 DEF RuntimeStep, books
<1>27. CASE RuntimeDone
  BY <1>27 DEF RuntimeDone, books
<1>28. CASE SpoolRetained
  BY <1>28 DEF SpoolRetained, books
<1>29. CASE Finish
  BY <1>29 DEF Finish, Abort, books
<1>30. CASE UNCHANGED vars
  BY <1>30 DEF vars, books
<1> QED BY Cases, <1>1, <1>2, <1>3, <1>4, <1>5, <1>6, <1>7, <1>8, <1>9, <1>10, <1>11, <1>12, <1>13, <1>14, <1>15, <1>16, <1>17, <1>18, <1>19, <1>20, <1>21, <1>22, <1>23, <1>24, <1>25, <1>26, <1>27, <1>28, <1>29, <1>30 DEF Step

\* The loop over the children, which stays with its report.
ChildStep ==
    \/ ChildUnsafe \/ ChildDuplicate \/ ChildRefused \/ ChildRootFails \/ ChildReported
    \/ ChildReportTooBig \/ ChildReportFails \/ ChildExtracted

LEMMA ChildFrame ==
    ASSUME ChildStep
    PROVE  /\ pc = "children" /\ todo # <<>>
           /\ pc' = pc /\ cur' = cur /\ sem' = sem /\ retained' = retained
           /\ mstate' = mstate /\ partial' = partial /\ exit' = exit
<1>1. CASE ChildUnsafe
  BY <1>1 DEF ChildUnsafe, HandledAs, Faulted, AtChild, Admitting, books
<1>2. CASE ChildDuplicate
  BY <1>2 DEF ChildDuplicate, HandledAs, AtChild, Admitting, books
<1>3. CASE ChildRefused
  BY <1>3 DEF ChildRefused, HandledAs, AtChild, Admitting, books
<1>4. CASE ChildRootFails
  BY <1>4 DEF ChildRootFails, HandledAs, Faulted, AtChild, Admitting, books
<1>5. CASE ChildReported
  BY <1>5 DEF ChildReported, HandledAs, AtChild, Admitting, books
<1>6. CASE ChildReportTooBig
  BY <1>6 DEF ChildReportTooBig, HandledAs, AtChild, Admitting, books
<1>7. CASE ChildReportFails
  BY <1>7 DEF ChildReportFails, HandledAs, Faulted, AtChild, Admitting, books
<1>8. CASE ChildExtracted
  BY <1>8 DEF ChildExtracted, HandledAs, Faulted, AtChild, Admitting, books
<1> QED BY <1>1, <1>2, <1>3, <1>4, <1>5, <1>6, <1>7, <1>8 DEF ChildStep

\* Composing begins the loop over what was composed.
LEMMA ComposeFrame ==
    ASSUME Compose \/ ComposeUnbounded
    PROVE  /\ pc = "semantics" /\ pc' = "children" /\ sem <= Len(retained)
           /\ cur' = cur /\ sem' = sem /\ UNCHANGED books /\ mstate' = mstate
           /\ omitted' = omitted /\ exit' = exit
<1>1. CASE Compose
  BY <1>1 DEF Compose, AtTarget, analysis
<1>2. CASE ComposeUnbounded
  BY <1>2 DEF ComposeUnbounded, AtTarget, analysis
<1> QED BY <1>1, <1>2

-----------------------------------------------------------------------------
(* Types, and the place in the analysis *)

EnvRecords == [chmods : Nat, faults : Nat, leaked : BOOLEAN]

LEMMA InitTypes == Init => PlaceTypes /\ DiskTypes /\ BookTypes /\ RunTypes
<1> SUFFICES ASSUME Init PROVE PlaceTypes /\ DiskTypes /\ BookTypes /\ RunTypes
  OBVIOUS
<1> USE DEF Init
<1>1. dir \in Seq(STRING) /\ opt \in [extract : BOOLEAN, run : BOOLEAN, run_all : BOOLEAN]
  BY PipelineAssumption
<1>2. PlaceTypes
  <2>1. exec \in [Inputs -> BOOLEAN]
    BY DEF Inputs
  <2> QED BY <1>1, <2>1 DEF PlaceTypes, Stages
<1>3. DiskTypes
  <2>1. Nothing \in Amounts /\ NoCall \in [refused : BOOLEAN, skips : BOOLEAN, added : BOOLEAN]
    BY DEF Nothing, NoCall, Amounts
  <2>2. disk \in [Inputs -> Amounts] /\ used \in Amounts
    BY <2>1 DEF Inputs
  <2>3. mstate \in [Inputs -> MStates]
    BY DEF Inputs, MStates
  <2>4. omitted \in [Inputs -> BOOLEAN]
    BY DEF Inputs
  <2> QED BY <2>1, <2>2, <2>3, <2>4 DEF DiskTypes
<1>4. BookTypes
  BY DEF BookTypes
<1>5. RunTypes
  <2>1. rstate \in [Inputs -> RStates]
    BY DEF Inputs, RStates
  <2>2. spent \in [Inputs -> Nat]
    BY DEF Inputs
  <2> QED BY <2>1, <2>2 DEF RunTypes
<1> QED BY <1>2, <1>3, <1>4, <1>5

LEMMA FaultedEnv ==
    ASSUME env \in EnvRecords, NEW l \in BOOLEAN, Faulted(l)
    PROVE  /\ env' \in EnvRecords
           /\ env'.chmods = env.chmods /\ env'.leaked = (env.leaked \/ l)
<1>1. env' = [chmods |-> env.chmods, faults |-> env.faults + 1, leaked |-> env.leaked \/ l]
  BY DEF EnvRecords, Faulted
<1> QED BY <1>1 DEF EnvRecords

\* Nothing is forgotten about the environment.
LEMMA EnvStep ==
    ASSUME PlaceTypes, [Next]_vars
    PROVE  /\ env' \in EnvRecords
           /\ env'.leaked = FALSE => env.leaked = FALSE
           /\ env'.chmods = 0 => env.chmods = 0 /\ exec' = exec
<1>1. env \in EnvRecords
  BY DEF PlaceTypes, EnvRecords
<1>2. env' = env \/ (\E l \in BOOLEAN : Faulted(l)) \/ Chmod
  <2>1. CASE Unreadable
    BY <2>1 DEF Unreadable
  <2>2. CASE AnalysisFails
    BY <2>2 DEF AnalysisFails
  <2>3. CASE UnsafeRoot
    BY <2>3 DEF UnsafeRoot, Refused
  <2>4. CASE Deferred
    BY <2>4 DEF Deferred, Refused
  <2>5. CASE RolledBack
    BY <2>5 DEF RolledBack, Refused
  <2>6. CASE RollbackFails
    BY <2>6 DEF RollbackFails, Abort
  <2>7. CASE Kept
    BY <2>7 DEF Kept
  <2>8. CASE Extracted
    BY <2>8 DEF Extracted
  <2>9. CASE ChildUnsafe
    BY <2>9 DEF ChildUnsafe, HandledAs
  <2>10. CASE ChildDuplicate
    BY <2>10 DEF ChildDuplicate, HandledAs
  <2>11. CASE ChildRefused
    BY <2>11 DEF ChildRefused, HandledAs
  <2>12. CASE ChildRootFails
    BY <2>12 DEF ChildRootFails, HandledAs
  <2>13. CASE ChildReported
    BY <2>13 DEF ChildReported, HandledAs
  <2>14. CASE ChildReportTooBig
    BY <2>14 DEF ChildReportTooBig, HandledAs
  <2>15. CASE ChildReportFails
    BY <2>15 DEF ChildReportFails, HandledAs
  <2>16. CASE ChildExtracted
    BY <2>16 DEF ChildExtracted, HandledAs
  <2>17. CASE ChildrenDone
    BY <2>17 DEF ChildrenDone
  <2>18. CASE Index
    BY <2>18 DEF Index
  <2>19. CASE SpoolFails
    BY <2>19 DEF SpoolFails, Abort
  <2>20. CASE Relate
    BY <2>20 DEF Relate
  <2>21. CASE NoInput
    BY <2>21 DEF NoInput, Abort
  <2>22. CASE TargetSkipped
    BY <2>22 DEF TargetSkipped
  <2>23. CASE Compose
    BY <2>23 DEF Compose, Composed
  <2>24. CASE ComposeUnbounded
    BY <2>24 DEF ComposeUnbounded
  <2>25. CASE CheckRetention
    BY <2>25 DEF CheckRetention, Abort
  <2>26. CASE RuntimeStep
    BY <2>26 DEF RuntimeStep
  <2>27. CASE RuntimeDone
    BY <2>27 DEF RuntimeDone
  <2>28. CASE SpoolRetained
    BY <2>28 DEF SpoolRetained
  <2>29. CASE Finish
    BY <2>29 DEF Finish, Abort
  <2>30. CASE UNCHANGED vars
    BY <2>30 DEF vars
  <2> QED BY Cases, <2>1, <2>2, <2>3, <2>4, <2>5, <2>6, <2>7, <2>8, <2>9, <2>10, <2>11, <2>12, <2>13, <2>14, <2>15, <2>16, <2>17, <2>18, <2>19, <2>20, <2>21, <2>22, <2>23, <2>24, <2>25, <2>26, <2>27, <2>28, <2>29, <2>30 DEF Step
<1>3. CASE env' = env
  <2>1. Chmod => FALSE
    <3>1. Chmod => env'.chmods = env.chmods + 1
      BY <1>1 DEF Chmod, EnvRecords
    <3> QED BY <3>1, <1>3, <1>1 DEF EnvRecords
  <2> QED BY <1>1, <1>3, <2>1, ExecFrame
<1>4. CASE \E l \in BOOLEAN : Faulted(l)
  <2>1. PICK l \in BOOLEAN : Faulted(l)
    BY <1>4
  <2>2. /\ env' \in EnvRecords
        /\ env'.chmods = env.chmods /\ env'.leaked = (env.leaked \/ l)
    BY <1>1, <2>1, FaultedEnv
  <2>3. Chmod => FALSE
    <3>1. Chmod => env'.chmods = env.chmods + 1
      BY <1>1 DEF Chmod, EnvRecords
    <3> QED BY <3>1, <2>2, <1>1 DEF EnvRecords
  <2> QED BY <2>2, <2>3, <1>1, ExecFrame DEF EnvRecords
<1>5. CASE Chmod
  <2>1. env' = [chmods |-> env.chmods + 1, faults |-> env.faults, leaked |-> env.leaked]
    BY <1>1, <1>5 DEF Chmod, EnvRecords
  <2> QED BY <1>1, <2>1 DEF EnvRecords
<1> QED BY <1>2, <1>3, <1>4, <1>5

LEMMA PlaceStep ==
    ASSUME PlaceTypes, PlaceInv, BookTypes, [Next]_vars
    PROVE  PlaceTypes' /\ PlaceInv'
<1>1. dir' = dir /\ opt' = opt /\ Inputs' = Inputs
  BY ConstantInput
<1>2. env' \in EnvRecords
  BY EnvStep
<1>3. exec' \in [Inputs -> BOOLEAN]
  <2>1. CASE Chmod
    BY <2>1 DEF Chmod, PlaceTypes
  <2> QED BY <2>1, ExecFrame DEF PlaceTypes
<1>4. Len(dir) \in Nat /\ cur \in Nat /\ sem \in Nat /\ Len(retained) \in Nat
  BY DEF PlaceTypes, BookTypes
<1>5. /\ pc' \in Stages /\ cur' \in Nat /\ sem' \in Nat
      /\ PlaceInv'
  <2>1. CASE Unreadable
    BY <2>1, <1>1, <1>4 DEF Unreadable, Faulted, AtCandidate, PlaceInv, PlaceTypes, Stages, books
  <2>2. CASE AnalysisFails
    BY <2>2, <1>1, <1>4 DEF AnalysisFails, Faulted, AtCandidate, PlaceInv, PlaceTypes, Stages, books
  <2>3. CASE UnsafeRoot
    BY <2>3, <1>1, <1>4 DEF UnsafeRoot, Refused, Faulted, AtCandidate, PlaceInv, PlaceTypes, Stages, books
  <2>4. CASE Deferred
    BY <2>4, <1>1, <1>4 DEF Deferred, Refused, AtCandidate, PlaceInv, PlaceTypes, Stages, books
  <2>5. CASE RolledBack
    BY <2>5, <1>1, <1>4 DEF RolledBack, Refused, AtCandidate, PlaceInv, PlaceTypes, Stages, books
  <2>6. CASE RollbackFails
    BY <2>6, <1>1, <1>4 DEF RollbackFails, Abort, Faulted, AtCandidate, PlaceInv, PlaceTypes, Stages, books
  <2>7. CASE Kept
    BY <2>7, <1>1, <1>4 DEF Kept, AtCandidate, PlaceInv, PlaceTypes, Stages, books
  <2>8. CASE Extracted
    BY <2>8, <1>1, <1>4 DEF Extracted, AtCandidate, PlaceInv, PlaceTypes, Stages, books
  <2>9. CASE ChildrenDone
    BY <2>9, <1>1, <1>4 DEF ChildrenDone, PlaceInv, PlaceTypes, Stages, books
  <2>10. CASE Index
    BY <2>10, <1>1, <1>4 DEF Index, PlaceInv, PlaceTypes, Stages, books
  <2>11. CASE SpoolFails
    BY <2>11, <1>1, <1>4 DEF SpoolFails, Abort, Faulted, PlaceInv, PlaceTypes, Stages, books
  <2>12. CASE Relate
    BY <2>12, <1>1, <1>4 DEF Relate, PlaceInv, PlaceTypes, Stages, books
  <2>13. CASE NoInput
    BY <2>13, <1>1, <1>4 DEF NoInput, Abort, PlaceInv, PlaceTypes, Stages, books
  <2>14. CASE TargetSkipped
    BY <2>14, <1>1, <1>4 DEF TargetSkipped, AtTarget, PlaceInv, PlaceTypes, Stages, books
  <2>15. CASE CheckRetention
    BY <2>15, <1>1, <1>4 DEF CheckRetention, Abort, PlaceInv, PlaceTypes, Stages, books
  <2>16. CASE RuntimeStep
    BY <2>16, <1>1, <1>4 DEF RuntimeStep, AtRuntime, PlaceInv, PlaceTypes, Stages, books
  <2>17. CASE RuntimeDone
    BY <2>17, <1>1, <1>4 DEF RuntimeDone, PlaceInv, PlaceTypes, Stages, books
  <2>18. CASE SpoolRetained
    BY <2>18, <1>1, <1>4 DEF SpoolRetained, PlaceInv, PlaceTypes, Stages, books
  <2>19. CASE Finish
    BY <2>19, <1>1, <1>4 DEF Finish, Abort, PlaceInv, PlaceTypes, Stages, books
  <2>20. CASE ChildStep
    BY <2>20, <1>1, <1>4, ChildFrame DEF PlaceInv, PlaceTypes, Stages
  <2>21. CASE Compose \/ ComposeUnbounded
    <3>1. /\ pc = "semantics" /\ pc' = "children" /\ sem <= Len(retained)
          /\ cur' = cur /\ sem' = sem /\ retained' = retained /\ exit' = exit
      BY <2>21, ComposeFrame DEF books
    <3>2. sem' # 0 /\ sem' <= Len(retained')
      BY <3>1, <1>4 DEF PlaceInv
    <3>3. cur' >= 1 /\ exit' = "none"
      BY <3>1 DEF PlaceInv
    <3> QED BY <3>1, <3>2, <3>3, <1>4 DEF PlaceInv, Stages
  <2>22. CASE Chmod
    BY <2>22, <1>1, <1>4 DEF Chmod, PlaceInv, PlaceTypes, Stages, books
  <2>23. CASE UNCHANGED vars
    BY <2>23, <1>1, <1>4 DEF vars, PlaceInv, PlaceTypes, Stages, books
  <2> QED BY Cases, <2>1, <2>2, <2>3, <2>4, <2>5, <2>6, <2>7, <2>8, <2>9, <2>10, <2>11, <2>12, <2>13, <2>14, <2>15, <2>16, <2>17, <2>18, <2>19, <2>20, <2>21, <2>22, <2>23 DEF Step, ChildStep
<1> QED BY <1>1, <1>2, <1>3, <1>5 DEF PlaceTypes, EnvRecords

\* How the stages follow each other.
Early == {"next", "children", "index", "semantics"}

LEMMA Progress ==
    ASSUME PlaceTypes, PlaceInv, BookTypes, [Next]_vars
    PROVE  /\ pc = "done" => pc' = "done"
           /\ sem' = 0 => sem = 0 /\ (pc' # "done" => cur' >= cur)
           /\ pc' = "spool" => (pc = "spool" /\ sem' = sem) \/ RuntimeDone \/ SpoolRetained
           /\ pc = "spool" => pc' \in {"spool", "done"}
           /\ pc' \in Early => pc \in Early
           /\ pc' = "runtime" => pc \in Early \/ (pc = "runtime" /\ cur' >= cur)
           /\ exit' = "Success" => exit = "Success" \/ Finish
           /\ exit' = "directory_retention" =>
                 exit = "directory_retention" \/ Finish \/ CheckRetention
<1>1. Len(dir) \in Nat /\ cur \in Nat /\ sem \in Nat /\ Len(retained) \in Nat
  BY DEF PlaceTypes, BookTypes
<1>2. CASE Unreadable
  BY <1>2, <1>1 DEF Unreadable, Faulted, AtCandidate, PlaceInv, Early
<1>3. CASE AnalysisFails
  BY <1>3, <1>1 DEF AnalysisFails, Faulted, AtCandidate, PlaceInv, Early
<1>4. CASE UnsafeRoot
  BY <1>4, <1>1 DEF UnsafeRoot, Refused, Faulted, AtCandidate, PlaceInv, Early
<1>5. CASE Deferred
  BY <1>5, <1>1 DEF Deferred, Refused, AtCandidate, PlaceInv, Early
<1>6. CASE RolledBack
  BY <1>6, <1>1 DEF RolledBack, Refused, AtCandidate, PlaceInv, Early
<1>7. CASE RollbackFails
  BY <1>7, <1>1 DEF RollbackFails, Abort, Faulted, AtCandidate, PlaceInv, Early
<1>8. CASE Kept
  BY <1>8, <1>1 DEF Kept, AtCandidate, PlaceInv, Early
<1>9. CASE Extracted
  BY <1>9, <1>1 DEF Extracted, AtCandidate, PlaceInv, Early
<1>10. CASE ChildUnsafe
  BY <1>10, <1>1 DEF ChildUnsafe, HandledAs, Faulted, AtChild, Admitting, PlaceInv, Early
<1>11. CASE ChildDuplicate
  BY <1>11, <1>1 DEF ChildDuplicate, HandledAs, AtChild, Admitting, PlaceInv, Early
<1>12. CASE ChildRefused
  BY <1>12, <1>1 DEF ChildRefused, HandledAs, AtChild, Admitting, PlaceInv, Early
<1>13. CASE ChildRootFails
  BY <1>13, <1>1 DEF ChildRootFails, HandledAs, Faulted, AtChild, Admitting, PlaceInv, Early
<1>14. CASE ChildReported
  BY <1>14, <1>1 DEF ChildReported, HandledAs, AtChild, Admitting, PlaceInv, Early
<1>15. CASE ChildReportTooBig
  BY <1>15, <1>1 DEF ChildReportTooBig, HandledAs, AtChild, Admitting, PlaceInv, Early
<1>16. CASE ChildReportFails
  BY <1>16, <1>1 DEF ChildReportFails, HandledAs, Faulted, AtChild, Admitting, PlaceInv, Early
<1>17. CASE ChildExtracted
  BY <1>17, <1>1 DEF ChildExtracted, HandledAs, Faulted, AtChild, Admitting, PlaceInv, Early
<1>18. CASE ChildrenDone
  BY <1>18, <1>1 DEF ChildrenDone, PlaceInv, Early
<1>19. CASE Index
  BY <1>19, <1>1 DEF Index, PlaceInv, Early
<1>20. CASE SpoolFails
  BY <1>20, <1>1 DEF SpoolFails, Abort, Faulted, PlaceInv, Early
<1>21. CASE Relate
  BY <1>21, <1>1 DEF Relate, PlaceInv, Early
<1>22. CASE NoInput
  BY <1>22, <1>1 DEF NoInput, Abort, PlaceInv, Early
<1>23. CASE TargetSkipped
  BY <1>23, <1>1 DEF TargetSkipped, AtTarget, PlaceInv, Early
<1>24. CASE Compose
  BY <1>24, <1>1, ComposeFrame DEF PlaceInv, Early
<1>25. CASE ComposeUnbounded
  BY <1>25, <1>1, ComposeFrame DEF PlaceInv, Early
<1>26. CASE CheckRetention
  BY <1>26, <1>1 DEF CheckRetention, Abort, PlaceInv, Early
<1>27. CASE RuntimeStep
  BY <1>27, <1>1 DEF RuntimeStep, AtRuntime, PlaceInv, Early
<1>28. CASE RuntimeDone
  BY <1>28, <1>1 DEF RuntimeDone, PlaceInv, Early
<1>29. CASE SpoolRetained
  BY <1>29, <1>1 DEF SpoolRetained, PlaceInv, Early
<1>30. CASE Finish
  BY <1>30, <1>1 DEF Finish, Abort, PlaceInv, Early
<1>31. CASE Chmod
  BY <1>31, <1>1 DEF Chmod, PlaceInv, Early
<1>32. CASE UNCHANGED vars
  BY <1>32, <1>1 DEF vars, PlaceInv, Early
<1> QED BY Cases, <1>2, <1>3, <1>4, <1>5, <1>6, <1>7, <1>8, <1>9, <1>10, <1>11, <1>12, <1>13, <1>14, <1>15, <1>16, <1>17, <1>18, <1>19, <1>20, <1>21, <1>22, <1>23, <1>24, <1>25, <1>26, <1>27, <1>28, <1>29, <1>30, <1>31, <1>32 DEF Step

LEMMA CurrentInput ==
    ASSUME PlaceTypes, PlaceInv, AtCandidate \/ pc = "index"
    PROVE  cur \in Inputs
BY DEF PlaceTypes, PlaceInv, AtCandidate, Inputs

-----------------------------------------------------------------------------
(* Reports are retained or spooled *)

LEMMA AppendFacts ==
    ASSUME NEW S, NEW s \in Seq(S), NEW x \in S
    PROVE  /\ Append(s, x) \in Seq(S) /\ Len(Append(s, x)) = Len(s) + 1
           /\ ToSet(Append(s, x)) = ToSet(s) \cup {x}
           /\ \A j \in DOMAIN s : Append(s, x)[j] = s[j]
           /\ DOMAIN Append(s, x) = DOMAIN s \cup {Len(s) + 1} /\ Append(s, x)[Len(s) + 1] = x
           /\ IsInjective(s) /\ x \notin ToSet(s) => IsInjective(Append(s, x))
<1> DEFINE t == Append(s, x)
<1>1. t \in Seq(S) /\ Len(t) = Len(s) + 1 /\ Len(s) \in Nat
  OBVIOUS
<1>2. \A j \in DOMAIN s : t[j] = s[j]
  OBVIOUS
<1>3. t[Len(s) + 1] = x
  OBVIOUS
<1>4. DOMAIN s = 1 .. Len(s) /\ DOMAIN t = 1 .. (Len(s) + 1)
  BY <1>1
<1> HIDE DEF t
<1>5. DOMAIN t = DOMAIN s \cup {Len(s) + 1}
  BY <1>1, <1>4
<1>6. ToSet(t) = ToSet(s) \cup {x}
  BY <1>2, <1>3, <1>5 DEF ToSet
<1>7. ASSUME IsInjective(s), x \notin ToSet(s) PROVE IsInjective(t)
  <2>1. \A j \in DOMAIN s : s[j] # x
    BY <1>7 DEF ToSet
  <2>2. \A a, b \in DOMAIN s : s[a] = s[b] => a = b
    BY <1>7 DEF IsInjective
  <2> QED BY <2>1, <2>2, <1>2, <1>3, <1>5 DEF IsInjective
<1> QED BY <1>1, <1>2, <1>3, <1>5, <1>6, <1>7 DEF t

LEMMA BooksStep ==
    ASSUME PlaceTypes, PlaceInv, BookTypes, [Next]_vars
    PROVE  BookTypes'
<1>1. Inputs' = Inputs
  BY ConstantInput
<1>2. CASE AnalysisFails
  BY <1>1, <1>2, CurrentInput DEF AnalysisFails, BookTypes
<1>3. CASE Index
  <2>1. cur \in Inputs
    BY <1>3, CurrentInput DEF Index
  <2>2. compact \in Seq(Inputs) /\ retained \in Seq(Inputs) /\ spooled \in Seq(Inputs)
    BY DEF BookTypes
  <2>3. /\ Append(compact, cur) \in Seq(Inputs) /\ Append(retained, cur) \in Seq(Inputs)
        /\ Append(spooled, cur) \in Seq(Inputs)
    BY <2>1, <2>2, AppendFacts
  <2>4. /\ compact' \in Seq(Inputs) /\ retained' \in Seq(Inputs) /\ spooled' \in Seq(Inputs)
        /\ failed' = failed /\ mutated' = mutated
    BY <1>3, <2>2, <2>3 DEF Index
  <2> QED BY <1>1, <2>4 DEF BookTypes
<1>4. CASE Relate
  <2>1. Mutated \subseteq Inputs
    BY DEF Mutated, Analysed, BookTypes, ToSet
  <2> QED BY <1>1, <1>4, <2>1 DEF Relate, BookTypes
<1>5. CASE SpoolRetained
  <2>1. retained[sem] \in Inputs
    BY <1>5 DEF SpoolRetained, BookTypes, PlaceInv, PlaceTypes
  <2> QED BY <1>1, <1>5, <2>1, AppendFacts DEF SpoolRetained, BookTypes
<1> QED BY <1>1, <1>2, <1>3, <1>4, <1>5, BooksFrame DEF books, BookTypes

LEMMA OrderInit == Init => OrderInv
<1> SUFFICES ASSUME Init PROVE OrderInv
  OBVIOUS
<1>1. pc = "next" /\ compact = <<>> /\ retained = <<>> /\ spooled = <<>>
  BY DEF Init
<1>2. ToSet(<<>>) = {} /\ IsInjective(<<>>) /\ DOMAIN <<>> = {} /\ Len(<<>>) = 0
  BY DEF ToSet, IsInjective
<1> QED BY <1>1, <1>2 DEF OrderInv

LEMMA OrderStep ==
    ASSUME PlaceTypes, PlaceInv, BookTypes, OrderInv, [Next]_vars
    PROVE  OrderInv'
<1>1. /\ compact \in Seq(Inputs) /\ retained \in Seq(Inputs) /\ spooled \in Seq(Inputs)
      /\ Len(compact) \in Nat /\ Len(retained) \in Nat /\ Len(spooled) \in Nat
      /\ DOMAIN retained = 1 .. Len(retained)
      /\ ToSet(compact) \subseteq Inputs
  BY DEF BookTypes, ToSet
<1>2. Inputs \subseteq Nat /\ cur \in Nat /\ sem \in Nat
  BY DEF PlaceTypes, Inputs
<1>6. Len(compact) \in Nat /\ Len(retained) \in Nat /\ Len(spooled) \in Nat
  BY <1>1
<1>3. CASE Index
  <2>1. /\ cur \in Inputs /\ pc = "index" /\ sem = 0 /\ sem' = 0 /\ cur' = cur + 1 /\ pc' = "next"
        /\ compact' = Append(compact, cur)
        /\ \/ retained' = Append(retained, cur) /\ spooled' = spooled
           \/ spooled' = Append(spooled, cur) /\ retained' = retained
    BY <1>3, CurrentInput DEF Index, PlaceInv
  <2>2. \A i \in ToSet(compact) : i < cur
    BY <2>1 DEF OrderInv
  <2>3. cur \notin ToSet(compact)
    BY <2>2, <1>2
  <2>4. cur \notin ToSet(spooled) /\ cur \notin ToSet(retained)
    BY <2>3 DEF OrderInv
  <2>5. ToSet(compact') = ToSet(compact) \cup {cur} /\ Len(compact') = Len(compact) + 1
    BY <1>1, <2>1, AppendFacts
  <2>6. \A j \in DOMAIN retained : retained[j] \in ToSet(retained) /\ retained[j] \notin ToSet(spooled)
    BY <2>1 DEF OrderInv, ToSet
  <2>7. ToSet(compact) = ToSet(spooled) \cup ToSet(retained)
    BY DEF OrderInv
  <2>8. IsInjective(retained) /\ IsInjective(spooled)
    BY DEF OrderInv
  <2>9. Len(spooled) + Len(retained) = Len(compact)
    BY <2>1 DEF OrderInv
  <2>10. \A i \in ToSet(compact') : i < cur'
    <3>1. \A i \in ToSet(compact) \cup {cur} : i \in Nat /\ (i < cur \/ i = cur)
      BY <2>1, <2>2, <1>1, <1>2
    <3>2. cur' = cur + 1
      BY <2>1
    <3> QED BY <3>1, <3>2, <2>5, <1>2
  <2>11. CASE retained' = Append(retained, cur) /\ spooled' = spooled
    <3>1. /\ ToSet(retained') = ToSet(retained) \cup {cur} /\ Len(retained') = Len(retained) + 1
          /\ DOMAIN retained' = DOMAIN retained \cup {Len(retained) + 1}
          /\ \A j \in DOMAIN retained : retained'[j] = retained[j]
          /\ retained'[Len(retained) + 1] = cur /\ IsInjective(retained')
      BY <1>1, <2>1, <2>4, <2>8, <2>11, AppendFacts
    <3>2. \A j \in DOMAIN retained' : retained'[j] \notin ToSet(spooled)
      BY <3>1, <2>4, <2>6
    <3>3. Len(spooled') + Len(retained') = Len(compact')
      <4>1. /\ Len(retained') = Len(retained) + 1 /\ Len(spooled') = Len(spooled)
            /\ Len(compact') = Len(compact) + 1
        BY <3>1, <2>5, <2>11
      <4> QED BY <4>1, <2>9, <1>6
    <3>4. ToSet(compact') = ToSet(spooled') \cup ToSet(retained')
      BY <3>1, <2>5, <2>7, <2>11
    <3> QED BY <3>1, <3>2, <3>3, <3>4, <2>1, <2>8, <2>10, <2>11 DEF OrderInv
  <2>12. CASE spooled' = Append(spooled, cur) /\ retained' = retained
    <3>1. /\ ToSet(spooled') = ToSet(spooled) \cup {cur} /\ Len(spooled') = Len(spooled) + 1
          /\ IsInjective(spooled')
      BY <1>1, <2>1, <2>4, <2>8, <2>12, AppendFacts
    <3>2. \A j \in DOMAIN retained : retained[j] \notin ToSet(spooled')
      BY <3>1, <2>4, <2>6
    <3>3. Len(spooled') + Len(retained') = Len(compact')
      <4>1. /\ Len(spooled') = Len(spooled) + 1 /\ Len(retained') = Len(retained)
            /\ Len(compact') = Len(compact) + 1
        BY <3>1, <2>5, <2>12
      <4> QED BY <4>1, <2>9, <1>6
    <3>4. ToSet(compact') = ToSet(spooled') \cup ToSet(retained')
      BY <3>1, <2>5, <2>7, <2>12
    <3> QED BY <3>1, <3>2, <3>3, <3>4, <2>1, <2>8, <2>10, <2>12 DEF OrderInv
  <2> QED BY <2>1, <2>11, <2>12
<1>4. CASE SpoolRetained
  <2>1. /\ pc = "spool" /\ pc' = pc /\ sem <= Len(retained) /\ sem' = sem + 1 /\ sem >= 1
        /\ spooled' = Append(spooled, retained[sem]) /\ retained' = retained /\ compact' = compact
    BY <1>4 DEF SpoolRetained, PlaceInv
  <2>2. sem \in DOMAIN retained /\ retained[sem] \in Inputs
    BY <1>1, <1>2, <2>1
  <2>3. \A j \in DOMAIN retained : retained[j] \in ToSet(spooled) <=> j < sem
    BY <2>1 DEF OrderInv
  <2>4. retained[sem] \notin ToSet(spooled)
    BY <2>2, <2>3, <1>2
  <2>5. IsInjective(retained) /\ IsInjective(spooled)
    BY DEF OrderInv
  <2>6. /\ ToSet(spooled') = ToSet(spooled) \cup {retained[sem]}
        /\ Len(spooled') = Len(spooled) + 1 /\ IsInjective(spooled')
    BY <1>1, <2>1, <2>2, <2>4, <2>5, AppendFacts
  <2>7. \A j \in DOMAIN retained : retained[j] = retained[sem] <=> j = sem
    BY <2>2, <2>5 DEF IsInjective
  <2>8. \A j \in DOMAIN retained : retained[j] \in ToSet(spooled') <=> j < sem + 1
    BY <1>1, <1>2, <2>3, <2>6, <2>7
  <2>9. ToSet(compact) = ToSet(spooled) \cup ToSet(retained) /\ retained[sem] \in ToSet(retained)
    BY <2>2 DEF OrderInv, ToSet
  <2>10. Len(spooled) + Len(retained) = Len(compact) + (sem - 1)
    BY <2>1 DEF OrderInv
  <2>11. Len(spooled') + Len(retained') = Len(compact') + (sem' - 1)
    BY <2>1, <2>6, <2>10, <1>1, <1>2
  <2>12. sem' <= Len(retained') + 1 /\ sem' # 0
    BY <2>1, <1>1, <1>2
  <2> QED BY <2>1, <2>5, <2>6, <2>8, <2>9, <2>11, <2>12 DEF OrderInv
<1>5. CASE ~Index /\ ~SpoolRetained
  <2>1. compact' = compact /\ retained' = retained /\ spooled' = spooled
    <3>1. CASE AnalysisFails
      BY <3>1 DEF AnalysisFails
    <3>2. CASE Relate
      BY <3>2 DEF Relate
    <3> QED BY <3>1, <3>2, <1>5, BooksFrame DEF books
  <2>2. CASE RuntimeDone
    <3>1. pc = "runtime" /\ pc' = "spool" /\ sem' = 1
      BY <2>2 DEF RuntimeDone
    <3>2. \A j \in DOMAIN retained : retained[j] \notin ToSet(spooled) /\ ~(j < 1)
      BY <3>1, <1>1 DEF OrderInv
    <3>3. Len(spooled) + Len(retained) = Len(compact) + (1 - 1) /\ 1 <= Len(retained) + 1
      BY <3>1, <1>1 DEF OrderInv
    <3> QED BY <2>1, <3>1, <3>2, <3>3 DEF OrderInv
  <2>3. CASE ~RuntimeDone
    <3>1. /\ pc' # "done" => pc # "done"
          /\ sem' = 0 => sem = 0 /\ (pc' # "done" => cur' >= cur)
          /\ pc' = "spool" => pc = "spool" /\ sem' = sem
          /\ pc = "spool" => pc' \in {"spool", "done"}
      BY <1>5, <2>3, Progress
    <3>2. pc' # "done" /\ sem' = 0 => \A i \in ToSet(compact') : i < cur'
      <4>1. SUFFICES ASSUME pc' # "done", sem' = 0, NEW i \in ToSet(compact) PROVE i < cur'
        BY <2>1
      <4>2. i < cur /\ cur' >= cur
        BY <4>1, <3>1 DEF OrderInv
      <4>3. i \in Nat /\ cur' \in Nat
        BY <1>1, <1>2, PlaceStep DEF PlaceTypes
      <4> QED BY <4>2, <4>3, <1>2
    <3>3. pc' # "done" =>
             \A j \in DOMAIN retained' :
                retained'[j] \in ToSet(spooled') <=> pc' = "spool" /\ j < sem'
      BY <2>1, <3>1 DEF OrderInv
    <3>4. /\ pc' = "spool" => sem' <= Len(retained') + 1
          /\ pc' \notin {"spool", "done"} => Len(spooled') + Len(retained') = Len(compact')
          /\ pc' = "spool" => Len(spooled') + Len(retained') = Len(compact') + (sem' - 1)
      BY <2>1, <3>1 DEF OrderInv
    <3>5. /\ IsInjective(retained') /\ IsInjective(spooled')
          /\ ToSet(compact') = ToSet(spooled') \cup ToSet(retained')
      BY <2>1 DEF OrderInv
    <3> QED BY <3>2, <3>3, <3>4, <3>5 DEF OrderInv
  <2> QED BY <2>2, <2>3
<1> QED BY <1>3, <1>4, <1>5

\* Success is said when the last retained report has been spooled.
LEMMA LostStep ==
    ASSUME PlaceTypes, PlaceInv, BookTypes, OrderInv, NoReportLost, [Next]_vars
    PROVE  NoReportLost'
<1>1. SUFFICES ASSUME exit' = "Success"
               PROVE  IsInjective(spooled') /\ ToSet(spooled') = ToSet(compact')
  BY DEF NoReportLost
<1>2. CASE Finish
  <2>1. /\ pc = "spool" /\ sem > Len(retained)
        /\ spooled' = spooled /\ compact' = compact /\ retained' = retained
    BY <1>2 DEF Finish, Abort, books
  <2>2. \A j \in DOMAIN retained : j < sem
    BY <2>1 DEF BookTypes, PlaceTypes
  <2>3. ToSet(retained) \subseteq ToSet(spooled)
    BY <2>1, <2>2 DEF OrderInv, ToSet
  <2> QED BY <2>1, <2>3 DEF OrderInv
<1>3. CASE ~Finish
  <2>1. exit = "Success"
    BY <1>1, <1>3, Progress
  <2>2. CASE UNCHANGED books
    BY <2>1, <2>2 DEF NoReportLost, books
  <2>3. CASE AnalysisFails
    BY <2>1, <2>3 DEF NoReportLost, AnalysisFails
  <2>4. CASE Relate
    BY <2>1, <2>4 DEF NoReportLost, Relate
  <2>5. CASE Index \/ SpoolRetained
    BY <2>1, <2>5 DEF Index, SpoolRetained, PlaceInv
  <2> QED BY <2>2, <2>3, <2>4, <2>5, BooksFrame
<1> QED BY <1>2, <1>3

LEMMA RetentionStep ==
    ASSUME PlaceTypes, PlaceInv, BookTypes, OrderInv, RetentionInv, [Next]_vars
    PROVE  RetentionInv'
<1>1. env'.chmods = 0 => env.chmods = 0 /\ exec' = exec
  BY EnvStep
<1>2. sem' = 0 => sem = 0
  BY Progress
<1>3. dir' = dir
  BY ConstantInput
<1>4. compact \in Seq(Inputs) /\ retained \in Seq(Inputs)
  BY DEF BookTypes
<1>5. CASE AnalysisFails
  <2>1. /\ failed' = failed \cup {cur} /\ mutated' = mutated /\ pc = "next"
        /\ compact' = compact /\ retained' = retained
    BY <1>5 DEF AnalysisFails, AtCandidate
  <2>2. mutated = {}
    BY <2>1 DEF PlaceInv, RetentionInv
  <2>3. env'.chmods = 0 => \A i : RequiresRetention(i)' => RequiresRetention(i)
    BY <1>1, <1>3, <2>1 DEF RequiresRetention
  <2> QED BY <1>1, <2>1, <2>2, <2>3 DEF RetentionInv
<1>6. CASE Index
  <2>1. cur \in Inputs
    BY <1>6, CurrentInput DEF Index
  <2>2. /\ compact' = Append(compact, cur) /\ failed' = failed /\ mutated' = mutated /\ sem' = sem
        /\ pc = "index"
        /\ IF RequiresRetention(cur) \/ (opt.run /\ Runnable(cur))
           THEN retained' = Append(retained, cur) ELSE retained' = retained
    BY <1>6 DEF Index
  <2>3. ToSet(compact') = ToSet(compact) \cup {cur}
    BY <1>4, <2>1, <2>2, AppendFacts
  <2>4. ToSet(Append(retained, cur)) = ToSet(retained) \cup {cur}
    BY <1>4, <2>1, AppendFacts
  <2>5. /\ ToSet(retained) \subseteq ToSet(retained')
        /\ RequiresRetention(cur) => cur \in ToSet(retained')
    BY <2>2, <2>4
  <2>6. mutated = {}
    BY <2>2 DEF PlaceInv, RetentionInv
  <2>7. env'.chmods = 0 => \A i : RequiresRetention(i)' <=> RequiresRetention(i)
    BY <1>1, <1>3, <2>2 DEF RequiresRetention
  <2> QED BY <1>1, <2>2, <2>3, <2>5, <2>6, <2>7 DEF RetentionInv
<1>7. CASE Relate
  <2>1. /\ mutated' = Mutated /\ sem' = 1 /\ failed' = failed
        /\ compact' = compact /\ retained' = retained
    BY <1>7 DEF Relate
  <2>2. \A i \in Mutated : i \in ToSet(compact) /\ RequiresRetention(i)
    BY DEF Mutated, Analysed, RequiresRetention
  <2>3. env'.chmods = 0 => \A i : RequiresRetention(i)' <=> RequiresRetention(i)
    BY <1>1, <1>3, <2>1 DEF RequiresRetention
  <2> QED BY <1>1, <2>1, <2>2, <2>3 DEF RetentionInv
<1>8. CASE ~AnalysisFails /\ ~Index /\ ~Relate
  <2>1. /\ failed' = failed /\ mutated' = mutated /\ compact' = compact /\ retained' = retained
    <3>1. CASE SpoolRetained
      BY <3>1 DEF SpoolRetained
    <3> QED BY <3>1, <1>8, BooksFrame DEF books
  <2>2. env'.chmods = 0 => \A i : RequiresRetention(i)' <=> RequiresRetention(i)
    BY <1>1, <1>3, <2>1 DEF RequiresRetention
  <2> QED BY <1>1, <1>2, <2>1, <2>2 DEF RetentionInv
<1> QED BY <1>5, <1>6, <1>7, <1>8

\* The two places that could miss a retained report do not.
LEMMA CoverageStep ==
    ASSUME PlaceTypes, PlaceInv, BookTypes, OrderInv, RetentionInv, RetentionCoversMutation,
           [Next]_vars
    PROVE  RetentionCoversMutation'
<1>1. SUFFICES ASSUME env'.chmods = 0, exit' = "directory_retention" PROVE FALSE
  BY DEF RetentionCoversMutation
<1>2. env.chmods = 0 /\ exit # "directory_retention"
  BY <1>1, EnvStep DEF RetentionCoversMutation
<1>3. CASE Finish
  <2>1. pc = "spool" /\ sem > Len(retained) /\ Len(spooled) # Len(compact)
    BY <1>1, <1>3 DEF Finish, Abort
  <2>2. sem <= Len(retained) + 1 /\ Len(spooled) + Len(retained) = Len(compact) + (sem - 1)
    BY <2>1 DEF OrderInv
  <2>3. /\ Len(compact) \in Nat /\ Len(retained) \in Nat /\ Len(spooled) \in Nat /\ sem \in Nat
    BY DEF BookTypes, PlaceTypes
  <2> QED BY <2>1, <2>2, <2>3
<1>4. CASE CheckRetention
  <2>1. ~(mutated \subseteq ToSet(retained))
    BY <1>1, <1>2, <1>4 DEF CheckRetention, Abort
  <2> QED BY <1>2, <2>1 DEF RetentionInv
<1> QED BY <1>1, <1>2, <1>3, <1>4, Progress

-----------------------------------------------------------------------------
(* The time granted *)

LEMMA GrantFits ==
    ASSUME TotalSpent \in Nat, TotalSpent < TotalMs
    PROVE  Grant \in Nat /\ TotalSpent + Grant <= TotalMs
BY PipelineAssumption DEF Grant

\* Only what is retained, wanted and within the limits is started.
LEMMA StartedWhen ==
    ASSUME NEW low \in BOOLEAN, RuntimeSkip(low) = "none",
           TotalSpent \in Nat, Targets \in Nat, opt.run_all \in BOOLEAN
    PROVE  /\ cur \in ToSet(retained) /\ TotalSpent < TotalMs
           /\ ~opt.run_all => Targets < MaxTargets
<1>1. cur \in ToSet(retained)
  BY DEF RuntimeSkip
<1>2. Runnable(cur)
  BY <1>1 DEF RuntimeSkip
<1>3. ~opt.run_all => ~low
  BY <1>1, <1>2 DEF RuntimeSkip
<1>4. ~opt.run_all => ~(Targets >= MaxTargets)
  BY <1>1, <1>2, <1>3 DEF RuntimeSkip
<1>5. ~opt.run_all => Targets < MaxTargets
  BY <1>4, PipelineAssumption
<1>6. ~(TotalSpent >= TotalMs)
  BY <1>1, <1>2, <1>3, <1>5 DEF RuntimeSkip
<1> QED BY <1>1, <1>5, <1>6, PipelineAssumption

LEMMA SpentFacts ==
    ASSUME PlaceTypes, RunTypes
    PROVE  /\ Len(dir) \in Nat /\ Inputs = 1 .. Len(dir) /\ IsFiniteSet(Inputs)
           /\ TotalSpent \in Nat
           /\ IsFiniteSet({i \in Inputs : spent[i] > 0}) /\ Targets \in Nat
<1>1. Len(dir) \in Nat /\ Inputs = 1 .. Len(dir)
  BY DEF PlaceTypes, Inputs
<1>2. IsFiniteSet(Inputs)
  BY <1>1, FS_Interval
<1>3. TotalSpent \in Nat
  BY <1>1, TotalType DEF TotalSpent, RunTypes
<1>4. IsFiniteSet({i \in Inputs : spent[i] > 0}) /\ Targets \in Nat
  BY <1>2, FS_Subset, FS_CardinalityType DEF Targets
<1> QED BY <1>1, <1>2, <1>3, <1>4

\* What a step of the runtime grants.
LEMMA RuntimeGrant ==
    ASSUME PlaceTypes, PlaceInv, RunTypes, RuntimeStep
    PROVE  /\ cur \in Inputs /\ pc = "runtime" /\ pc' = "runtime" /\ cur' = cur + 1
           /\ retained' = retained /\ rstate' \in [Inputs -> RStates]
           /\ \/ spent' = spent
              \/ /\ cur \in ToSet(retained) /\ opt.run /\ Grant \in Nat
                 /\ spent' = [spent EXCEPT ![cur] = Grant]
                 /\ TotalSpent + Grant <= TotalMs
                 /\ ~opt.run_all => Targets < MaxTargets
<1>1. cur \in Inputs /\ pc = "runtime" /\ pc' = "runtime" /\ cur' = cur + 1 /\ opt.run
  BY DEF RuntimeStep, AtRuntime, PlaceTypes, PlaceInv, Inputs
<1>2. retained' = retained
  BY DEF RuntimeStep, books
<1>3. PICK low \in BOOLEAN :
         IF RuntimeSkip(low) # "none"
         THEN rstate' = [rstate EXCEPT ![cur] = RuntimeSkip(low)] /\ spent' = spent
         ELSE /\ rstate' = [rstate EXCEPT ![cur] = "RAN"]
              /\ spent' = [spent EXCEPT ![cur] = Grant]
  BY DEF RuntimeStep
<1>4. CASE RuntimeSkip(low) # "none"
  <2>1. RuntimeSkip(low) \in RStates
    <3>1. RuntimeSkip(low) \in RStates \cup {"none"}
      BY DEF RuntimeSkip, RStates
    <3> QED BY <3>1, <1>4
  <2>2. rstate' \in [Inputs -> RStates]
    BY <1>3, <1>4, <2>1 DEF RunTypes
  <2> QED BY <1>1, <1>2, <1>3, <1>4, <2>2
<1>5. CASE RuntimeSkip(low) = "none"
  <2>1. "RAN" \in RStates
    BY DEF RStates
  <2>2. rstate' \in [Inputs -> RStates]
    BY <1>3, <1>5, <2>1 DEF RunTypes
  <2>3. opt.run_all \in BOOLEAN
    BY DEF PlaceTypes
  <2>4. /\ cur \in ToSet(retained) /\ TotalSpent < TotalMs
        /\ ~opt.run_all => Targets < MaxTargets
    BY <1>5, <2>3, SpentFacts, StartedWhen
  <2>5. Grant \in Nat /\ TotalSpent + Grant <= TotalMs
    BY <2>4, SpentFacts, GrantFits
  <2> QED BY <1>1, <1>2, <1>3, <1>5, <2>2, <2>4, <2>5
<1> QED BY <1>4, <1>5

LEMMA RunTypesStep ==
    ASSUME PlaceTypes, PlaceInv, RunTypes, [Next]_vars
    PROVE  RunTypes'
<1>1. Inputs' = Inputs
  BY ConstantInput
<1>2. CASE Index
  <2>1. cur \in Inputs /\ rstate[cur] \in RStates
    BY <1>2, CurrentInput DEF Index, RunTypes
  <2>2. "SKIPPED_STATIC_NOT_EXECUTABLE" \in RStates
    BY DEF RStates
  <2>3. rstate' \in [Inputs -> RStates] /\ spent' = spent
    BY <1>2, <2>1, <2>2 DEF Index, RunTypes
  <2> QED BY <1>1, <2>3 DEF RunTypes
<1>3. CASE RuntimeStep
  <2>1. spent' \in [Inputs -> Nat]
    BY <1>3, RuntimeGrant DEF RunTypes
  <2> QED BY <1>1, <1>3, <2>1, RuntimeGrant DEF RunTypes
<1>4. CASE UNCHANGED runtime
  BY <1>1, <1>4 DEF RunTypes, runtime
<1> QED BY <1>2, <1>3, <1>4, RuntimeFrame

LEMMA RunStep ==
    ASSUME PlaceTypes, PlaceInv, BookTypes, RunTypes, RunInv, RuntimeWithinBudget, [Next]_vars
    PROVE  RunInv' /\ RuntimeWithinBudget'
<1>1. Inputs' = Inputs /\ opt' = opt
  BY ConstantInput
<1>2. /\ pc' \in Early => pc \in Early
      /\ pc' = "runtime" => pc \in Early \/ (pc = "runtime" /\ cur' >= cur)
  BY Progress
<1>3. Inputs \subseteq Nat /\ cur \in Nat /\ cur' \in Nat
  BY SpentFacts, PlaceStep DEF PlaceTypes
<1>4. CASE RuntimeStep
  <2>1. /\ cur \in Inputs /\ pc = "runtime" /\ pc' = "runtime" /\ cur' = cur + 1
        /\ retained' = retained
    BY <1>4, RuntimeGrant
  <2>2. CASE spent' = spent
    <3>1. RunInv'
      BY <1>1, <1>3, <2>1, <2>2 DEF RunInv
    <3>2. TotalSpent' = TotalSpent /\ Targets' = Targets
      BY <1>1, <2>2 DEF TotalSpent, Targets
    <3> QED BY <1>1, <2>1, <2>2, <3>1, <3>2 DEF RuntimeWithinBudget
  <2>3. CASE /\ cur \in ToSet(retained) /\ opt.run /\ Grant \in Nat
             /\ spent' = [spent EXCEPT ![cur] = Grant]
             /\ TotalSpent + Grant <= TotalMs
             /\ ~opt.run_all => Targets < MaxTargets
    <3>1. spent \in [Inputs -> Nat] /\ spent[cur] = 0
      BY <1>3, <2>1 DEF RunTypes, RunInv
    <3>2. spent'[cur] = Grant /\ \A i \in Inputs : i # cur => spent'[i] = spent[i]
      BY <2>1, <2>3, <3>1
    <3>3. RunInv'
      BY <1>1, <1>3, <2>1, <3>2 DEF RunInv
    <3>4. TotalSpent' = TotalSpent + Grant
      <4>1. spent' = [spent EXCEPT ![cur] = spent[cur] + Grant]
        BY <2>3, <3>1
      <4>2. spent \in [1 .. Len(dir) -> Nat] /\ cur \in 1 .. Len(dir) /\ Len(dir) \in Nat
        BY <2>1, <3>1, SpentFacts
      <4>3. Total([spent EXCEPT ![cur] = spent[cur] + Grant]) = Total(spent) + Grant
        BY <2>3, <4>2, TotalAdd
      <4> QED BY <4>1, <4>3 DEF TotalSpent
    <3>5. Targets' <= Targets + 1 /\ Targets' \in Nat /\ Targets \in Nat
      <4> DEFINE T == {i \in Inputs : spent[i] > 0}
                 U == {i \in Inputs : spent'[i] > 0}
      <4>1. U \subseteq T \cup {cur}
        BY <3>2
      <4>2. IsFiniteSet(T) /\ Cardinality(T) = Targets /\ Targets \in Nat
        BY SpentFacts DEF Targets
      <4>3. Targets' = Cardinality(U)
        BY <1>1 DEF Targets
      <4> HIDE DEF T, U
      <4>4. IsFiniteSet(T \cup {cur})
        BY <4>2, FS_AddElement
      <4>5. Cardinality(T \cup {cur}) <= Targets + 1
        <5>1. \/ Cardinality(T \cup {cur}) = Cardinality(T)
              \/ Cardinality(T \cup {cur}) = Cardinality(T) + 1
          BY <4>2, FS_AddElement
        <5> QED BY <4>2, <5>1
      <4>6. Cardinality(U) <= Cardinality(T \cup {cur}) /\ IsFiniteSet(U)
        BY <4>1, <4>4, FS_Subset
      <4>7. Cardinality(U) \in Nat /\ Cardinality(T \cup {cur}) \in Nat
        BY <4>4, <4>6, FS_CardinalityType
      <4> QED BY <4>2, <4>3, <4>5, <4>6, <4>7
    <3>6. ~opt.run_all => Targets' <= MaxTargets
      <4>1. MaxTargets \in Nat
        BY PipelineAssumption
      <4> QED BY <2>3, <3>5, <4>1
    <3>7. \A i \in Inputs : spent'[i] > 0 => opt.run /\ i \in ToSet(retained)
      BY <2>3, <3>2 DEF RuntimeWithinBudget
    <3>8. TotalSpent' <= TotalMs
      BY <2>3, <3>4
    <3> QED BY <1>1, <2>1, <3>3, <3>6, <3>7, <3>8 DEF RuntimeWithinBudget
  <2> QED BY <1>4, <2>2, <2>3, RuntimeGrant
<1>5. CASE ~RuntimeStep
  <2>1. spent' = spent
    <3>1. CASE Index
      BY <3>1 DEF Index
    <3> QED BY <3>1, <1>5, RuntimeFrame DEF runtime
  <2>2. RunInv'
    <3>1. pc' \in Early => \A i \in Inputs : spent[i] = 0
      BY <1>2 DEF RunInv, Early
    <3>2. pc' = "runtime" => \A i \in Inputs : i >= cur' => spent[i] = 0
      BY <1>2, <1>3 DEF RunInv, Early
    <3> QED BY <1>1, <2>1, <3>1, <3>2 DEF RunInv, Early
  <2>3. TotalSpent' = TotalSpent /\ Targets' = Targets
    BY <1>1, <2>1 DEF TotalSpent, Targets
  <2>4. ToSet(retained) \subseteq ToSet(retained')
    <3>1. CASE Index
      <4>1. cur \in Inputs /\ retained \in Seq(Inputs)
        BY <3>1, CurrentInput DEF Index, BookTypes
      <4>2. ToSet(Append(retained, cur)) = ToSet(retained) \cup {cur}
        BY <4>1, AppendFacts
      <4>3. retained' = Append(retained, cur) \/ retained' = retained
        BY <3>1 DEF Index
      <4> QED BY <4>2, <4>3
    <3>2. CASE AnalysisFails
      BY <3>2 DEF AnalysisFails
    <3>3. CASE Relate
      BY <3>3 DEF Relate
    <3>4. CASE SpoolRetained
      BY <3>4 DEF SpoolRetained
    <3> QED BY <3>1, <3>2, <3>3, <3>4, BooksFrame DEF books
  <2> QED BY <1>1, <2>1, <2>2, <2>3, <2>4 DEF RuntimeWithinBudget
<1> QED BY <1>4, <1>5

-----------------------------------------------------------------------------
(* The artifact budget *)

LEMMA BoundedSeqFacts ==
    ASSUME NEW S, NEW n \in Nat, NEW s \in BoundedSeq(S, n)
    PROVE  s \in Seq(S) /\ Len(s) \in Nat
<1>1. PICK m \in 0 .. n : s \in [1 .. m -> S]
  BY DEF BoundedSeq, SeqOf
<1>2. m \in Nat
  BY <1>1
<1>3. s \in Seq(S)
  BY <1>1, <1>2, SeqDef
<1> QED BY <1>3

LEMMA OutputFacts ==
    ASSUME NEW i, NEW b, NEW f, NEW s \in Outputs(i, b, f)
    PROVE  s \in Seq(Contents) /\ Len(s) \in Nat /\ BytesOf(s) \in Nat
<1>1. s \in BoundedSeq(Contents, IF dir[i] \in Producers THEN MaxOutput ELSE 0)
  BY DEF Outputs
<1>2. (IF dir[i] \in Producers THEN MaxOutput ELSE 0) \in Nat
  BY PipelineAssumption
<1> QED BY <1>1, <1>2, BoundedSeqFacts, BytesOfType

LEMMA DecisiveFacts ==
    ASSUME NEW s \in Decisive
    PROVE  /\ s \in Seq(Contents) /\ Len(s) \in Nat /\ BytesOf(s) \in Nat
           /\ s # <<>> => BytesOf(s) <= Rest.bytes /\ Len(s) <= Rest.files - 1
           /\ s = <<>> => BytesOf(s) = 0 /\ Len(s) = 0
<1>1. s \in BoundedSeq(Contents, MaxOutput)
      /\ (s # <<>> => BytesOf(s) <= Rest.bytes /\ Len(s) <= Rest.files - 1)
  BY DEF Decisive
<1>2. s \in Seq(Contents) /\ Len(s) \in Nat /\ BytesOf(s) \in Nat
  BY <1>1, PipelineAssumption, BoundedSeqFacts, BytesOfType
<1>3. s = <<>> => BytesOf(s) = 0 /\ Len(s) = 0
  BY BytesOfNothing
<1> QED BY <1>1, <1>2, <1>3

\* b bytes in f files, and t files nobody counts, are added under root o.
Charged(o, b, f, t) ==
    /\ disk' = [disk EXCEPT ![o] = Plus(disk[o], b, f + t)]
    /\ used' = Plus(used, b, f)

LEMMA PlusFacts ==
    ASSUME NEW u \in Amounts, NEW b \in Nat, NEW f \in Nat
    PROVE  /\ Plus(u, b, f) \in Amounts
           /\ Plus(u, b, f).bytes = u.bytes + b /\ Plus(u, b, f).files = u.files + f
BY DEF Plus, Amounts

LEMMA ChargedFacts ==
    ASSUME PlaceTypes, DiskTypes, Inputs' = Inputs,
           NEW o \in Inputs, NEW b \in Nat, NEW f \in Nat, NEW t \in Nat, Charged(o, b, f, t)
    PROVE  /\ disk' \in [Inputs -> Amounts] /\ used' \in Amounts
           /\ used'.bytes = used.bytes + b /\ used'.files = used.files + f
           /\ Total([i \in Inputs |-> disk[i].bytes])'
                = Total([i \in Inputs |-> disk[i].bytes]) + b
           /\ Total([i \in Inputs |-> disk[i].files])'
                = Total([i \in Inputs |-> disk[i].files]) + (f + t)
           /\ disk'[o].files = disk[o].files + (f + t)
           /\ \A i \in Inputs : i # o => disk'[i] = disk[i]
<1>1. disk \in [Inputs -> Amounts] /\ used \in Amounts /\ f + t \in Nat
  BY DEF DiskTypes
<1>2. disk[o] \in Amounts
  BY <1>1
<1>3. /\ Plus(disk[o], b, f + t) \in Amounts
      /\ Plus(disk[o], b, f + t).bytes = disk[o].bytes + b
      /\ Plus(disk[o], b, f + t).files = disk[o].files + (f + t)
  BY <1>1, <1>2, PlusFacts
<1>4. /\ used' \in Amounts
      /\ used'.bytes = used.bytes + b /\ used'.files = used.files + f
  BY <1>1, PlusFacts DEF Charged
<1>5. /\ disk' \in [Inputs -> Amounts] /\ disk'[o] = Plus(disk[o], b, f + t)
      /\ \A i \in Inputs : i # o => disk'[i] = disk[i]
  BY <1>1, <1>3 DEF Charged
<1>6. Len(dir) \in Nat /\ Inputs = 1 .. Len(dir)
  BY DEF PlaceTypes, Inputs
<1> DEFINE B == [i \in Inputs |-> disk[i].bytes]
           F == [i \in Inputs |-> disk[i].files]
           C == [i \in Inputs |-> disk'[i].bytes]
           H == [i \in Inputs |-> disk'[i].files]
<1>7. \A i \in Inputs : disk[i].bytes \in Nat /\ disk[i].files \in Nat
  BY <1>1 DEF Amounts
<1>8. B \in [1 .. Len(dir) -> Nat] /\ F \in [1 .. Len(dir) -> Nat]
  BY <1>6, <1>7
<1>9. C = [B EXCEPT ![o] = B[o] + b]
  BY <1>3, <1>5
<1>10. H = [F EXCEPT ![o] = F[o] + (f + t)]
  BY <1>3, <1>5
<1>11. Total([i \in Inputs |-> disk[i].bytes])' = Total(C)
  <2>1. [i \in Inputs |-> disk[i].bytes]' = C
    OBVIOUS
  <2> QED BY <2>1 DEF Total, Cells
<1>12. Total([i \in Inputs |-> disk[i].files])' = Total(H)
  <2>1. [i \in Inputs |-> disk[i].files]' = H
    OBVIOUS
  <2> QED BY <2>1 DEF Total, Cells
<1>13. o \in 1 .. Len(dir)
  BY <1>6
<1> HIDE DEF B, C, F, H
<1>14. Total(C) = Total(B) + b
  BY <1>6, <1>8, <1>9, <1>13, TotalAdd
<1>15. Total(H) = Total(F) + (f + t)
  BY <1>1, <1>6, <1>8, <1>10, <1>13, TotalAdd
<1> QED BY <1>3, <1>4, <1>5, <1>11, <1>12, <1>14, <1>15 DEF B, F

LEMMA OwnerInput ==
    ASSUME PlaceTypes, PlaceInv, BookTypes, pc = "children"
    PROVE  Owner \in Inputs
<1>1. CASE sem = 0
  BY <1>1 DEF Owner, PlaceTypes, PlaceInv, Inputs
<1>2. CASE sem # 0
  BY <1>2 DEF Owner, PlaceTypes, PlaceInv, BookTypes
<1> QED BY <1>1, <1>2

LEMMA TargetInput ==
    ASSUME PlaceTypes, PlaceInv, BookTypes, AtTarget
    PROVE  sem >= 1 /\ sem # 0 /\ sem \in DOMAIN retained /\ retained[sem] \in Inputs
BY DEF PlaceTypes, PlaceInv, BookTypes, AtTarget

\* The checks before a child is analysed all passed.
LEMMA RoomWhenAdmitted ==
    ASSUME Admitting, Bounded
    PROVE  ~NoRoomLeft
<1>1. Refusal = "none"
  BY DEF Admitting
<1>2. SUFFICES ASSUME NoRoomLeft PROVE FALSE
  OBVIOUS
<1>3. ~TooDeep
  BY <1>1 DEF Refusal
<1>4. ~NoNodeLeft
  BY <1>1, <1>3 DEF Refusal
<1>5. ~OverBytes
  BY <1>1, <1>3, <1>4 DEF Refusal
<1> QED BY <1>1, <1>2, <1>3, <1>4, <1>5 DEF Refusal

\* The total that holds at this stage, and that it is kept to.
Room(b, f) ==
    /\ used.bytes + b <= MaxBytes /\ used.files + f <= MaxFiles
    /\ sem = 0 => used.bytes + b <= PreBytes /\ used.files + f <= PreFiles

LEMMA UsedNat ==
    ASSUME DiskTypes
    PROVE  used.bytes \in Nat /\ used.files \in Nat
BY DEF DiskTypes, Amounts

LEMMA KeptCharge ==
    ASSUME PlaceTypes, DiskTypes, PlaceInv, BudgetInv, Kept
    PROVE  /\ cur \in Inputs /\ sem = 0 /\ pc = "next" /\ Bounded
           /\ \E b, f \in Nat : Charged(cur, b, f, 0) /\ Room(b, f)
<1>1. cur \in Inputs /\ sem = 0 /\ pc = "next" /\ Bounded
  BY CurrentInput DEF Kept, AtCandidate, PlaceInv
<1>2. PICK s \in Outputs(cur, Remaining.bytes, Remaining.files) :
         /\ ~OverAllowance(s)
         /\ disk' = [disk EXCEPT ![cur] = Plus(@, BytesOf(s), Len(s))]
         /\ used' = Plus(used, BytesOf(s), Len(s))
  BY DEF Kept
<1>3. Len(s) \in Nat /\ BytesOf(s) \in Nat
  BY OutputFacts
<1>4. /\ used.bytes \in Nat /\ used.files \in Nat /\ PreBytes \in Nat /\ PreFiles \in Nat
      /\ MaxBytes \in Nat /\ MaxFiles \in Nat /\ PreBytes <= MaxBytes /\ PreFiles <= MaxFiles
  BY UsedNat, PipelineAssumption
<1>5. Remaining.bytes = Left(PreBytes, used.bytes) /\ Remaining.files = Left(PreFiles, used.files)
  BY DEF Remaining
<1>6. ~(BytesOf(s) > Left(PreBytes, used.bytes)) /\ ~(Len(s) > Left(PreFiles, used.files))
  BY <1>2, <1>5 DEF OverAllowance
<1>7. used.bytes <= PreBytes /\ used.files <= PreFiles
  BY <1>1 DEF BudgetInv
<1>8. used.bytes + BytesOf(s) <= PreBytes
  BY <1>3, <1>4, <1>6, <1>7 DEF Left
<1>9. used.files + Len(s) <= PreFiles
  BY <1>3, <1>4, <1>6, <1>7 DEF Left
<1>10. Room(BytesOf(s), Len(s))
  BY <1>3, <1>4, <1>8, <1>9 DEF Room
<1>11. Len(s) + 0 = Len(s)
  BY <1>3
<1>12. Charged(cur, BytesOf(s), Len(s), 0)
  BY <1>2, <1>11 DEF Charged
<1> QED BY <1>1, <1>3, <1>10, <1>12

LEMMA ReportedCharge ==
    ASSUME PlaceTypes, DiskTypes, PlaceInv, BookTypes, BudgetInv, ChildReported
    PROVE  /\ Owner \in Inputs /\ pc = "children" /\ Bounded
           /\ \E b, f \in Nat : Charged(Owner, b, f, 0) /\ Room(b, f)
<1>1. pc = "children" /\ Bounded /\ Admitting
  BY DEF ChildReported, Admitting, AtChild
<1>2. Owner \in Inputs
  BY <1>1, OwnerInput
<1>3. PICK n \in ReportSizes :
         /\ n <= Left(Limit.bytes, used.bytes)
         /\ disk' = [disk EXCEPT ![Owner] = Plus(@, n, 1)]
         /\ used' = Plus(used, n, 1)
  BY DEF ChildReported
<1>4. n \in Nat
  BY PipelineAssumption
<1>5. /\ used.bytes \in Nat /\ used.files \in Nat /\ PreBytes \in Nat /\ PreFiles \in Nat
      /\ MaxBytes \in Nat /\ MaxFiles \in Nat /\ PreBytes <= MaxBytes /\ PreFiles <= MaxFiles
  BY UsedNat, PipelineAssumption
<1>6. ~NoRoomLeft
  BY <1>1, RoomWhenAdmitted
<1>7. Room(n, 1)
  <2>1. CASE sem = 0
    <3>1. Limit.bytes = PreBytes /\ Limit.files = PreFiles
      BY <2>1 DEF Limit
    <3>2. ~(used.bytes >= PreBytes) /\ ~(used.files >= PreFiles)
      BY <1>6, <3>1 DEF NoRoomLeft
    <3>3. n <= Left(PreBytes, used.bytes)
      BY <1>3, <3>1
    <3>4. used.bytes + n <= PreBytes /\ used.files + 1 <= PreFiles
      BY <3>2, <3>3, <1>4, <1>5 DEF Left
    <3> QED BY <3>4, <1>4, <1>5 DEF Room
  <2>2. CASE sem # 0
    <3>1. Limit.bytes = MaxBytes /\ Limit.files = MaxFiles
      BY <2>2 DEF Limit
    <3>2. ~(used.bytes >= MaxBytes) /\ ~(used.files >= MaxFiles)
      BY <1>6, <3>1 DEF NoRoomLeft
    <3>3. n <= Left(MaxBytes, used.bytes)
      BY <1>3, <3>1
    <3>4. used.bytes + n <= MaxBytes /\ used.files + 1 <= MaxFiles
      BY <3>2, <3>3, <1>4, <1>5 DEF Left
    <3> QED BY <3>4, <2>2 DEF Room
  <2> QED BY <2>1, <2>2
<1>8. Charged(Owner, n, 1, 0)
  BY <1>3 DEF Charged
<1> QED BY <1>1, <1>2, <1>4, <1>7, <1>8

LEMMA NothingMore ==
    ASSUME DiskTypes, BudgetInv, Bounded
    PROVE  Room(0, 0)
BY UsedNat DEF BudgetInv, Room

LEMMA FailedCharge ==
    ASSUME PlaceTypes, DiskTypes, PlaceInv, BookTypes, BudgetInv, ChildReportFails
    PROVE  /\ Owner \in Inputs /\ pc = "children" /\ Bounded
           /\ \E t \in {0, 1} : Charged(Owner, 0, 0, t) /\ (t = 1 => env'.leaked = TRUE)
           /\ Room(0, 0)
<1>1. pc = "children" /\ Bounded
  BY DEF ChildReportFails, Admitting, AtChild
<1>2. Owner \in Inputs
  BY <1>1, OwnerInput
<1>3. PICK left \in BOOLEAN :
         /\ disk' = [disk EXCEPT ![Owner] = Plus(@, 0, IF left THEN 1 ELSE 0)]
         /\ Faulted(left)
  BY DEF ChildReportFails
<1>4. used' = used
  BY DEF ChildReportFails
<1>5. used \in Amounts /\ used.bytes \in Nat /\ used.files \in Nat
  BY UsedNat DEF DiskTypes
<1>6. Plus(used, 0, 0) = used
  BY <1>5 DEF Plus, Amounts
<1>7. CASE left
  <2>1. Charged(Owner, 0, 0, 1)
    BY <1>3, <1>4, <1>6, <1>7 DEF Charged
  <2>2. env'.leaked = TRUE
    <3>1. env \in EnvRecords
      BY DEF PlaceTypes, EnvRecords
    <3> QED BY <1>3, <1>7, <3>1, FaultedEnv
  <2> QED BY <1>1, <1>2, <2>1, <2>2, NothingMore
<1>8. CASE ~left
  <2>1. Charged(Owner, 0, 0, 0)
    BY <1>3, <1>4, <1>6, <1>8 DEF Charged
  <2> QED BY <1>1, <1>2, <2>1, NothingMore
<1> QED BY <1>7, <1>8

\* What composing for a target charges, says and leaves uncounted.
Outcome(b, f, t, short) ==
    /\ Charged(retained[sem], b, f, t) /\ Room(b, f) /\ (t = 1 => env'.leaked = TRUE)
    /\ call' = [refused |-> short, skips |-> FALSE, added |-> f > 0]
    /\ partial' = (partial \/ short)
    /\ f = 0 /\ t = 0 => short

LEMMA ComposeCharge ==
    ASSUME PlaceTypes, DiskTypes, PlaceInv, BookTypes, BudgetInv, Compose
    PROVE  /\ sem \in DOMAIN retained /\ retained[sem] \in Inputs /\ sem # 0 /\ Bounded
           /\ \E b, f \in Nat, t \in {0, 1}, short \in BOOLEAN : Outcome(b, f, t, short)
<1>1. sem \in DOMAIN retained /\ retained[sem] \in Inputs /\ sem # 0 /\ Bounded
  BY TargetInput DEF Compose
<1>2. PICK s \in Decisive, n \in ReportSizes, cut \in BOOLEAN :
          \/ /\ MapRefused(s, n)
             /\ Composed(retained[sem], s, BytesOf(s), Len(s), 0, TRUE) /\ UNCHANGED env
          \/ /\ ~MapRefused(s, n)
             /\ Composed(retained[sem], s, BytesOf(s) + n, Len(s) + 1, 0, Tight(cut))
             /\ UNCHANGED env
          \/ /\ ~MapRefused(s, n) /\ Fault
             /\ Composed(retained[sem], s, BytesOf(s), Len(s), 1, Tight(cut)) /\ Faulted(TRUE)
  BY DEF Compose
<1>3. /\ Len(s) \in Nat /\ BytesOf(s) \in Nat
      /\ s # <<>> => BytesOf(s) <= Rest.bytes /\ Len(s) <= Rest.files - 1
      /\ s = <<>> => BytesOf(s) = 0 /\ Len(s) = 0
  BY DecisiveFacts
<1>4. n \in Nat
  BY PipelineAssumption
<1>5. /\ used.bytes \in Nat /\ used.files \in Nat /\ MaxBytes \in Nat /\ MaxFiles \in Nat
      /\ used.bytes <= MaxBytes /\ used.files <= MaxFiles
  BY <1>1, UsedNat, PipelineAssumption DEF BudgetInv
<1>6. Rest.bytes = Left(MaxBytes, used.bytes) /\ Rest.files = Left(MaxFiles, used.files)
  BY DEF Rest
<1>7. Rest.bytes = MaxBytes - used.bytes /\ Rest.files = MaxFiles - used.files
  BY <1>5, <1>6 DEF Left
<1>8. Room(BytesOf(s), Len(s))
  <2>1. used.bytes + BytesOf(s) <= MaxBytes
    BY <1>3, <1>5, <1>7
  <2>2. used.files + Len(s) <= MaxFiles
    BY <1>3, <1>5, <1>7
  <2> QED BY <1>1, <2>1, <2>2 DEF Room
<1>9. ~MapRefused(s, n) => Room(BytesOf(s) + n, Len(s) + 1)
  <2> SUFFICES ASSUME ~MapRefused(s, n) PROVE Room(BytesOf(s) + n, Len(s) + 1)
    OBVIOUS
  <2>1. ~(Len(s) >= Rest.files) /\ ~(n > Left(Rest.bytes, BytesOf(s)))
    BY DEF MapRefused
  <2>2. used.files + (Len(s) + 1) <= MaxFiles
    BY <2>1, <1>3, <1>5, <1>7
  <2>3. BytesOf(s) <= Rest.bytes
    BY <1>3, <1>5, <1>7
  <2>4. used.bytes + (BytesOf(s) + n) <= MaxBytes
    <3>1. n <= Rest.bytes - BytesOf(s) \/ n = 0
      BY <2>1, <2>3, <1>3, <1>4, <1>5, <1>7 DEF Left
    <3> QED BY <3>1, <2>3, <1>3, <1>4, <1>5, <1>7
  <2> QED BY <1>1, <2>2, <2>4 DEF Room
<1>10. Tight(cut) \in BOOLEAN
  BY DEF Tight
<1>11. CASE /\ MapRefused(s, n)
            /\ Composed(retained[sem], s, BytesOf(s), Len(s), 0, TRUE) /\ UNCHANGED env
  <2>1. Charged(retained[sem], BytesOf(s), Len(s), 0)
    BY <1>11 DEF Composed, Charged
  <2>2. /\ call' = [refused |-> TRUE, skips |-> FALSE, added |-> Len(s) > 0]
        /\ partial' = (partial \/ TRUE)
    BY <1>11 DEF Composed
  <2>3. Outcome(BytesOf(s), Len(s), 0, TRUE)
    BY <1>8, <2>1, <2>2 DEF Outcome
  <2> QED BY <1>1, <1>3, <2>3
<1>12. CASE /\ ~MapRefused(s, n)
            /\ Composed(retained[sem], s, BytesOf(s) + n, Len(s) + 1, 0, Tight(cut))
            /\ UNCHANGED env
  <2>1. Charged(retained[sem], BytesOf(s) + n, Len(s) + 1, 0)
    BY <1>12 DEF Composed, Charged
  <2>2. /\ call' = [refused |-> Tight(cut), skips |-> FALSE, added |-> Len(s) + 1 > 0]
        /\ partial' = (partial \/ Tight(cut))
    BY <1>12 DEF Composed
  <2>3. BytesOf(s) + n \in Nat /\ Len(s) + 1 \in Nat /\ Len(s) + 1 # 0
    BY <1>3, <1>4
  <2>4. Outcome(BytesOf(s) + n, Len(s) + 1, 0, Tight(cut))
    BY <1>9, <1>12, <2>1, <2>2, <2>3 DEF Outcome
  <2> QED BY <1>1, <1>10, <2>3, <2>4
<1>13. CASE /\ ~MapRefused(s, n) /\ Fault
            /\ Composed(retained[sem], s, BytesOf(s), Len(s), 1, Tight(cut)) /\ Faulted(TRUE)
  <2>1. Charged(retained[sem], BytesOf(s), Len(s), 1)
    BY <1>13 DEF Composed, Charged
  <2>2. /\ call' = [refused |-> Tight(cut), skips |-> FALSE, added |-> Len(s) > 0]
        /\ partial' = (partial \/ Tight(cut))
    BY <1>13 DEF Composed
  <2>3. env'.leaked = TRUE
    <3>1. env \in EnvRecords
      BY DEF PlaceTypes, EnvRecords
    <3> QED BY <1>13, <3>1, FaultedEnv
  <2>4. Outcome(BytesOf(s), Len(s), 1, Tight(cut))
    BY <1>8, <2>1, <2>2, <2>3 DEF Outcome
  <2> QED BY <1>1, <1>3, <1>10, <2>4
<1> QED BY <1>2, <1>11, <1>12, <1>13

\* Every step leaves the disk and the books of the budget alone or adds to both.
LEMMA Charges ==
    ASSUME PlaceTypes, DiskTypes, PlaceInv, BookTypes, BudgetInv, [Next]_vars
    PROVE  \/ disk' = disk /\ used' = used
           \/ \E o \in Inputs, b, f, t \in Nat :
                 /\ Charged(o, b, f, t) /\ Room(b, f) /\ (t # 0 => env'.leaked = TRUE)
<1>1. CASE Kept
  BY <1>1, KeptCharge
<1>2. CASE ChildReported
  BY <1>2, ReportedCharge
<1>3. CASE ChildReportFails
  BY <1>3, FailedCharge
<1>4. CASE Compose
  BY <1>4, ComposeCharge DEF Outcome
<1> QED BY <1>1, <1>2, <1>3, <1>4, DiskFrame

LEMMA BudgetStep ==
    ASSUME PlaceTypes, DiskTypes, PlaceInv, BookTypes, BudgetInv, [Next]_vars
    PROVE  BudgetInv'
<1>1. Inputs' = Inputs /\ Bounded' = Bounded
  BY ConstantInput
<1>2. sem' = 0 => sem = 0
  BY Progress
<1>3. env'.leaked = FALSE => env.leaked = FALSE
  BY EnvStep
<1>4. env'.leaked \in BOOLEAN /\ env.leaked \in BOOLEAN
  BY EnvStep DEF EnvRecords, PlaceTypes
<1>5. SUFFICES ASSUME Bounded PROVE BudgetInv'
  BY <1>1 DEF BudgetInv
<1>6. CASE disk' = disk /\ used' = used
  <2>1. /\ Total([i \in Inputs |-> disk[i].bytes])' = Total([i \in Inputs |-> disk[i].bytes])
        /\ Total([i \in Inputs |-> disk[i].files])' = Total([i \in Inputs |-> disk[i].files])
    BY <1>1, <1>6 DEF Total, Cells
  <2> QED BY <1>1, <1>2, <1>3, <1>4, <1>5, <1>6, <2>1 DEF BudgetInv
<1>7. CASE \E o \in Inputs, b, f, t \in Nat :
              /\ Charged(o, b, f, t) /\ Room(b, f) /\ (t # 0 => env'.leaked = TRUE)
  <2>1. PICK o \in Inputs, b \in Nat, f \in Nat, t \in Nat :
              /\ Charged(o, b, f, t) /\ Room(b, f) /\ (t # 0 => env'.leaked = TRUE)
    BY <1>7
  <2>2. /\ used'.bytes = used.bytes + b /\ used'.files = used.files + f
        /\ Total([i \in Inputs |-> disk[i].bytes])'
             = Total([i \in Inputs |-> disk[i].bytes]) + b
        /\ Total([i \in Inputs |-> disk[i].files])'
             = Total([i \in Inputs |-> disk[i].files]) + (f + t)
    BY <1>1, <2>1, ChargedFacts
  <2>3. /\ used'.bytes <= MaxBytes /\ used'.files <= MaxFiles
        /\ sem' = 0 => used'.bytes <= PreBytes /\ used'.files <= PreFiles
    BY <1>2, <2>1, <2>2 DEF Room
  <2>4. ~env'.leaked =>
           /\ used'.bytes = Total([i \in Inputs |-> disk[i].bytes])'
           /\ used'.files = Total([i \in Inputs |-> disk[i].files])'
    <3>1. SUFFICES ASSUME ~env'.leaked
                   PROVE  /\ used'.bytes = Total([i \in Inputs |-> disk[i].bytes])'
                          /\ used'.files = Total([i \in Inputs |-> disk[i].files])'
      OBVIOUS
    <3>2. env.leaked = FALSE /\ t = 0
      BY <3>1, <1>3, <1>4, <2>1
    <3>3. /\ used.bytes = Total([i \in Inputs |-> disk[i].bytes])
          /\ used.files = Total([i \in Inputs |-> disk[i].files])
      BY <3>2, <1>5 DEF BudgetInv
    <3>4. f + t = f
      BY <3>2
    <3> QED BY <2>2, <3>3, <3>4
  <2> QED BY <2>3, <2>4 DEF BudgetInv
<1> QED BY <1>6, <1>7, Charges

-----------------------------------------------------------------------------
(* What is said of a candidate *)

Calls == [refused : BOOLEAN, skips : BOOLEAN, added : BOOLEAN]

LEMMA HandledFacts ==
    ASSUME DiskTypes, Owner \in Inputs, NEW g, NEW state, NEW hashed, NEW skip \in BOOLEAN,
           HandledAs(g, state, hashed, skip)
    PROVE  /\ omitted' \in [Inputs -> BOOLEAN] /\ call' \in Calls
           /\ call'.refused = call.refused /\ call'.added = call.added
<1>1. omitted' = [omitted EXCEPT ![Owner] = @ \/ skip]
  BY DEF HandledAs
<1>2. omitted \in [Inputs -> BOOLEAN] /\ call \in Calls
  BY DEF DiskTypes, Calls
<1>3. omitted[Owner] \/ skip \in BOOLEAN
  OBVIOUS
<1>4. omitted' \in [Inputs -> BOOLEAN]
  BY <1>1, <1>2
<1>5. call' = [call EXCEPT !.skips = call.skips \/ skip]
  BY DEF HandledAs
<1>6. call' = [refused |-> call.refused, skips |-> call.skips \/ skip, added |-> call.added]
  BY <1>2, <1>5 DEF Calls
<1>7. call'.refused = call.refused /\ call'.added = call.added
  BY <1>6
<1>8. call' \in Calls
  BY <1>2, <1>6 DEF Calls
<1> QED BY <1>4, <1>7, <1>8

\* The loop over the children only adds to what it says of their report.
LEMMA ChildCall ==
    ASSUME PlaceTypes, PlaceInv, BookTypes, DiskTypes, ChildStep
    PROVE  /\ omitted' \in [Inputs -> BOOLEAN] /\ call' \in Calls
           /\ call'.refused = call.refused /\ call'.added = call.added
<1>1. Owner \in Inputs
  BY ChildFrame, OwnerInput
<1>2. \E g, state, hashed : \E skip \in BOOLEAN : HandledAs(g, state, hashed, skip)
  <2>1. CASE ChildUnsafe
    BY <2>1 DEF ChildUnsafe
  <2>2. CASE ChildDuplicate
    BY <2>2 DEF ChildDuplicate
  <2>3. CASE ChildRefused
    BY <2>3 DEF ChildRefused
  <2>4. CASE ChildRootFails
    BY <2>4 DEF ChildRootFails
  <2>5. CASE ChildReported
    BY <2>5 DEF ChildReported
  <2>6. CASE ChildReportTooBig
    BY <2>6 DEF ChildReportTooBig
  <2>7. CASE ChildReportFails
    BY <2>7 DEF ChildReportFails
  <2>8. CASE ChildExtracted
    BY <2>8 DEF ChildExtracted
  <2> QED BY <2>1, <2>2, <2>3, <2>4, <2>5, <2>6, <2>7, <2>8 DEF ChildStep
<1> QED BY <1>1, <1>2, HandledFacts

\* Steps that say nothing of a candidate.
SilentStep ==
    \/ Unreadable \/ RollbackFails \/ Index \/ SpoolFails \/ Relate \/ NoInput
    \/ TargetSkipped \/ CheckRetention \/ RuntimeStep \/ RuntimeDone \/ SpoolRetained \/ Finish

LEMMA SilentFrame ==
    ASSUME SilentStep
    PROVE  /\ disk' = disk /\ used' = used /\ mstate' = mstate /\ omitted' = omitted
           /\ partial' = partial /\ call' = call
           /\ pc # "children" /\ pc # "done" /\ pc' # "children"
<1>1. CASE Unreadable
  BY <1>1 DEF Unreadable, Faulted, analysis, AtCandidate
<1>2. CASE RollbackFails
  BY <1>2 DEF RollbackFails, Abort, Faulted, analysis, AtCandidate
<1>3. CASE Index
  BY <1>3 DEF Index, analysis
<1>4. CASE SpoolFails
  BY <1>4 DEF SpoolFails, Abort, Faulted, analysis
<1>5. CASE Relate
  BY <1>5 DEF Relate, analysis
<1>6. CASE NoInput
  BY <1>6 DEF NoInput, Abort, analysis
<1>7. CASE TargetSkipped
  BY <1>7 DEF TargetSkipped, analysis, AtTarget
<1>8. CASE CheckRetention
  BY <1>8 DEF CheckRetention, Abort, analysis
<1>9. CASE RuntimeStep
  BY <1>9 DEF RuntimeStep, analysis, AtRuntime
<1>10. CASE RuntimeDone
  BY <1>10 DEF RuntimeDone, analysis
<1>11. CASE SpoolRetained
  BY <1>11 DEF SpoolRetained, analysis
<1>12. CASE Finish
  BY <1>12 DEF Finish, Abort, analysis
<1> QED BY <1>1, <1>2, <1>3, <1>4, <1>5, <1>6, <1>7, <1>8, <1>9, <1>10, <1>11, <1>12 DEF SilentStep

LEMMA RefusedFacts ==
    ASSUME PlaceTypes, PlaceInv, DiskTypes, UnsafeRoot \/ Deferred \/ RolledBack
    PROVE  /\ cur \in Inputs /\ pc = "next" /\ pc' = "index" /\ sem = 0 /\ sem' = 0 /\ cur' = cur
           /\ mstate' \in [Inputs -> MStates] /\ mstate'[cur] \notin Written
           /\ \A i \in Inputs : i # cur => mstate'[i] = mstate[i]
           /\ omitted' \in [Inputs -> BOOLEAN] /\ partial' = TRUE
           /\ call' = call /\ disk' = disk /\ used' = used
<1>1. cur \in Inputs /\ pc = "next" /\ sem = 0
  BY CurrentInput DEF UnsafeRoot, Deferred, RolledBack, AtCandidate, PlaceInv
<1>2. PICK state \in {"REFUSED_UNSAFE_ROOT", "DEFERRED"} : Refused(state)
  BY DEF UnsafeRoot, Deferred, RolledBack
<1>3. state \in MStates /\ state \notin Written
  BY DEF MStates, Written
<1>4. /\ mstate' = [mstate EXCEPT ![cur] = state] /\ omitted' = [omitted EXCEPT ![cur] = TRUE]
      /\ partial' = TRUE /\ pc' = "index" /\ cur' = cur /\ sem' = sem
      /\ call' = call /\ disk' = disk /\ used' = used
  BY <1>2 DEF Refused
<1>5. mstate \in [Inputs -> MStates] /\ omitted \in [Inputs -> BOOLEAN]
  BY DEF DiskTypes
<1>6. omitted' \in [Inputs -> BOOLEAN]
  BY <1>4, <1>5
<1> QED BY <1>1, <1>3, <1>4, <1>5, <1>6

LEMMA AnalysisFailsFacts ==
    ASSUME PlaceTypes, PlaceInv, DiskTypes, AnalysisFails
    PROVE  /\ cur \in Inputs /\ pc = "next" /\ pc' = "index" /\ sem = 0 /\ sem' = 0 /\ cur' = cur
           /\ mstate' \in [Inputs -> MStates] /\ (Bounded => mstate'[cur] \notin Written)
           /\ \A i \in Inputs : i # cur => mstate'[i] = mstate[i]
           /\ omitted' \in [Inputs -> BOOLEAN] /\ partial' \in BOOLEAN /\ (partial => partial')
           /\ call' = call /\ disk' = disk /\ used' = used
<1>1. cur \in Inputs /\ pc = "next" /\ sem = 0
  BY CurrentInput DEF AnalysisFails, AtCandidate, PlaceInv
<1>2. /\ mstate' = [mstate EXCEPT ![cur] = IF ~Bounded THEN @ ELSE
                                           IF BudgetExhausted THEN "DEFERRED" ELSE "NO_OUTPUT"]
      /\ omitted' = [omitted EXCEPT ![cur] = Bounded /\ BudgetExhausted]
      /\ partial' = (partial \/ (Bounded /\ BudgetExhausted))
      /\ pc' = "index" /\ cur' = cur /\ sem' = sem /\ call' = call /\ disk' = disk /\ used' = used
  BY DEF AnalysisFails
<1>3. mstate \in [Inputs -> MStates] /\ omitted \in [Inputs -> BOOLEAN]
  BY DEF DiskTypes
<1>4. partial \in BOOLEAN
  BY DEF DiskTypes
<1>5. "DEFERRED" \in MStates \ Written /\ "NO_OUTPUT" \in MStates \ Written
  BY DEF MStates, Written
<1>6. /\ mstate' \in [Inputs -> MStates] /\ (Bounded => mstate'[cur] \notin Written)
      /\ \A i \in Inputs : i # cur => mstate'[i] = mstate[i]
  <2>1. CASE ~Bounded
    BY <2>1, <1>1, <1>2, <1>3
  <2>2. CASE Bounded /\ BudgetExhausted
    BY <2>2, <1>1, <1>2, <1>3, <1>5
  <2>3. CASE Bounded /\ ~BudgetExhausted
    BY <2>3, <1>1, <1>2, <1>3, <1>5
  <2> QED BY <2>1, <2>2, <2>3
<1>7. omitted' \in [Inputs -> BOOLEAN]
  <2>1. (Bounded /\ BudgetExhausted) \in BOOLEAN
    OBVIOUS
  <2> QED BY <2>1, <1>2, <1>3
<1>8. partial' \in BOOLEAN /\ (partial => partial')
  BY <1>2, <1>4
<1> QED BY <1>1, <1>2, <1>6, <1>7, <1>8

LEMMA NoChildren == \A d : Pending(<<>>, d) = <<>>
<1>1. Highs(<<>>) = {}
  BY DEF Highs
<1>2. Cardinality(Highs(<<>>)) = 0
  BY <1>1, FS_EmptySet
<1>3. Children(<<>>) = <<>>
  BY <1>2 DEF Children
<1> QED BY <1>3 DEF Pending

LEMMA KeptFacts ==
    ASSUME PlaceTypes, PlaceInv, DiskTypes, Kept
    PROVE  /\ cur \in Inputs /\ pc = "next" /\ pc' = "children" /\ sem = 0 /\ sem' = 0 /\ cur' = cur
           /\ mstate' \in [Inputs -> MStates] /\ omitted' \in [Inputs -> BOOLEAN]
           /\ partial' = partial /\ call' = call
           /\ \A i \in Inputs : i # cur => mstate'[i] = mstate[i] /\ disk'[i] = disk[i]
           /\ mstate'[cur] \in Written => disk'[cur].files > 0
           /\ mstate'[cur] \notin Written => todo' = <<>> /\ disk'[cur].files = disk[cur].files
<1>1. cur \in Inputs /\ pc = "next" /\ sem = 0
  BY CurrentInput DEF Kept, AtCandidate, PlaceInv
<1>2. pc' = "children" /\ cur' = cur /\ sem' = sem /\ partial' = partial /\ call' = call
  BY DEF Kept
<1>3. PICK s \in Outputs(cur, Remaining.bytes, Remaining.files), cut \in BOOLEAN :
         /\ disk' = [disk EXCEPT ![cur] = Plus(@, BytesOf(s), Len(s))]
         /\ omitted' = [omitted EXCEPT ![cur] = cut]
         /\ mstate' = [mstate EXCEPT ![cur] =
                IF s = <<>> THEN "NO_OUTPUT" ELSE
                IF cut THEN "MATERIALIZED_PARTIAL" ELSE "MATERIALIZED"]
         /\ todo' = Pending(s, 1)
  BY DEF Kept
<1>4. /\ mstate \in [Inputs -> MStates] /\ omitted \in [Inputs -> BOOLEAN]
      /\ disk \in [Inputs -> Amounts]
  BY DEF DiskTypes
<1>5. Len(s) \in Nat /\ BytesOf(s) \in Nat /\ s \in Seq(Contents)
  BY OutputFacts
<1>6. disk[cur] \in Amounts /\ disk[cur].files \in Nat
  BY <1>1, <1>4 DEF Amounts
<1>7. disk'[cur].files = disk[cur].files + Len(s)
  BY <1>1, <1>3, <1>4, <1>5, <1>6, PlusFacts
<1>8. \A i \in Inputs : i # cur => mstate'[i] = mstate[i] /\ disk'[i] = disk[i]
  BY <1>3, <1>4
<1>9. omitted' \in [Inputs -> BOOLEAN]
  BY <1>3, <1>4
<1>10. CASE s = <<>>
  <2>1. mstate' = [mstate EXCEPT ![cur] = "NO_OUTPUT"]
    BY <1>3, <1>10
  <2>2. "NO_OUTPUT" \in MStates /\ "NO_OUTPUT" \notin Written
    BY DEF MStates, Written
  <2>3. mstate' \in [Inputs -> MStates] /\ mstate'[cur] \notin Written
    BY <1>1, <1>4, <2>1, <2>2
  <2>4. todo' = <<>>
    BY <1>3, <1>10, NoChildren
  <2>5. disk'[cur].files = disk[cur].files
    BY <1>6, <1>7, <1>10
  <2> QED BY <1>1, <1>2, <1>8, <1>9, <2>3, <2>4, <2>5
<1>11. CASE s # <<>>
  <2>1. PICK v \in {"MATERIALIZED_PARTIAL", "MATERIALIZED"} : mstate' = [mstate EXCEPT ![cur] = v]
    BY <1>3, <1>11
  <2>2. v \in MStates /\ v \in Written
    BY DEF MStates, Written
  <2>3. mstate' \in [Inputs -> MStates] /\ mstate'[cur] \in Written
    BY <1>1, <1>4, <2>1, <2>2
  <2>4. Len(s) > 0
    BY <1>5, <1>11
  <2>5. disk'[cur].files > 0
    BY <1>5, <1>6, <1>7, <2>4
  <2> QED BY <1>1, <1>2, <1>8, <1>9, <2>3, <2>5
<1> QED BY <1>10, <1>11

\* When the children are done the state of their report is settled.
LEMMA DoneFacts ==
    ASSUME PlaceTypes, PlaceInv, BookTypes, DiskTypes, ChildrenDone
    PROVE  /\ Owner \in Inputs /\ pc = "children" /\ pc' # "children" /\ pc' # "done"
           /\ sem = 0 => pc' = "index" /\ sem' = 0 /\ cur' = cur
           /\ sem # 0 => sem' # 0 /\ sem' > 0
           /\ mstate' \in [Inputs -> MStates] /\ (Bounded => mstate'[Owner] = StateAfter)
           /\ \A i \in Inputs : i # Owner => mstate'[i] = mstate[i]
           /\ omitted' = omitted /\ partial' \in BOOLEAN /\ (partial => partial')
           /\ Bounded /\ sem # 0 /\ call.skips => partial'
           /\ call' \in Calls /\ disk' = disk /\ used' = used
<1>1. Owner \in Inputs /\ pc = "children"
  BY OwnerInput DEF ChildrenDone
<1>2. /\ mstate' = IF Bounded THEN [mstate EXCEPT ![Owner] = StateAfter] ELSE mstate
      /\ partial' = (partial \/ (Bounded /\ sem > 0 /\ call.skips))
      /\ pc' = IF sem = 0 THEN "index" ELSE "semantics"
      /\ sem' = IF sem = 0 THEN 0 ELSE sem + 1
      /\ call' = NoCall /\ cur' = cur /\ omitted' = omitted /\ disk' = disk /\ used' = used
  BY DEF ChildrenDone
<1>3. mstate \in [Inputs -> MStates] /\ partial \in BOOLEAN /\ sem \in Nat
  BY DEF DiskTypes, PlaceTypes
<1>4. StateAfter \in MStates
  <2>1. "MATERIALIZED_PARTIAL" \in MStates /\ "MATERIALIZED" \in MStates
    BY DEF MStates
  <2>2. mstate[Owner] \in MStates
    BY <1>1, <1>3
  <2>3. CASE sem = 0
    BY <2>1, <2>2, <2>3 DEF StateAfter, Owner
  <2>4. CASE sem # 0 /\ (call.refused \/ call.skips)
    BY <2>1, <2>4 DEF StateAfter
  <2>5. CASE sem # 0 /\ ~(call.refused \/ call.skips) /\ call.added
    BY <2>1, <2>5 DEF StateAfter
  <2>6. CASE sem # 0 /\ ~(call.refused \/ call.skips) /\ ~call.added
    BY <2>2, <2>6 DEF StateAfter
  <2> QED BY <2>3, <2>4, <2>5, <2>6
<1>5. /\ mstate' \in [Inputs -> MStates] /\ (Bounded => mstate'[Owner] = StateAfter)
      /\ \A i \in Inputs : i # Owner => mstate'[i] = mstate[i]
  <2>1. CASE Bounded
    BY <2>1, <1>1, <1>2, <1>3, <1>4
  <2>2. CASE ~Bounded
    BY <2>2, <1>1, <1>2, <1>3
  <2> QED BY <2>1, <2>2
<1>6. /\ sem = 0 => pc' = "index" /\ sem' = 0
      /\ sem # 0 => sem' # 0 /\ sem' > 0
      /\ pc' # "children" /\ pc' # "done"
  BY <1>2, <1>3
<1>7. partial' \in BOOLEAN /\ (partial => partial')
  BY <1>2, <1>3
<1>8. Bounded /\ sem # 0 /\ call.skips => partial'
  <2>1. sem # 0 => sem > 0
    BY <1>3
  <2>2. call.skips /\ Bounded /\ sem > 0 => partial'
    BY <1>2, Zenon
  <2> QED BY <2>1, <2>2
<1>9. call' \in Calls
  BY <1>2 DEF NoCall, Calls
<1> QED BY <1>1, <1>2, <1>5, <1>6, <1>7, <1>8, <1>9

LEMMA DiskTypesStep ==
    ASSUME PlaceTypes, DiskTypes, PlaceInv, BookTypes, BudgetInv, [Next]_vars
    PROVE  DiskTypes'
<1>1. Inputs' = Inputs
  BY ConstantInput
<1>2. disk' \in [Inputs -> Amounts] /\ used' \in Amounts
  <2>1. CASE disk' = disk /\ used' = used
    BY <2>1 DEF DiskTypes
  <2>2. CASE \E o \in Inputs, b, f, t \in Nat :
                /\ Charged(o, b, f, t) /\ Room(b, f) /\ (t # 0 => env'.leaked = TRUE)
    BY <1>1, <2>2, ChargedFacts
  <2> QED BY <2>1, <2>2, Charges
<1>3. /\ mstate \in [Inputs -> MStates] /\ omitted \in [Inputs -> BOOLEAN]
      /\ partial \in BOOLEAN /\ call \in Calls
  BY DEF DiskTypes, Calls
<1>4. /\ mstate' \in [Inputs -> MStates] /\ omitted' \in [Inputs -> BOOLEAN]
      /\ partial' \in BOOLEAN /\ call' \in Calls
  <2>1. CASE UnsafeRoot \/ Deferred \/ RolledBack
    BY <1>3, <2>1, RefusedFacts
  <2>2. CASE AnalysisFails
    BY <1>3, <2>2, AnalysisFailsFacts
  <2>3. CASE Kept
    BY <1>3, <2>3, KeptFacts
  <2>4. CASE ChildStep
    BY <1>3, <2>4, ChildCall, ChildFrame
  <2>5. CASE ChildrenDone
    BY <1>3, <2>5, DoneFacts
  <2>6. CASE Compose
    <3>1. PICK b \in Nat, f \in Nat, t \in {0, 1}, short \in BOOLEAN : Outcome(b, f, t, short)
      BY <2>6, ComposeCharge
    <3>2. call' = [refused |-> short, skips |-> FALSE, added |-> f > 0]
      BY <3>1 DEF Outcome
    <3>3. (f > 0) \in BOOLEAN
      OBVIOUS
    <3>4. call' \in Calls
      BY <3>2, <3>3 DEF Calls
    <3>5. partial' \in BOOLEAN
      BY <3>1, <1>3 DEF Outcome
    <3> QED BY <1>3, <2>6, <3>4, <3>5, ComposeFrame
  <2>7. CASE SilentStep
    BY <1>3, <2>7, SilentFrame
  <2>8. CASE Extracted \/ ComposeUnbounded
    BY <1>3, <2>8 DEF Extracted, ComposeUnbounded
  <2>9. CASE Chmod
    BY <1>3, <2>9 DEF Chmod, analysis
  <2>10. CASE UNCHANGED vars
    BY <1>3, <2>10 DEF vars, analysis
  <2> QED BY <2>1, <2>2, <2>3, <2>4, <2>5, <2>6, <2>7, <2>8, <2>9, <2>10, Cases
          DEF Step, ChildStep, SilentStep
<1> QED BY <1>1, <1>2, <1>4 DEF DiskTypes, Calls

\* A candidate about which nothing changes but that more may have been omitted.
LEMMA StateFitsStays ==
    ASSUME NEW i, StateFits(i), mstate'[i] = mstate[i], disk'[i] = disk[i],
           sem > 0 => sem' > 0, partial => partial'
    PROVE  StateFits(i)'
BY DEF StateFits

LEMMA StateStep ==
    ASSUME PlaceTypes, DiskTypes, PlaceInv, BookTypes, BudgetInv, StateInv, [Next]_vars
    PROVE  StateInv'
<1>1. Inputs' = Inputs /\ Bounded' = Bounded
  BY ConstantInput
<1>2. sem' = 0 => sem = 0
  BY Progress
<1>3. /\ env'.leaked = FALSE => env.leaked = FALSE
      /\ env'.leaked \in BOOLEAN /\ env.leaked \in BOOLEAN
  BY EnvStep DEF EnvRecords, PlaceTypes
<1>4. SUFFICES ASSUME Bounded PROVE StateInv'
  BY <1>1 DEF StateInv
<1>5. Inputs \subseteq Nat /\ cur \in Nat /\ sem \in Nat /\ sem' \in Nat
  BY PlaceStep DEF PlaceTypes, Inputs
<1>6. sem > 0 => sem' > 0
  BY <1>2, <1>5
<1>7. /\ pc # "done" /\ sem = 0 =>
            \A i \in Inputs : i > cur \/ (pc = "next" /\ i = cur) => disk[i].files = 0
      /\ env.leaked = FALSE =>
            /\ pc = "children" => StatePending
            /\ \A i \in Inputs :
                  pc \notin {"children", "done"} \/ (pc = "children" /\ i # Owner) => StateFits(i)
  BY <1>4 DEF StateInv
<1>8. disk \in [Inputs -> Amounts] /\ \A i \in Inputs : disk[i].files \in Nat
  BY DEF DiskTypes, Amounts
<1>9. CASE (UnsafeRoot \/ Deferred \/ RolledBack) \/ AnalysisFails
  <2>1. /\ cur \in Inputs /\ pc = "next" /\ pc' = "index" /\ sem = 0 /\ sem' = 0 /\ cur' = cur
        /\ mstate'[cur] \notin Written /\ (partial => partial') /\ disk' = disk
        /\ \A i \in Inputs : i # cur => mstate'[i] = mstate[i]
    BY <1>4, <1>9, RefusedFacts, AnalysisFailsFacts
  <2>2. disk[cur].files = 0
    BY <1>7, <2>1
  <2>3. \A i \in Inputs : i = cur => StateFits(i)'
    BY <2>1, <2>2 DEF StateFits, Written
  <2>4. env'.leaked = FALSE => \A i \in Inputs : i # cur => StateFits(i)'
    BY <1>3, <1>6, <1>7, <2>1, StateFitsStays
  <2>5. \A i \in Inputs : i > cur => disk'[i].files = 0
    BY <1>7, <2>1
  <2> QED BY <1>1, <1>3, <2>1, <2>3, <2>4, <2>5 DEF StateInv
<1>10. CASE Kept
  <2>1. /\ cur \in Inputs /\ pc = "next" /\ pc' = "children" /\ sem = 0 /\ sem' = 0 /\ cur' = cur
        /\ partial' = partial
        /\ \A i \in Inputs : i # cur => mstate'[i] = mstate[i] /\ disk'[i] = disk[i]
        /\ mstate'[cur] \in Written => disk'[cur].files > 0
        /\ mstate'[cur] \notin Written => todo' = <<>> /\ disk'[cur].files = disk[cur].files
    BY <1>10, KeptFacts
  <2>2. disk[cur].files = 0
    BY <1>7, <2>1
  <2>3. StatePending'
    BY <2>1, <2>2 DEF StatePending, Written
  <2>4. Owner' = cur
    BY <2>1 DEF Owner
  <2>5. env'.leaked = FALSE => \A i \in Inputs : i # cur => StateFits(i)'
    BY <1>3, <1>6, <1>7, <2>1, StateFitsStays
  <2>6. \A i \in Inputs : i > cur => disk'[i].files = 0
    <3>1. \A i \in Inputs : i > cur => i # cur
      BY <1>5
    <3> QED BY <1>7, <2>1, <3>1
  <2> QED BY <1>1, <1>3, <2>1, <2>3, <2>4, <2>5, <2>6 DEF StateInv
<1>11. CASE ChildStep
  <2>1. /\ pc = "children" /\ todo # <<>> /\ pc' = pc /\ cur' = cur /\ sem' = sem
        /\ retained' = retained /\ mstate' = mstate /\ partial' = partial
    BY <1>11, ChildFrame
  <2>2. Owner \in Inputs /\ Owner' = Owner
    BY <2>1, OwnerInput DEF Owner
  <2>3. call'.refused = call.refused /\ call'.added = call.added
    BY <1>11, ChildCall
  <2>4. /\ \A i \in Inputs : i # Owner => disk'[i] = disk[i]
        /\ disk[Owner].files > 0 => disk'[Owner].files > 0
    <3>1. CASE \E b, f, t \in Nat : Charged(Owner, b, f, t)
      <4>1. PICK b \in Nat, f \in Nat, t \in Nat : Charged(Owner, b, f, t)
        BY <3>1
      <4>2. /\ disk'[Owner].files = disk[Owner].files + (f + t)
            /\ \A i \in Inputs : i # Owner => disk'[i] = disk[i]
        BY <1>1, <2>2, <4>1, ChargedFacts
      <4>3. disk[Owner].files \in Nat
        BY <1>8, <2>2
      <4> QED BY <4>2, <4>3
    <3>2. CASE ChildReported
      BY <3>1, <3>2, ReportedCharge
    <3>3. CASE ChildReportFails
      BY <3>1, <3>3, FailedCharge
    <3>4. CASE disk' = disk
      BY <3>4
    <3>5. ~Kept /\ ~Compose
      BY <2>1 DEF Kept, AtCandidate, Compose, AtTarget
    <3> QED BY <3>2, <3>3, <3>4, <3>5, DiskFrame
  <2>5. env'.leaked = FALSE => StatePending'
    <3>1. SUFFICES ASSUME env'.leaked = FALSE PROVE StatePending'
      OBVIOUS
    <3>2. StatePending
      BY <1>3, <1>7, <2>1, <3>1
    <3>3. CASE sem = 0
      <4>1. Owner = cur
        BY <3>3 DEF Owner
      <4>2. mstate[cur] \in Written /\ disk'[cur].files > 0
        BY <2>1, <2>4, <3>2, <3>3, <4>1 DEF StatePending
      <4> QED BY <2>1, <3>3, <4>2 DEF StatePending
    <3>4. CASE sem # 0
      <4>1. Owner = retained[sem]
        BY <3>4 DEF Owner
      <4>2. /\ call.refused \/ call.added
            /\ call.refused => partial
            /\ call.added => disk'[retained[sem]].files > 0
        BY <2>4, <3>2, <3>4, <4>1 DEF StatePending
      <4> QED BY <2>1, <2>3, <3>4, <4>2 DEF StatePending
    <3> QED BY <3>3, <3>4
  <2>6. env'.leaked = FALSE => \A i \in Inputs : i # Owner => StateFits(i)'
    BY <1>3, <1>6, <1>7, <2>1, <2>4, StateFitsStays
  <2>7. sem = 0 => \A i \in Inputs : i > cur => disk'[i].files = 0
    <3>1. SUFFICES ASSUME sem = 0, NEW i \in Inputs, i > cur PROVE disk'[i].files = 0
      OBVIOUS
    <3>2. i # Owner
      BY <3>1, <1>5 DEF Owner
    <3> QED BY <1>7, <2>1, <2>4, <3>1, <3>2
  <2> QED BY <1>1, <1>3, <2>1, <2>2, <2>5, <2>6, <2>7 DEF StateInv
<1>12. CASE ChildrenDone
  <2>1. /\ Owner \in Inputs /\ pc = "children" /\ pc' # "children" /\ pc' # "done"
        /\ sem = 0 => pc' = "index" /\ sem' = 0 /\ cur' = cur
        /\ sem # 0 => sem' # 0 /\ sem' > 0
        /\ mstate'[Owner] = StateAfter
        /\ \A i \in Inputs : i # Owner => mstate'[i] = mstate[i]
        /\ partial => partial'
        /\ sem # 0 /\ call.skips => partial'
        /\ disk' = disk
    BY <1>4, <1>12, DoneFacts
  <2>2. env'.leaked = FALSE => \A i \in Inputs : i # Owner => StateFits(i)'
    BY <1>3, <1>6, <1>7, <2>1, StateFitsStays
  <2>3. env'.leaked = FALSE => \A i \in Inputs : i = Owner => StateFits(i)'
    <3>1. SUFFICES ASSUME env'.leaked = FALSE, NEW o \in Inputs, o = Owner PROVE StateFits(o)'
      OBVIOUS
    <3>2. StatePending
      BY <1>3, <1>7, <2>1, <3>1
    <3>3. mstate'[o] = StateAfter /\ disk'[o] = disk[o] /\ disk[o].files \in Nat
      BY <1>8, <2>1, <3>1
    <3>4. /\ disk[o].files > 0 => StateAfter \in Written
          /\ StateAfter = "MATERIALIZED" => disk[o].files > 0
          /\ StateAfter = "MATERIALIZED_PARTIAL" => disk[o].files > 0 \/ (sem' > 0 /\ partial')
      <4>1. CASE sem = 0
        <5>1. o = cur
          BY <3>1, <4>1 DEF Owner
        <5>2. /\ mstate[cur] \in Written => disk[cur].files > 0
              /\ mstate[cur] \notin Written => disk[cur].files = 0
          BY <3>2, <4>1 DEF StatePending
        <5>3. StateAfter = IF disk[cur].files > 0 /\ omitted[cur] THEN "MATERIALIZED_PARTIAL"
                           ELSE mstate[cur]
          BY <4>1 DEF StateAfter
        <5>4. CASE disk[cur].files > 0 /\ omitted[cur]
          BY <5>1, <5>3, <5>4 DEF Written
        <5>5. CASE ~(disk[cur].files > 0 /\ omitted[cur])
          BY <3>3, <5>1, <5>2, <5>3, <5>5 DEF Written
        <5> QED BY <5>4, <5>5
      <4>2. CASE sem # 0
        <5>1. o = retained[sem]
          BY <3>1, <4>2 DEF Owner
        <5>2. /\ call.refused \/ call.added
              /\ call.refused => partial
              /\ call.added => disk[retained[sem]].files > 0
          BY <3>2, <4>2 DEF StatePending
        <5>3. CASE call.refused \/ call.skips
          <6>1. StateAfter = "MATERIALIZED_PARTIAL"
            BY <4>2, <5>3 DEF StateAfter
          <6>2. partial' /\ sem' > 0
            BY <2>1, <4>2, <5>2, <5>3
          <6> QED BY <6>1, <6>2 DEF Written
        <5>4. CASE ~(call.refused \/ call.skips)
          <6>1. call.added
            BY <5>2, <5>4
          <6>2. StateAfter = "MATERIALIZED"
            BY <4>2, <5>4, <6>1 DEF StateAfter
          <6> QED BY <5>1, <5>2, <6>1, <6>2 DEF Written
        <5> QED BY <5>3, <5>4
      <4> QED BY <4>1, <4>2
    <3> QED BY <3>3, <3>4 DEF StateFits
  <2>4. sem' = 0 => \A i \in Inputs : i > cur' => disk'[i].files = 0
    BY <1>2, <1>7, <2>1
  <2> QED BY <1>1, <1>3, <2>1, <2>2, <2>3, <2>4 DEF StateInv
<1>13. CASE Compose
  <2>1. sem \in DOMAIN retained /\ retained[sem] \in Inputs /\ sem # 0
    BY <1>13, ComposeCharge
  <2>2. PICK b \in Nat, f \in Nat, t \in {0, 1}, short \in BOOLEAN : Outcome(b, f, t, short)
    BY <1>13, ComposeCharge
  <2>3. /\ pc = "semantics" /\ pc' = "children" /\ cur' = cur /\ sem' = sem /\ mstate' = mstate
        /\ retained' = retained
    BY <1>13, ComposeFrame DEF books
  <2>4. Charged(retained[sem], b, f, t) /\ t \in Nat
    BY <2>2 DEF Outcome
  <2>5. /\ disk'[retained[sem]].files = disk[retained[sem]].files + (f + t)
        /\ \A i \in Inputs : i # retained[sem] => disk'[i] = disk[i]
    BY <1>1, <2>1, <2>4, ChargedFacts
  <2>6. disk[retained[sem]].files \in Nat
    BY <1>8, <2>1
  <2>7. /\ t = 1 => env'.leaked = TRUE
        /\ call' = [refused |-> short, skips |-> FALSE, added |-> f > 0]
        /\ partial' = (partial \/ short)
        /\ f = 0 /\ t = 0 => short
    BY <2>2 DEF Outcome
  <2>8. env'.leaked = FALSE => StatePending'
    <3>1. SUFFICES ASSUME env'.leaked = FALSE PROVE StatePending'
      OBVIOUS
    <3>2. t = 0
      BY <2>7, <3>1
    <3>3. f = 0 \/ f > 0
      OBVIOUS
    <3>4. call'.refused = short /\ call'.added = (f > 0)
      BY <2>7
    <3>5. call'.refused \/ call'.added
      BY <2>7, <3>2, <3>3, <3>4
    <3>6. call'.refused => partial'
      BY <2>7, <3>4
    <3>7. call'.added => disk'[retained[sem]].files > 0
      <4>1. f > 0 => disk'[retained[sem]].files > 0
        BY <2>5, <2>6, <3>2
      <4> QED BY <3>4, <4>1, Zenon
    <3> QED BY <2>1, <2>3, <3>5, <3>6, <3>7 DEF StatePending
  <2>9. Owner' = retained[sem]
    BY <2>1, <2>3 DEF Owner
  <2>10. partial => partial'
    BY <2>7
  <2>11. env'.leaked = FALSE => \A i \in Inputs : i # retained[sem] => StateFits(i)'
    BY <1>3, <1>6, <1>7, <2>3, <2>5, <2>10, StateFitsStays
  <2> QED BY <1>1, <1>3, <2>1, <2>3, <2>8, <2>9, <2>11 DEF StateInv
<1>14. CASE SilentStep
  <2>1. /\ disk' = disk /\ mstate' = mstate /\ partial' = partial
        /\ pc # "children" /\ pc # "done" /\ pc' # "children"
    BY <1>14, SilentFrame
  <2>2. env'.leaked = FALSE => \A i \in Inputs : StateFits(i)'
    BY <1>3, <1>6, <1>7, <2>1, StateFitsStays
  <2>3. pc' # "done" /\ sem' = 0 =>
           \A i \in Inputs : i > cur' \/ (pc' = "next" /\ i = cur') => disk'[i].files = 0
    <3>1. SUFFICES ASSUME pc' # "done", sem' = 0, NEW i \in Inputs,
                          i > cur' \/ (pc' = "next" /\ i = cur')
                   PROVE  disk'[i].files = 0
      OBVIOUS
    <3>2. sem = 0
      BY <1>2, <3>1
    <3>3. Unreadable \/ Index
      <4>1. ~RollbackFails /\ ~SpoolFails /\ ~NoInput /\ ~Finish
        BY <3>1 DEF RollbackFails, SpoolFails, NoInput, Finish, Abort
      <4>2. ~Relate /\ ~RuntimeDone
        BY <3>1 DEF Relate, RuntimeDone
      <4>3. ~TargetSkipped /\ ~SpoolRetained
        BY <1>5, <3>1, <3>2 DEF TargetSkipped, SpoolRetained
      <4>4. ~CheckRetention /\ ~RuntimeStep
        BY <3>2 DEF CheckRetention, RuntimeStep, AtRuntime, PlaceInv
      <4> QED BY <1>14, <4>1, <4>2, <4>3, <4>4 DEF SilentStep
    <3>4. cur' = cur + 1
      BY <3>3 DEF Unreadable, Index
    <3>5. i > cur
      BY <1>5, <3>1, <3>4
    <3> QED BY <1>7, <2>1, <3>2, <3>5
  <2> QED BY <1>1, <1>3, <2>1, <2>2, <2>3 DEF StateInv
<1>15. CASE Chmod \/ UNCHANGED vars
  <2>1. /\ pc' = pc /\ cur' = cur /\ sem' = sem /\ retained' = retained /\ todo' = todo
        /\ disk' = disk /\ mstate' = mstate /\ partial' = partial /\ call' = call
    BY <1>15 DEF Chmod, vars, analysis, books
  <2>2. Owner' = Owner
    BY <2>1 DEF Owner
  <2>3. StatePending => StatePending'
    BY <2>1 DEF StatePending
  <2>4. \A i \in Inputs : StateFits(i) => StateFits(i)'
    BY <2>1 DEF StateFits
  <2> QED BY <1>1, <1>3, <1>7, <2>1, <2>2, <2>3, <2>4 DEF StateInv
<1>16. ~Extracted /\ ~ComposeUnbounded
  BY <1>4 DEF Extracted, ComposeUnbounded
<1> QED BY <1>9, <1>10, <1>11, <1>12, <1>13, <1>14, <1>15, <1>16, Cases
        DEF Step, ChildStep, SilentStep

-----------------------------------------------------------------------------
(* Child graphs *)

\* Steps that start no graph and add nothing to one.
PlainStep ==
    \/ Unreadable \/ AnalysisFails \/ UnsafeRoot \/ Deferred \/ RolledBack \/ RollbackFails
    \/ ChildrenDone \/ Index \/ SpoolFails \/ Relate \/ NoInput \/ TargetSkipped \/ CheckRetention
    \/ RuntimeStep \/ RuntimeDone \/ SpoolRetained \/ Finish

LEMMA PlainFrame ==
    ASSUME PlainStep
    PROVE  graph' = graph /\ pc' # "children"
<1>1. CASE Unreadable
  BY <1>1 DEF Unreadable, Faulted, analysis, AtCandidate
<1>2. CASE AnalysisFails
  BY <1>2 DEF AnalysisFails, AtCandidate
<1>3. CASE UnsafeRoot
  BY <1>3 DEF UnsafeRoot, Refused
<1>4. CASE Deferred
  BY <1>4 DEF Deferred, Refused
<1>5. CASE RolledBack
  BY <1>5 DEF RolledBack, Refused
<1>6. CASE RollbackFails
  BY <1>6 DEF RollbackFails, Abort, analysis
<1>7. CASE ChildrenDone
  BY <1>7 DEF ChildrenDone
<1>8. CASE Index
  BY <1>8 DEF Index, analysis
<1>9. CASE SpoolFails
  BY <1>9 DEF SpoolFails, Abort, analysis
<1>10. CASE Relate
  BY <1>10 DEF Relate, analysis
<1>11. CASE NoInput
  BY <1>11 DEF NoInput, Abort, analysis
<1>12. CASE TargetSkipped
  BY <1>12 DEF TargetSkipped, analysis, AtTarget
<1>13. CASE CheckRetention
  BY <1>13 DEF CheckRetention, Abort, analysis
<1>14. CASE RuntimeStep
  BY <1>14 DEF RuntimeStep, analysis, AtRuntime
<1>15. CASE RuntimeDone
  BY <1>15 DEF RuntimeDone, analysis
<1>16. CASE SpoolRetained
  BY <1>16 DEF SpoolRetained, analysis
<1>17. CASE Finish
  BY <1>17 DEF Finish, Abort, analysis
<1> QED BY <1>1, <1>2, <1>3, <1>4, <1>5, <1>6, <1>7, <1>8, <1>9,
       <1>10, <1>11, <1>12, <1>13, <1>14, <1>15, <1>16, <1>17 DEF PlainStep

\* What an EXCEPT leaves of a graph record.
LEMMA WithEnabled ==
    ASSUME NEW r, IsRecord(r), NEW v, NEW q, q = [r EXCEPT !.enabled = v]
    PROVE  /\ IsRecord(q) /\ q.enabled = v
           /\ q.nodes = r.nodes /\ q.bytes = r.bytes
           /\ q.truncated = r.truncated /\ q.edges = r.edges
BY DEF IsRecord

LEMMA WithNodes ==
    ASSUME NEW r, IsRecord(r), NEW v, NEW q, q = [r EXCEPT !.nodes = v]
    PROVE  /\ IsRecord(q) /\ q.nodes = v
           /\ q.enabled = r.enabled /\ q.bytes = r.bytes
           /\ q.truncated = r.truncated /\ q.edges = r.edges
BY DEF IsRecord

LEMMA NoGraphFacts ==
    /\ IsGraph(NoGraph) /\ IsRecord(NoGraph) /\ NoGraph.enabled = FALSE
    /\ NoGraph.truncated = FALSE /\ NoGraph.edges = {}
<1>1. /\ IsRecord(NoGraph) /\ NoGraph.enabled = FALSE /\ NoGraph.truncated = FALSE
      /\ NoGraph.edges = {}
  BY DEF IsRecord, NoGraph
<1> QED BY <1>1 DEF IsGraph

LEMMA NewGraphFacts ==
    /\ IsGraph(NewGraph) /\ NewGraph.enabled /\ "self" \in Accounted(NewGraph)
    /\ NewGraph.edges = {}
<1> DEFINE q == [NoGraph EXCEPT !.enabled = TRUE]
<1>1. IsRecord(q) /\ q.enabled = TRUE /\ q.truncated = FALSE /\ q.edges = {}
  <2>1. SUFFICES ASSUME NEW t, t = TRUE
                 PROVE  LET p == [NoGraph EXCEPT !.enabled = t]
                        IN IsRecord(p) /\ p.enabled = t /\ p.truncated = FALSE /\ p.edges = {}
    OBVIOUS
  <2> QED BY WithEnabled, NoGraphFacts
<1>2. NewGraph = [q EXCEPT !.nodes = 1]
  BY DEF NewGraph
<1> HIDE DEF q
<1>3. /\ IsRecord(NewGraph) /\ NewGraph.enabled = TRUE /\ NewGraph.truncated = FALSE
      /\ NewGraph.edges = {}
  BY <1>1, <1>2, WithNodes
<1> QED BY <1>3 DEF IsGraph, Accounted

LEMMA PendingNothing ==
    ASSUME NEW s, NEW d, Children(s) = <<>>
    PROVE  Pending(s, d) = <<>>
BY DEF Pending

\* A graph for input t is begun, or the old one goes on.
Begun(t, fresh) == graph' = [graph EXCEPT ![t] = IF fresh THEN NewGraph ELSE graph[t]]

LEMMA BegunFacts ==
    ASSUME DOMAIN graph = Inputs, \A i \in Inputs : IsGraph(graph[i]), Inputs' = Inputs,
           NEW t \in Inputs, NEW fresh \in BOOLEAN, Begun(t, fresh)
    PROVE  /\ DOMAIN graph' = Inputs /\ \A i \in Inputs : IsGraph(graph'[i])
           /\ graph'[t] = IF fresh THEN NewGraph ELSE graph[t]
<1>1. /\ DOMAIN graph' = Inputs /\ graph'[t] = IF fresh THEN NewGraph ELSE graph[t]
      /\ \A i \in Inputs : i # t => graph'[i] = graph[i]
  BY DEF Begun
<1>2. ASSUME NEW i \in Inputs PROVE IsGraph(graph'[i])
  <2>1. CASE i # t
    BY <1>1, <2>1
  <2>2. CASE i = t /\ fresh
    BY <1>1, <2>2, NewGraphFacts
  <2>3. CASE i = t /\ ~fresh
    BY <1>1, <2>3
  <2> QED BY <2>1, <2>2, <2>3
<1> QED BY <1>1, <1>2

\* What the loop adds to the graph of the report its children belong to.
LEMMA HandledGraph ==
    ASSUME DOMAIN graph = Inputs, \A i \in Inputs : IsGraph(graph[i]), Owner \in Inputs,
           G.enabled, ~G.truncated => known \subseteq Accounted(G),
           NEW g, NEW state, NEW hashed, NEW skip \in BOOLEAN,
           IsRecord(g), g.enabled = G.enabled, g.truncated = G.truncated, g.edges = G.edges,
           skip \/ state = "ANALYZED_STATIC" \/ Child.content \in known,
           known' \subseteq known \cup {Child.content},
           HandledAs(g, state, hashed, skip)
    PROVE  /\ DOMAIN graph' = Inputs /\ \A i \in Inputs : IsGraph(graph'[i])
           /\ graph'[Owner].enabled
           /\ ~graph'[Owner].truncated => known' \subseteq Accounted(graph'[Owner])
<1> DEFINE e == Edge(state, hashed)
           E == G.edges \cup {e}
           v == G.truncated \/ skip
           q == [g EXCEPT !.edges = E]
           h == [q EXCEPT !.truncated = v]
<1>1. G = graph[Owner] /\ IsGraph(G)
  BY DEF G
<1>2. e.content = Child.content /\ e.state = state
  BY DEF Edge
<1>3. v \in BOOLEAN /\ (v <=> G.truncated \/ skip)
  OBVIOUS
<1>4. graph' = [graph EXCEPT ![Owner] = h]
  BY DEF HandledAs
<1> HIDE DEF e, E, v
<1>13. q = [g EXCEPT !.edges = E]
  OBVIOUS
<1> HIDE DEF q
<1>14. h = [q EXCEPT !.truncated = v]
  OBVIOUS
<1> HIDE DEF h
<1>5. IsRecord(q) /\ q.edges = E /\ q.enabled = G.enabled /\ q.truncated = G.truncated
  BY <1>13 DEF IsRecord
<1>6. IsRecord(h) /\ h.edges = E /\ h.enabled = G.enabled /\ h.truncated = v
  BY <1>5, <1>14 DEF IsRecord
<1>7. DOMAIN graph' = Inputs /\ graph'[Owner] = h
      /\ \A i \in Inputs : i # Owner => graph'[i] = graph[i]
  BY <1>4
<1>8. Accounted(G) \subseteq Accounted(h)
  <2>1. G.edges \subseteq h.edges
    BY <1>6 DEF E
  <2> QED BY <2>1 DEF Accounted
<1>9. ASSUME ~h.truncated
      PROVE  known' \subseteq Accounted(h) /\ \A x \in h.edges : x.content \in Accounted(h)
  <2>1. ~G.truncated /\ ~skip
    BY <1>3, <1>6, <1>9
  <2>2. known \subseteq Accounted(h)
    BY <1>8, <2>1
  <2>3. Child.content \in Accounted(h)
    <3>1. CASE Child.content \in known
      BY <2>2, <3>1
    <3>2. CASE state = "ANALYZED_STATIC"
      <4>1. e \in {x \in h.edges : x.state = "ANALYZED_STATIC"}
        BY <1>2, <1>6, <3>2 DEF E
      <4> QED BY <1>2, <4>1 DEF Accounted
    <3> QED BY <2>1, <3>1, <3>2
  <2>4. \A x \in G.edges : x.content \in Accounted(h)
    BY <1>1, <1>8, <2>1 DEF IsGraph
  <2> QED BY <1>2, <1>6, <2>2, <2>3, <2>4 DEF E
<1>10. h.enabled \in BOOLEAN /\ h.truncated \in BOOLEAN /\ h.enabled
  <2>1. G.enabled \in BOOLEAN /\ G.truncated \in BOOLEAN
    BY <1>1 DEF IsGraph
  <2> QED BY <1>3, <1>6, <2>1
<1>11. IsGraph(h)
  BY <1>6, <1>9, <1>10 DEF IsGraph
<1>12. ASSUME NEW i \in Inputs PROVE IsGraph(graph'[i])
  <2>1. CASE i = Owner
    BY <1>7, <1>11, <2>1
  <2>2. CASE i # Owner
    BY <1>7, <2>2
  <2> QED BY <2>1, <2>2
<1> QED BY <1>7, <1>9, <1>10, <1>12

\* The node of an admitted child is paid for, nothing else changes.
LEMMA AdmittedFacts ==
    ASSUME IsRecord(G)
    PROVE  /\ IsRecord(Admitted) /\ Admitted.enabled = G.enabled
           /\ Admitted.truncated = G.truncated /\ Admitted.edges = G.edges
<1> DEFINE g == G
           n == g.nodes + 1
           b == g.bytes + SizeOf[Child.content]
           q == [g EXCEPT !.nodes = n]
           h == [q EXCEPT !.bytes = b]
<1>1. Admitted = h /\ IsRecord(g)
  BY DEF Admitted
<1> HIDE DEF n, b
<1>2. q = [g EXCEPT !.nodes = n]
  OBVIOUS
<1> HIDE DEF q
<1>3. h = [q EXCEPT !.bytes = b]
  OBVIOUS
<1> HIDE DEF h, g
<1>4. IsRecord(q) /\ q.enabled = g.enabled /\ q.truncated = g.truncated /\ q.edges = g.edges
  BY <1>1, <1>2 DEF IsRecord
<1>5. IsRecord(h) /\ h.enabled = g.enabled /\ h.truncated = g.truncated /\ h.edges = g.edges
  BY <1>3, <1>4 DEF IsRecord
<1> QED BY <1>1, <1>5 DEF g

\* How each outcome of a child enters the graph.
LEMMA ChildHandled ==
    ASSUME IsRecord(G), ChildStep
    PROVE  /\ known' \subseteq known \cup {Child.content}
           /\ \E g, state, hashed : \E skip \in BOOLEAN :
                 /\ IsRecord(g) /\ g.enabled = G.enabled /\ g.truncated = G.truncated
                 /\ g.edges = G.edges
                 /\ skip \/ state = "ANALYZED_STATIC" \/ Child.content \in known
                 /\ HandledAs(g, state, hashed, skip)
<1>1. CASE ChildUnsafe
  BY <1>1 DEF ChildUnsafe
<1>2. CASE ChildDuplicate
  BY <1>2 DEF ChildDuplicate, Duplicate
<1>3. CASE ChildRefused
  BY <1>3 DEF ChildRefused
<1>4. CASE ChildRootFails
  BY <1>4, AdmittedFacts DEF ChildRootFails
<1>5. CASE ChildReported
  BY <1>5, AdmittedFacts DEF ChildReported
<1>6. CASE ChildReportTooBig
  BY <1>6, AdmittedFacts DEF ChildReportTooBig
<1>7. CASE ChildReportFails
  BY <1>7, AdmittedFacts DEF ChildReportFails
<1>8. CASE ChildExtracted
  <2>1. PICK written \in BOOLEAN :
           HandledAs(Admitted, IF written THEN "ANALYZED_STATIC" ELSE "ANALYZED_REPORT_WRITE_FAILED",
                     TRUE, ~written)
    BY <1>8 DEF ChildExtracted
  <2>2. (~written) \in BOOLEAN /\ known' = known \cup {Child.content}
    BY <1>8 DEF ChildExtracted
  <2>3. CASE written
    BY <2>1, <2>2, <2>3, AdmittedFacts
  <2>4. CASE ~written
    BY <2>1, <2>2, <2>4, AdmittedFacts
  <2> QED BY <2>3, <2>4
<1> QED BY <1>1, <1>2, <1>3, <1>4, <1>5, <1>6, <1>7, <1>8 DEF ChildStep

\* The three steps that begin a child loop.
LEMMA BeginsLoop ==
    ASSUME PlaceTypes, PlaceInv, BookTypes, Kept \/ Extracted \/ Compose \/ ComposeUnbounded
    PROVE  \E t \in Inputs, fresh \in BOOLEAN :
              /\ pc' = "children" /\ Owner' = t /\ Begun(t, fresh)
              /\ ~fresh => todo' = <<>> \/ graph[t].enabled
              /\ known' = {"self"} \/ (known' = {"self"} \cup Hashed(graph[t])
                                       /\ (fresh => ~graph[t].enabled))
<1>1. CASE Kept \/ Extracted
  <2>1. cur \in Inputs /\ sem = 0 /\ pc' = "children" /\ cur' = cur /\ sem' = sem
        /\ known' = {"self"}
    BY <1>1, CurrentInput DEF Kept, Extracted, AtCandidate, PlaceInv
  <2>2. Owner' = cur
    BY <2>1 DEF Owner
  <2>3. PICK s : /\ todo' = Pending(s, 1)
                 /\ graph' = [graph EXCEPT ![cur] = IF Children(s) = <<>> THEN graph[cur] ELSE NewGraph]
    BY <1>1 DEF Kept, Extracted
  <2>4. CASE Children(s) = <<>>
    <3>1. Begun(cur, FALSE)
      BY <2>3, <2>4 DEF Begun
    <3>2. todo' = <<>>
      BY <2>3, <2>4, PendingNothing
    <3> QED BY <2>1, <2>2, <3>1, <3>2
  <2>5. CASE Children(s) # <<>>
    <3>1. Begun(cur, TRUE)
      BY <2>3, <2>5 DEF Begun
    <3> QED BY <2>1, <2>2, <3>1
  <2> QED BY <2>4, <2>5
<1>2. CASE Compose \/ ComposeUnbounded
  <2>1. retained[sem] \in Inputs /\ sem # 0
    BY <1>2, TargetInput DEF Compose, ComposeUnbounded
  <2>2. pc' = "children" /\ sem' = sem /\ retained' = retained
    BY <1>2, ComposeFrame DEF books
  <2> DEFINE t == retained[sem]
  <2>3. Owner' = t
    BY <2>1, <2>2 DEF Owner
  <2>4. CASE Compose
    <3>1. PICK s, b, f, torn, short : Composed(t, s, b, f, torn, short)
      BY <2>4 DEF Compose
    <3>2. /\ todo' = Pending(s, 1) /\ known' = {"self"} \cup Hashed(graph[t])
          /\ graph' = [graph EXCEPT ![t] = IF graph[t].enabled \/ Children(s) = <<>> THEN graph[t]
                                           ELSE NewGraph]
      BY <3>1 DEF Composed
    <3>3. CASE graph[t].enabled \/ Children(s) = <<>>
      <4>1. Begun(t, FALSE)
        BY <3>2, <3>3 DEF Begun
      <4>2. todo' = <<>> \/ graph[t].enabled
        BY <3>2, <3>3, PendingNothing
      <4> QED BY <2>1, <2>2, <2>3, <3>2, <4>1, <4>2
    <3>4. CASE ~(graph[t].enabled \/ Children(s) = <<>>)
      <4>1. Begun(t, TRUE)
        BY <3>2, <3>4 DEF Begun
      <4> QED BY <2>1, <2>2, <2>3, <3>2, <3>4, <4>1
    <3> QED BY <3>3, <3>4
  <2>5. CASE ComposeUnbounded
    <3>1. PICK s : /\ todo' = Pending(s, 1) /\ known' = {"self"}
                   /\ graph' = [graph EXCEPT ![t] = IF Children(s) = <<>> THEN graph[t] ELSE NewGraph]
      BY <2>5 DEF ComposeUnbounded
    <3>2. CASE Children(s) = <<>>
      <4>1. Begun(t, FALSE)
        BY <3>1, <3>2 DEF Begun
      <4>2. todo' = <<>>
        BY <3>1, <3>2, PendingNothing
      <4> QED BY <2>1, <2>2, <2>3, <3>1, <4>1, <4>2
    <3>3. CASE Children(s) # <<>>
      <4>1. Begun(t, TRUE)
        BY <3>1, <3>3 DEF Begun
      <4> QED BY <2>1, <2>2, <2>3, <3>1, <4>1
    <3> QED BY <3>2, <3>3
  <2> QED BY <1>2, <2>4, <2>5
<1> QED BY <1>1, <1>2

LEMMA GraphStep ==
    ASSUME PlaceTypes, PlaceInv, BookTypes, GraphInv, [Next]_vars
    PROVE  GraphInv'
<1>1. Inputs' = Inputs
  BY ConstantInput
<1>2. DOMAIN graph = Inputs /\ \A i \in Inputs : IsGraph(graph[i])
  BY DEF GraphInv
<1>3. CASE Kept \/ Extracted \/ Compose \/ ComposeUnbounded
  <2>1. PICK t \in Inputs, fresh \in BOOLEAN :
              /\ pc' = "children" /\ Owner' = t /\ Begun(t, fresh)
              /\ ~fresh => todo' = <<>> \/ graph[t].enabled
              /\ known' = {"self"} \/ (known' = {"self"} \cup Hashed(graph[t])
                                       /\ (fresh => ~graph[t].enabled))
    BY <1>3, BeginsLoop
  <2>2. /\ DOMAIN graph' = Inputs /\ \A i \in Inputs : IsGraph(graph'[i])
        /\ graph'[t] = IF fresh THEN NewGraph ELSE graph[t]
    BY <1>1, <1>2, <2>1, BegunFacts
  <2>3. G' = graph'[t]
    BY <2>1 DEF G
  <2>4. todo' # <<>> => graph'[t].enabled
    BY <2>1, <2>2, NewGraphFacts
  <2>5. ~graph'[t].truncated => known' \subseteq Accounted(graph'[t])
    <3>1. SUFFICES ASSUME ~graph'[t].truncated PROVE known' \subseteq Accounted(graph'[t])
      OBVIOUS
    <3>2. CASE known' = {"self"}
      BY <3>2 DEF Accounted
    <3>3. CASE known' = {"self"} \cup Hashed(graph[t]) /\ fresh /\ ~graph[t].enabled
      <4>1. graph[t].edges = {}
        BY <1>2, <2>1, <3>3 DEF IsGraph
      <4>2. Hashed(graph[t]) = {}
        BY <4>1 DEF Hashed
      <4> QED BY <3>3, <4>2 DEF Accounted
    <3>4. CASE known' = {"self"} \cup Hashed(graph[t]) /\ ~fresh
      <4>1. graph'[t] = graph[t]
        BY <2>2, <3>4
      <4>2. \A e \in graph[t].edges : e.content \in Accounted(graph[t])
        BY <1>2, <3>1, <4>1 DEF IsGraph
      <4>3. Hashed(graph[t]) \subseteq Accounted(graph[t])
        BY <4>2 DEF Hashed
      <4> QED BY <3>4, <4>1, <4>3 DEF Accounted
    <3> QED BY <2>1, <3>2, <3>3, <3>4
  <2> QED BY <1>1, <2>2, <2>3, <2>4, <2>5 DEF GraphInv
<1>4. CASE ChildStep
  <2>1. /\ pc = "children" /\ todo # <<>> /\ sem' = sem /\ cur' = cur /\ retained' = retained
    BY <1>4, ChildFrame
  <2>2. Owner \in Inputs /\ Owner' = Owner
    BY <2>1, OwnerInput DEF Owner
  <2>3. G.enabled /\ (~G.truncated => known \subseteq Accounted(G))
    BY <2>1 DEF GraphInv
  <2>4. IsRecord(G)
    BY <1>2, <2>2 DEF IsGraph, G
  <2>5. known' \subseteq known \cup {Child.content}
    BY <1>4, <2>4, ChildHandled
  <2>6. PICK g, state, hashed : \E skip \in BOOLEAN :
                 /\ IsRecord(g) /\ g.enabled = G.enabled /\ g.truncated = G.truncated
                 /\ g.edges = G.edges
                 /\ skip \/ state = "ANALYZED_STATIC" \/ Child.content \in known
                 /\ HandledAs(g, state, hashed, skip)
    BY <1>4, <2>4, ChildHandled
  <2>7. /\ DOMAIN graph' = Inputs /\ \A i \in Inputs : IsGraph(graph'[i])
        /\ graph'[Owner].enabled
        /\ ~graph'[Owner].truncated => known' \subseteq Accounted(graph'[Owner])
    BY <1>2, <2>2, <2>3, <2>5, <2>6, HandledGraph
  <2>8. G' = graph'[Owner]
    BY <2>2 DEF G
  <2> QED BY <1>1, <2>7, <2>8 DEF GraphInv
<1>5. CASE PlainStep
  BY <1>1, <1>2, <1>5, PlainFrame DEF GraphInv
<1>6. CASE Chmod \/ UNCHANGED vars
  <2>1. /\ pc' = pc /\ cur' = cur /\ sem' = sem /\ retained' = retained /\ todo' = todo
        /\ graph' = graph /\ known' = known
    BY <1>6 DEF Chmod, vars, analysis, books
  <2>2. Owner' = Owner
    BY <2>1 DEF Owner
  <2>3. G' = G
    BY <2>1, <2>2 DEF G
  <2> QED BY <1>1, <1>2, <2>1, <2>3 DEF GraphInv
<1> QED BY <1>3, <1>4, <1>5, <1>6, Cases DEF Step, ChildStep, PlainStep

-----------------------------------------------------------------------------
(* The initial states *)

LEMMA PlaceInit == Init => PlaceInv
BY DEF Init, PlaceInv

LEMMA RunInit == Init => RunInv /\ RuntimeWithinBudget
<1> SUFFICES ASSUME Init PROVE RunInv /\ RuntimeWithinBudget
  OBVIOUS
<1>1. DOMAIN spent = Inputs /\ \A i \in Inputs : spent[i] = 0
  BY DEF Init, Inputs
<1>2. TotalSpent = 0
  BY <1>1, TotalZero DEF TotalSpent
<1>3. {i \in Inputs : spent[i] > 0} = {}
  BY <1>1
<1>4. Targets = 0
  BY <1>3, FS_EmptySet DEF Targets
<1>5. TotalMs \in Nat /\ MaxTargets \in Nat
  BY PipelineAssumption
<1>6. TotalSpent <= TotalMs /\ Targets <= MaxTargets
  BY <1>2, <1>4, <1>5
<1>7. \A i \in Inputs : ~(spent[i] > 0)
  BY <1>1
<1> QED BY <1>1, <1>6, <1>7 DEF RunInv, RuntimeWithinBudget

LEMMA BooksInit == Init => NoReportLost /\ RetentionInv /\ RetentionCoversMutation
<1> SUFFICES ASSUME Init PROVE NoReportLost /\ RetentionInv /\ RetentionCoversMutation
  OBVIOUS
<1>1. exit = "none" /\ compact = <<>> /\ mutated = {}
  BY DEF Init
<1>2. ToSet(compact) = {}
  BY <1>1 DEF ToSet
<1> QED BY <1>1, <1>2 DEF NoReportLost, RetentionInv, RetentionCoversMutation

LEMMA BudgetInit == Init => BudgetInv
<1> SUFFICES ASSUME Init PROVE BudgetInv
  OBVIOUS
<1>1. used.bytes = 0 /\ used.files = 0
  BY DEF Init, Nothing
<1>2. \A i \in Inputs : disk[i].bytes = 0 /\ disk[i].files = 0
  BY DEF Init, Nothing, Inputs
<1>3. Total([i \in Inputs |-> disk[i].bytes]) = 0
  BY <1>2, TotalZero
<1>4. Total([i \in Inputs |-> disk[i].files]) = 0
  BY <1>2, TotalZero
<1>5. PreBytes \in Nat /\ PreFiles \in Nat /\ MaxBytes \in Nat /\ MaxFiles \in Nat
  BY PipelineAssumption
<1> QED BY <1>1, <1>3, <1>4, <1>5 DEF BudgetInv

LEMMA StateInit == Init => StateInv
<1> SUFFICES ASSUME Init PROVE StateInv
  OBVIOUS
<1>1. pc = "next" /\ \A i \in Inputs : disk[i].files = 0 /\ mstate[i] = "NONE"
  BY DEF Init, Nothing, Inputs
<1>2. \A i \in Inputs : StateFits(i)
  BY <1>1 DEF StateFits
<1> QED BY <1>1, <1>2 DEF StateInv

LEMMA GraphInit == Init => GraphInv
<1> SUFFICES ASSUME Init PROVE GraphInv
  OBVIOUS
<1>1. pc = "next" /\ DOMAIN graph = Inputs /\ \A i \in Inputs : graph[i] = NoGraph
  BY DEF Init, Inputs
<1> QED BY <1>1, NoGraphFacts DEF GraphInv

-----------------------------------------------------------------------------
(* What the directory analysis promises *)

LEMMA PipeInvInit == Init => PipeInv
BY InitTypes, PlaceInit, OrderInit, BooksInit, RunInit, BudgetInit, StateInit, GraphInit DEF PipeInv

LEMMA PipeInvStep == PipeInv /\ [Next]_vars => PipeInv'
<1> SUFFICES ASSUME PipeInv, [Next]_vars PROVE PipeInv'
  OBVIOUS
<1>1. /\ PlaceTypes /\ DiskTypes /\ BookTypes /\ RunTypes
      /\ PlaceInv /\ OrderInv /\ NoReportLost /\ RetentionInv /\ RetentionCoversMutation
      /\ RunInv /\ RuntimeWithinBudget /\ BudgetInv /\ StateInv /\ GraphInv
  BY DEF PipeInv
<1>2. PlaceTypes' /\ PlaceInv' /\ BookTypes'
  BY <1>1, PlaceStep, BooksStep
<1>3. RunTypes' /\ RunInv' /\ RuntimeWithinBudget'
  BY <1>1, RunTypesStep, RunStep
<1>4. OrderInv' /\ NoReportLost' /\ RetentionInv' /\ RetentionCoversMutation'
  BY <1>1, OrderStep, LostStep, RetentionStep, CoverageStep
<1>5. DiskTypes' /\ BudgetInv' /\ StateInv' /\ GraphInv'
  BY <1>1, DiskTypesStep, BudgetStep, StateStep, GraphStep
<1> QED BY <1>2, <1>3, <1>4, <1>5 DEF PipeInv

LEMMA PipeInvHolds == Spec => []PipeInv
BY PipeInvInit, PipeInvStep, PTL DEF Spec

\* However the environment fails, what lies under the artifact roots of a
\* bounded directory analysis is what was charged, and it is within the hard
\* caps (main.cpp: analyze_directory_spooled, the reserve and the gates).
THEOREM BudgetIsHard == Spec => []HardBound
<1>1. PipeInv => HardBound
  BY DEF PipeInv, BudgetInv, HardBound
<1> QED BY <1>1, PipeInvHolds, PTL

\* The artifact_materialization_state of every candidate says what is on disk
\* (main.cpp: the bounded materialization and the Godot composition).
THEOREM StatesAreTrue == Spec => []StatesMatchDisk
<1>1. PipeInv => StatesMatchDisk
  <2>1. SUFFICES ASSUME PipeInv, Quiet, Bounded, ~env.leaked, NEW i \in Inputs
                 PROVE  StateFits(i)
    BY DEF StatesMatchDisk, StateFits, Written
  <2> QED BY <2>1 DEF PipeInv, StateInv, Quiet
<1> QED BY <1>1, PipeInvHolds, PTL

\* A child graph that is not called truncated accounts for every artifact it
\* met (main.cpp: the bounded child loop; analyze_children of --extract).
THEOREM GraphsAreHonest == Spec => []GraphIsHonest
<1>1. PipeInv => GraphIsHonest
  <2>1. SUFFICES ASSUME PipeInv, NEW i \in Inputs, ~graph[i].truncated
                 PROVE  {e.content : e \in graph[i].edges} \subseteq Accounted(graph[i])
    BY DEF GraphIsHonest, Accounted
  <2>2. \A e \in graph[i].edges : e.content \in Accounted(graph[i])
    BY <2>1 DEF PipeInv, GraphInv, IsGraph
  <2> QED BY <2>2
<1> QED BY <1>1, PipeInvHolds, PTL

\* When the analysis succeeds every report was spooled exactly once, the
\* retained ones included (main.cpp: the retention and the final spooling).
THEOREM ReportsReachTheSpool == Spec => []NoReportLost
<1>1. PipeInv => NoReportLost
  BY DEF PipeInv
<1> QED BY <1>1, PipeInvHolds, PTL

\* Unless a permission bit changes, the reports that relationships change are
\* among the retained ones (main.cpp: requires_retention against the Unity
\* Mono closure).
THEOREM RetentionSuffices == Spec => []RetentionCoversMutation
<1>1. PipeInv => RetentionCoversMutation
  BY DEF PipeInv
<1> QED BY <1>1, PipeInvHolds, PTL

\* The granted time stays within the directory's total and the targets within
\* their limit (main.cpp: the runtime loop over the candidates).
THEOREM RuntimeIsBounded == Spec => []RuntimeWithinBudget
<1>1. PipeInv => RuntimeWithinBudget
  BY DEF PipeInv
<1> QED BY <1>1, PipeInvHolds, PTL

=============================================================================
