--------------------------- MODULE GuiQueueProofs ---------------------------
(***************************************************************************)
(* The rows of the GUI's queue, for any paths, any number of rows and user *)
(* actions, and any order of the handlers.  That a finished row stays as   *)
(* it is needs more than the types: when the process of a cancelled row    *)
(* ends, processFinished books nothing on it, which changes nothing only   *)
(* because a row that is not decided, or cancelled, never had a result.    *)
(***************************************************************************)
EXTENDS GuiQueue, SequenceTheorems, FiniteSetTheorems, TLAPS

\* Rows without a result, unless a process has decided them.
CleanRows == {r \in Rows : r.state \in {"Queued", "Running", "Cancelled"} =>
                 r.from = None /\ r.made = FALSE /\ r.read = FALSE}

Procs == [state : {"NotRunning", "Starting", "Running"}, input : Paths \cup {None},
          made : BOOLEAN, killed : BOOLEAN]

Calls == {"startNext", "startPending", "fallback"}

\* The inductive invariant.
QueueInv == TypeOK /\ rows \in Seq(CleanRows)

FlagsOK ==
    /\ current \in Nat /\ next \in Nat \ {0}
    /\ cancel_requested \in BOOLEAN /\ timed_out \in BOOLEAN /\ start_error \in BOOLEAN
    /\ busy \in BOOLEAN /\ timer \in BOOLEAN
    /\ proc \in Procs /\ posted \in Seq(Calls)

CurrentOK ==
    current # 0 => /\ current <= Len(rows)
                   /\ rows[current].state \in {"Running", "Cancelled"}
                   /\ proc.state = "Running"

OthersOK == closing \in BOOLEAN /\ search \in BOOLEAN /\ clicks \in 0 .. MaxClicks

LEMMA QueueInvParts ==
  QueueInv <=> rows \in Seq(CleanRows) /\ FlagsOK /\ CurrentOK /\ OthersOK
<1>1. CleanRows \subseteq Rows
  BY DEF CleanRows
<1>2. rows \in Seq(CleanRows) => rows \in Seq(Rows)
  BY <1>1, SeqMonotonic
<1> QED
  BY <1>2 DEF QueueInv, TypeOK, FlagsOK, CurrentOK, OthersOK, Procs, Calls

LEMMA QueueInvPartsNext ==
  QueueInv' <=> rows' \in Seq(CleanRows) /\ FlagsOK' /\ CurrentOK' /\ OthersOK'
<1>1. CleanRows \subseteq Rows
  BY DEF CleanRows
<1>2. rows' \in Seq(CleanRows) => rows' \in Seq(Rows)
  BY <1>1, SeqMonotonic
<1> QED
  BY <1>2 DEF QueueInv, TypeOK, FlagsOK, CurrentOK, OthersOK, Procs, Calls

LEMMA FunctionIsSeq ==
  ASSUME NEW S, NEW n \in Nat, NEW f \in [1 .. n -> S]
  PROVE  f \in Seq(S) /\ Len(f) = n
<1>1. f \in Seq(S)
  BY SeqDef
<1> QED
  BY <1>1, LenProperties

\* A row that has no result yet keeps none when its state is set.
LEMMA SetStateOfRow ==
  ASSUME NEW items \in Seq(CleanRows), NEW k \in 1 .. Len(items),
         items[k].state \in {"Queued", "Running", "Cancelled"},
         NEW s \in Terminal \cup {"Running"}
  PROVE  /\ SetState(items, k, s) \in Seq(CleanRows)
         /\ Len(SetState(items, k, s)) = Len(items)
         /\ SetState(items, k, s)[k].state = s
         /\ items[k].state = s => SetState(items, k, s)[k] = items[k]
         /\ \A i \in 1 .. Len(items) : i # k => SetState(items, k, s)[i] = items[i]
<1> DEFINE r == [items[k] EXCEPT !.state = s]
<1>1. items[k] \in CleanRows
  BY ElementOfSeq
<1>2. r \in CleanRows /\ r.state = s /\ (items[k].state = s => r = items[k])
  BY <1>1 DEF CleanRows, Rows, Terminal
<1>3. SetState(items, k, s) = [items EXCEPT ![k] = r]
  BY DEF SetState
<1> HIDE DEF r
<1>4. /\ [items EXCEPT ![k] = r] \in Seq(CleanRows)
      /\ Len([items EXCEPT ![k] = r]) = Len(items)
      /\ \A j \in 1 .. Len(items) : [items EXCEPT ![k] = r][j] = IF j = k THEN r ELSE items[j]
  BY <1>2, ExceptSeq
<1> QED
  BY <1>2, <1>3, <1>4

LEMMA RowIsClean ==
  ASSUME NEW p \in Paths PROVE Row(p) \in CleanRows /\ Row(p).state = "Queued"
  BY DEF Row, CleanRows, Rows, None

LEMMA NotRunningIsProc == NotRunning \in Procs /\ NotRunning.state = "NotRunning"
  BY DEF NotRunning, Procs, None

-----------------------------------------------------------------------------
(* startNext, whatever rows and flags its caller leaves it *)

\* Rows that were finished before are as they were.
Kept(items) ==
    /\ Len(rows') = Len(items)
    /\ \A i \in 1 .. Len(items) : items[i].state \in Terminal => rows'[i] = items[i]

LEMMA PostedMore ==
  ASSUME NEW post \in Seq(Calls)
  PROVE  /\ post \o <<"startNext">> \in Seq(Calls)
         /\ post \o <<"fallback", "startNext">> \in Seq(Calls)
         /\ Append(post, "startNext") \in Seq(Calls)
         /\ Append(post, "fallback") \in Seq(Calls)
<1>1. <<"startNext">> \in Seq(Calls) /\ <<"fallback", "startNext">> \in Seq(Calls)
  BY DEF Calls
<1>2. "startNext" \in Calls /\ "fallback" \in Calls
  BY DEF Calls
<1> QED
  BY <1>1, <1>2, ConcatProperties, AppendProperties

LEMMA HaltStep ==
  ASSUME FlagsOK, NEW items \in Seq(CleanRows), NEW post \in Seq(Calls),
         cancel_requested' \in BOOLEAN, next' \in Nat \ {0}, Halt(items, post)
  PROVE  rows' \in Seq(CleanRows) /\ FlagsOK' /\ CurrentOK' /\ Kept(items)
<1>1. rows' = items /\ current' = 0
  BY DEF Halt
<1>2. FlagsOK'
  BY DEF FlagsOK, Halt
<1> QED
  BY <1>1, <1>2 DEF CurrentOK, Kept

LEMMA LaunchStep ==
  ASSUME FlagsOK, search \in BOOLEAN, NEW items \in Seq(CleanRows), NEW post \in Seq(Calls),
         NEW b \in BOOLEAN, NEW k \in 1 .. Len(items), items[k].state = "Queued",
         cancel_requested' \in BOOLEAN, next' \in Nat \ {0}, Launch(items, k, b, post)
  PROVE  rows' \in Seq(CleanRows) /\ FlagsOK' /\ CurrentOK' /\ Kept(items)
<1>1. /\ rows' \in Seq(CleanRows) /\ Len(rows') = Len(items) /\ rows'[k].state = "Running"
      /\ \A i \in 1 .. Len(items) : i # k => rows'[i] = items[i]
  <2>1. rows' = SetState(items, k, "Running")
    BY DEF Launch
  <2> QED
    BY <2>1, SetStateOfRow
<1>2. items[k].path \in Paths
  BY ElementOfSeq DEF CleanRows, Rows
<1>3. proc' \in Procs /\ proc'.state = "Running"
  <2>1. CASE proc.state = "NotRunning"
    BY <1>2, <2>1 DEF Launch, Procs
  <2>2. CASE proc.state # "NotRunning"
    BY <2>2 DEF Launch, Procs, FlagsOK
  <2> QED
    BY <2>1, <2>2
<1>4. current' = k /\ k \in Nat \ {0} /\ k <= Len(items)
  BY LenProperties DEF Launch
<1>5. FlagsOK'
  BY <1>3, <1>4 DEF FlagsOK, Launch
<1> QED
  BY <1>1, <1>3, <1>4, <1>5 DEF CurrentOK, Kept, Terminal

LEMMA LaunchFailsStep ==
  ASSUME FlagsOK, search \in BOOLEAN, NEW items \in Seq(CleanRows), NEW post \in Seq(Calls),
         NEW b \in BOOLEAN, NEW k \in 1 .. Len(items), items[k].state = "Queued",
         cancel_requested' \in BOOLEAN, next' \in Nat \ {0}, LaunchFails(items, k, b, post)
  PROVE  rows' \in Seq(CleanRows) /\ FlagsOK' /\ CurrentOK' /\ Kept(items)
<1>1. /\ rows' \in Seq(CleanRows) /\ Len(rows') = Len(items)
      /\ \A i \in 1 .. Len(items) : i # k => rows'[i] = items[i]
  <2>1. rows' = SetState(items, k, "Failed") /\ "Failed" \in Terminal
    BY DEF LaunchFails, Terminal
  <2> QED
    BY <2>1, SetStateOfRow
<1>2. items[k].path \in Paths
  BY ElementOfSeq DEF CleanRows, Rows
<1>3. proc' \in Procs
  <2>1. [state |-> "Starting", input |-> items[k].path, made |-> search, killed |-> FALSE] \in Procs
    BY <1>2 DEF Procs
  <2> QED
    BY <2>1, NotRunningIsProc DEF LaunchFails, FlagsOK
<1>4. posted' \in Seq(Calls)
  BY PostedMore DEF LaunchFails
<1>5. FlagsOK' /\ current' = 0
  BY <1>3, <1>4 DEF FlagsOK, LaunchFails
<1> QED
  BY <1>1, <1>5 DEF CurrentOK, Kept, Terminal

LEMMA startNextStep ==
  ASSUME FlagsOK, search \in BOOLEAN, NEW items \in Seq(CleanRows), NEW from \in Nat \ {0},
         NEW cancelled \in BOOLEAN, NEW b \in BOOLEAN, NEW post \in Seq(Calls),
         startNext(items, from, cancelled, b, post)
  PROVE  rows' \in Seq(CleanRows) /\ FlagsOK' /\ CurrentOK' /\ Kept(items)
<1>1. Len(items) \in Nat /\ DOMAIN items = 1 .. Len(items)
  BY LenProperties
<1>2. cancel_requested' \in BOOLEAN
  BY DEF startNext
<1>3. CASE /\ next' = IF from > Len(items) THEN from ELSE Len(items) + 1
           /\ Halt(items, post)
  <2>1. next' \in Nat \ {0}
    BY <1>1, <1>3
  <2> QED
    BY <1>2, <1>3, <2>1, HaltStep
<1>4. CASE \E k \in Waiting(items, from) :
             IF cancelled THEN next' = k /\ Halt(items, post)
             ELSE next' = k + 1 /\ (Launch(items, k, b, post) \/ LaunchFails(items, k, b, post))
  <2>1. PICK k \in Waiting(items, from) :
             IF cancelled THEN next' = k /\ Halt(items, post)
             ELSE next' = k + 1 /\ (Launch(items, k, b, post) \/ LaunchFails(items, k, b, post))
    BY <1>4
  <2>2. k \in 1 .. Len(items) /\ items[k].state = "Queued"
    BY <1>1 DEF Waiting
  <2>3. next' \in Nat \ {0}
    BY <1>1, <2>1, <2>2
  <2> QED
    BY <1>2, <2>1, <2>2, <2>3, HaltStep, LaunchStep, LaunchFailsStep
<1> QED
  BY <1>3, <1>4 DEF startNext

\* startPending starts the queue only when no row is current.
LEMMA startPendingStep ==
  ASSUME FlagsOK, CurrentOK, search \in BOOLEAN, NEW items \in Seq(CleanRows), NEW post \in Seq(Calls),
         Len(rows) <= Len(items), \A i \in 1 .. Len(rows) : items[i] = rows[i],
         Len(rows) \in Nat, startPending(items, post)
  PROVE  rows' \in Seq(CleanRows) /\ FlagsOK' /\ CurrentOK' /\ Kept(items)
<1>1. CASE startNext(items, 1, FALSE, TRUE, post)
  <2>1. 1 \in Nat \ {0} /\ FALSE \in BOOLEAN /\ TRUE \in BOOLEAN
    OBVIOUS
  <2> QED
    BY <1>1, <2>1, startNextStep, Zenon
<1>2. CASE Stay(items, post)
  <2>1. FlagsOK'
    BY <1>2 DEF Stay, flags, FlagsOK
  <2>2. rows' = items /\ current' = current /\ proc' = proc
    BY <1>2 DEF Stay
  <2>3. CurrentOK'
    <3> SUFFICES ASSUME current # 0
                 PROVE  current <= Len(items) /\ items[current].state \in {"Running", "Cancelled"}
                        /\ proc.state = "Running"
      BY <2>2 DEF CurrentOK
    <3>1. current \in 1 .. Len(rows)
      BY DEF CurrentOK, FlagsOK
    <3>2. Len(items) \in Nat
      BY LenProperties
    <3> QED
      BY <3>1, <3>2 DEF CurrentOK
  <2> QED
    BY <2>1, <2>2, <2>3 DEF Kept
<1> QED
  BY <1>1, <1>2 DEF startPending

-----------------------------------------------------------------------------
(* One lemma per handler: it keeps the invariant and the finished rows *)

RowsFinal == busy /\ rows' # <<>> =>
    \A i \in DOMAIN rows : rows[i].state \in Terminal => rows'[i] = rows[i]

LEMMA KeptIsFinal ==
  ASSUME rows \in Seq(CleanRows), Kept(rows) PROVE RowsFinal
<1>1. DOMAIN rows = 1 .. Len(rows)
  BY LenProperties
<1> QED
  BY <1>1 DEF Kept, RowsFinal

\* Handlers that leave the rows, the current row and the process's state alone.
LEMMA RowsUntouched ==
  ASSUME QueueInv, FlagsOK', OthersOK', UNCHANGED <<rows, current>>,
         current # 0 => proc'.state = "Running"
  PROVE  QueueInv' /\ RowsFinal
<1>1. rows' \in Seq(CleanRows) /\ CurrentOK'
  BY QueueInvParts DEF CurrentOK
<1>2. RowsFinal
  BY DEF RowsFinal
<1> QED
  BY <1>1, <1>2, QueueInvPartsNext

LEMMA finishWithoutProcessStep ==
  ASSUME QueueInv, current # 0, NEW post \in Seq(Calls), finishWithoutProcess(post), proc' = proc
  PROVE  rows' \in Seq(CleanRows) /\ FlagsOK' /\ CurrentOK' /\ Kept(rows)
<1> DEFINE s == IF cancel_requested \/ rows[current].state = "Cancelled" THEN "Cancelled" ELSE "Failed"
<1>1. rows \in Seq(CleanRows) /\ FlagsOK /\ CurrentOK
  BY QueueInvParts
<1>2. current \in 1 .. Len(rows) /\ rows[current].state \in {"Running", "Cancelled"}
  <2>1. Len(rows) \in Nat
    BY <1>1, LenProperties
  <2> QED
    BY <1>1, <2>1 DEF CurrentOK, FlagsOK
<1>3. FinishRow(s, post)
  BY DEF finishWithoutProcess
<1>4. s \in Terminal /\ (rows[current].state \in Terminal => rows[current].state = s)
  BY <1>2 DEF Terminal
<1> HIDE DEF s
<1>5. rows' = SetState(rows, current, s) /\ current' = 0
  BY <1>3 DEF FinishRow
<1>6. /\ rows' \in Seq(CleanRows) /\ Len(rows') = Len(rows)
      /\ rows[current].state = s => rows'[current] = rows[current]
      /\ \A i \in 1 .. Len(rows) : i # current => rows'[i] = rows[i]
  BY <1>1, <1>2, <1>4, <1>5, SetStateOfRow
<1>7. FlagsOK'
  BY <1>1, <1>3, PostedMore DEF FlagsOK, FinishRow
<1> QED
  BY <1>4, <1>5, <1>6, <1>7 DEF Kept, CurrentOK

LEMMA RunPostedStep ==
  ASSUME QueueInv, RunPosted PROVE QueueInv' /\ RowsFinal
<1>1. rows \in Seq(CleanRows) /\ FlagsOK /\ CurrentOK /\ OthersOK
  BY QueueInvParts
<1>2. Tail(posted) \in Seq(Calls)
  BY <1>1, HeadTailProperties DEF RunPosted, FlagsOK
<1>3. Len(rows) \in Nat
  BY <1>1, LenProperties
<1>4. OthersOK'
  BY <1>1 DEF OthersOK, RunPosted
<1>5. CASE startNext(rows, next, cancel_requested, busy, Tail(posted))
  <2>1. next \in Nat \ {0} /\ cancel_requested \in BOOLEAN /\ busy \in BOOLEAN /\ search \in BOOLEAN
    BY <1>1 DEF FlagsOK, OthersOK
  <2> QED
    BY <1>1, <1>2, <1>4, <1>5, <2>1, startNextStep, KeptIsFinal, QueueInvPartsNext
<1>6. CASE startPending(rows, Tail(posted))
  <2>1. search \in BOOLEAN /\ Len(rows) <= Len(rows)
    BY <1>1, <1>3 DEF OthersOK
  <2>2. rows' \in Seq(CleanRows) /\ FlagsOK' /\ CurrentOK' /\ Kept(rows)
    BY <1>1, <1>2, <1>3, <1>6, <2>1, startPendingStep, Zenon
  <2> QED
    BY <1>1, <1>4, <2>2, KeptIsFinal, QueueInvPartsNext
<1>7. CASE current # 0 /\ finishWithoutProcess(Tail(posted)) /\ proc' = proc
  BY <1>1, <1>2, <1>4, <1>7, finishWithoutProcessStep, KeptIsFinal, QueueInvPartsNext
<1>8. CASE Stay(rows, Tail(posted))
  <2>1. FlagsOK' /\ UNCHANGED <<rows, current, proc>>
    BY <1>1, <1>2, <1>8 DEF Stay, flags, FlagsOK
  <2>2. current # 0 => proc'.state = "Running"
    BY <1>1, <2>1 DEF CurrentOK
  <2> QED
    BY <1>4, <2>1, <2>2, RowsUntouched
<1>9. Head(posted) \in Calls
  BY <1>1, HeadTailProperties DEF RunPosted, FlagsOK
<1> QED
  BY <1>5, <1>6, <1>7, <1>8, <1>9 DEF RunPosted, Calls

LEMMA TimerAndStartSteps ==
  ASSUME QueueInv, LateStart \/ LateStartFails \/ OutputOverCap \/ processTimedOut
  PROVE  QueueInv' /\ RowsFinal
<1>1. FlagsOK /\ CurrentOK /\ OthersOK
  BY QueueInvParts
<1>2. OthersOK' /\ UNCHANGED <<rows, current>>
  BY <1>1 DEF OthersOK, LateStart, LateStartFails, OutputOverCap, processTimedOut
<1>3. CASE LateStart
  <2>1. FlagsOK' /\ proc'.state = "Running"
    BY <1>1, <1>3 DEF LateStart, FlagsOK, flags, Procs
  <2> QED
    BY <1>2, <2>1, RowsUntouched
<1>4. CASE LateStartFails
  <2>1. FlagsOK' /\ current = 0
    BY <1>1, <1>4, NotRunningIsProc DEF LateStartFails, FlagsOK, CurrentOK
  <2> QED
    BY <1>2, <2>1, RowsUntouched
<1>5. CASE OutputOverCap
  <2>1. FlagsOK' /\ proc'.state = proc.state
    BY <1>1, <1>5 DEF OutputOverCap, FlagsOK, Procs
  <2> QED
    BY <1>1, <1>2, <2>1, RowsUntouched DEF CurrentOK
<1>6. CASE processTimedOut
  <2>1. FlagsOK' /\ proc'.state = proc.state
    <3>1. [proc EXCEPT !.killed = TRUE] \in Procs /\ [proc EXCEPT !.killed = TRUE].state = proc.state
      BY <1>1 DEF FlagsOK, Procs
    <3> QED
      BY <1>1, <1>6, <3>1 DEF processTimedOut, FlagsOK
  <2> QED
    BY <1>1, <1>2, <2>1, RowsUntouched DEF CurrentOK
<1> QED
  BY <1>3, <1>4, <1>5, <1>6

\* A cancelled row is decided as cancelled, and had no result to lose.
LEMMA DecidedRow ==
  ASSUME QueueInv, current # 0, NEW crash \in BOOLEAN, NEW good \in BOOLEAN
  PROVE  /\ current \in 1 .. Len(rows)
         /\ Decided(rows[current], RowResult(crash, good)) \in CleanRows
         /\ rows[current].state \in Terminal =>
               Decided(rows[current], RowResult(crash, good)) = rows[current]
<1> DEFINE s == RowResult(crash, good)
<1>1. rows \in Seq(CleanRows) /\ FlagsOK /\ CurrentOK /\ search \in BOOLEAN
  BY QueueInvParts DEF OthersOK
<1>2. Len(rows) \in Nat
  BY <1>1, LenProperties
<1>3. current \in 1 .. Len(rows) /\ rows[current].state \in {"Running", "Cancelled"}
  BY <1>1, <1>2 DEF CurrentOK, FlagsOK
<1>4. rows[current] \in CleanRows
  BY <1>1, <1>3, ElementOfSeq
<1>5. s \in Terminal /\ (rows[current].state = "Cancelled" => s = "Cancelled")
  BY DEF RowResult, Terminal
<1> HIDE DEF s
<1>6. proc.input \in Paths \cup {None} /\ proc.made \in BOOLEAN
  BY <1>1 DEF FlagsOK, Procs
<1>7. CASE s = "Cancelled"
  <2>1. Decided(rows[current], s) = [path |-> rows[current].path, state |-> "Cancelled",
                                     from |-> None, made |-> FALSE, read |-> FALSE]
    BY <1>7 DEF Decided
  <2>2. Decided(rows[current], s) \in CleanRows
    BY <1>4, <2>1 DEF CleanRows, Rows, Terminal
  <2>3. rows[current].state = "Cancelled" => Decided(rows[current], s) = rows[current]
    BY <1>4, <2>1 DEF CleanRows, Rows
  <2> QED
    BY <1>3, <2>2, <2>3 DEF Terminal, s
<1>8. CASE s # "Cancelled"
  <2>1. Decided(rows[current], s) = [path |-> rows[current].path, state |-> s,
                                     from |-> proc.input, made |-> proc.made, read |-> search]
    BY <1>8 DEF Decided
  <2>2. s \in {"Done", "Failed"} /\ rows[current].state = "Running"
    BY <1>3, <1>5, <1>8 DEF Terminal
  <2>3. Decided(rows[current], s) \in CleanRows
    BY <1>1, <1>4, <1>6, <2>1, <2>2 DEF CleanRows, Rows, Terminal
  <2> QED
    BY <1>3, <2>2, <2>3 DEF Terminal, s
<1> QED
  BY <1>7, <1>8

LEMMA ProcessEndsStep ==
  ASSUME QueueInv, NEW crash \in BOOLEAN, NEW good \in BOOLEAN, ProcessEnds(crash, good)
  PROVE  QueueInv' /\ RowsFinal
<1> DEFINE post == IF crash /\ current # 0 THEN Append(posted, "fallback") ELSE posted
           row == Decided(rows[current], RowResult(crash, good))
<1>1. rows \in Seq(CleanRows) /\ FlagsOK /\ CurrentOK /\ OthersOK
  BY QueueInvParts
<1>2. post \in Seq(Calls) /\ Append(post, "startNext") \in Seq(Calls)
  <2>1. post \in Seq(Calls)
    BY <1>1, PostedMore DEF FlagsOK
  <2> HIDE DEF post
  <2> QED
    BY <2>1, PostedMore
<1>3. OthersOK' /\ current' = 0
  BY <1>1 DEF ProcessEnds, OthersOK
<1>4. posted' \in Seq(Calls)
  BY <1>1, <1>2 DEF ProcessEnds
<1>5. timer' \in BOOLEAN /\ start_error' \in BOOLEAN
  BY <1>1 DEF ProcessEnds, FlagsOK
<1>6. FlagsOK'
  BY <1>1, <1>3, <1>4, <1>5, NotRunningIsProc DEF ProcessEnds, FlagsOK
<1>7. rows' \in Seq(CleanRows) /\ RowsFinal
  <2>1. CASE rows' = rows
    BY <1>1, <2>1 DEF RowsFinal
  <2>2. CASE current # 0 /\ rows' = [rows EXCEPT ![current] = row]
    <3>1. current \in 1 .. Len(rows) /\ row \in CleanRows
          /\ (rows[current].state \in Terminal => row = rows[current])
      BY <2>2, DecidedRow
    <3> HIDE DEF row
    <3>2. /\ rows' \in Seq(CleanRows) /\ Len(rows') = Len(rows)
          /\ \A i \in 1 .. Len(rows) : rows'[i] = IF i = current THEN row ELSE rows[i]
      BY <1>1, <2>2, <3>1, ExceptSeq
    <3> QED
      BY <1>1, <3>1, <3>2, KeptIsFinal DEF Kept
  <2> QED
    BY <2>1, <2>2 DEF ProcessEnds
<1> QED
  BY <1>3, <1>6, <1>7, QueueInvPartsNext DEF CurrentOK

LEMMA UserActsOK ==
  ASSUME QueueInv, UserActs PROVE clicks' \in 0 .. MaxClicks
  BY QueueInvParts, GuiAssumption DEF OthersOK, UserActs

LEMMA AddPathStep ==
  ASSUME QueueInv, NEW p \in Paths, AddPath(p)
  PROVE  QueueInv' /\ RowsFinal
<1> DEFINE items == Append(rows, Row(p))
<1>1. rows \in Seq(CleanRows) /\ FlagsOK /\ CurrentOK /\ OthersOK
  BY QueueInvParts
<1>2. Len(rows) \in Nat /\ DOMAIN rows = 1 .. Len(rows) /\ posted \in Seq(Calls) /\ search \in BOOLEAN
  BY <1>1, LenProperties DEF FlagsOK, OthersOK
<1>3. /\ items \in Seq(CleanRows) /\ Len(items) = Len(rows) + 1
      /\ \A i \in 1 .. Len(rows) : items[i] = rows[i]
  <2>1. Row(p) \in CleanRows
    BY RowIsClean
  <2> QED
    BY <1>1, <2>1, AppendProperties
<1>4. OthersOK'
  BY <1>1, UserActsOK DEF AddPath, OthersOK
<1>5. startPending(items, posted)
  BY DEF AddPath
<1> HIDE DEF items
<1>6. Len(rows) <= Len(items)
  BY <1>2, <1>3
<1>7. rows' \in Seq(CleanRows) /\ FlagsOK' /\ CurrentOK' /\ Kept(items)
  BY <1>1, <1>2, <1>3, <1>5, <1>6, startPendingStep, Zenon
<1>8. RowsFinal
  BY <1>2, <1>3, <1>7 DEF RowsFinal, Kept
<1> QED
  BY <1>4, <1>7, <1>8, QueueInvPartsNext

\* The rows are reset only while the start button is enabled.
LEMMA startAnalysisStep ==
  ASSUME QueueInv, startAnalysis PROVE QueueInv' /\ RowsFinal
<1> DEFINE items == [i \in DOMAIN rows |-> Row(rows[i].path)]
<1>1. rows \in Seq(CleanRows) /\ FlagsOK /\ OthersOK
  BY QueueInvParts
<1>2. Len(rows) \in Nat /\ DOMAIN rows = 1 .. Len(rows) /\ posted \in Seq(Calls) /\ search \in BOOLEAN
  BY <1>1, LenProperties DEF FlagsOK, OthersOK
<1>3. items \in Seq(CleanRows)
  <2>1. \A i \in DOMAIN rows : rows[i].path \in Paths
    BY <1>1, <1>2, ElementOfSeq DEF CleanRows, Rows
  <2>2. \A i \in DOMAIN rows : Row(rows[i].path) \in CleanRows
    BY <2>1, RowIsClean
  <2>3. items \in [1 .. Len(rows) -> CleanRows]
    BY <1>2, <2>2
  <2> QED
    BY <1>2, <2>3, FunctionIsSeq
<1>4. startNext(items, 1, FALSE, TRUE, posted) /\ busy = FALSE
  BY <1>1 DEF startAnalysis, FlagsOK
<1> HIDE DEF items
<1>5. 1 \in Nat \ {0} /\ FALSE \in BOOLEAN /\ TRUE \in BOOLEAN
  OBVIOUS
<1>6. rows' \in Seq(CleanRows) /\ FlagsOK' /\ CurrentOK'
  BY <1>1, <1>2, <1>3, <1>4, <1>5, startNextStep, Zenon
<1>7. OthersOK'
  BY <1>1, UserActsOK DEF startAnalysis, OthersOK
<1> QED
  BY <1>4, <1>6, <1>7, QueueInvPartsNext DEF RowsFinal

\* A current row has a process that runs, so cancelling waits for its end.
LEMMA cancelAnalysisStep ==
  ASSUME QueueInv, cancelAnalysis PROVE QueueInv' /\ RowsFinal
<1> DEFINE cancelled == [i \in DOMAIN rows |->
              IF rows[i].state = "Queued" \/ (i = current /\ proc.state # "NotRunning")
              THEN [rows[i] EXCEPT !.state = "Cancelled"] ELSE rows[i]]
<1>1. rows \in Seq(CleanRows) /\ FlagsOK /\ CurrentOK /\ OthersOK
  BY QueueInvParts
<1>2. Len(rows) \in Nat /\ DOMAIN rows = 1 .. Len(rows)
  BY <1>1, LenProperties
<1>3. current # 0 /\ proc.state = "Running"
  BY <1>1 DEF cancelAnalysis, CurrentOK
<1>4. current \in 1 .. Len(rows) /\ rows[current].state \in {"Running", "Cancelled"}
  BY <1>1, <1>2, <1>3 DEF CurrentOK, FlagsOK
<1>5. /\ rows' = cancelled /\ proc' = [proc EXCEPT !.killed = TRUE]
      /\ UNCHANGED <<current, timer, posted>>
  BY <1>3 DEF cancelAnalysis
<1>6. \A i \in 1 .. Len(rows) :
         /\ rows'[i] \in CleanRows
         /\ rows[i].state \in Terminal => rows'[i] = rows[i]
         /\ i = current => rows'[i].state = "Cancelled"
  <2> SUFFICES ASSUME NEW i \in 1 .. Len(rows)
               PROVE  /\ rows'[i] \in CleanRows
                      /\ rows[i].state \in Terminal => rows'[i] = rows[i]
                      /\ i = current => rows'[i].state = "Cancelled"
    OBVIOUS
  <2>1. rows[i] \in CleanRows
    BY <1>1, ElementOfSeq
  <2>2. CASE rows[i].state = "Queued" \/ i = current
    <3> DEFINE r == [rows[i] EXCEPT !.state = "Cancelled"]
    <3>1. rows'[i] = r
      BY <1>2, <1>3, <1>5, <2>2
    <3>2. rows[i].state \in {"Queued", "Running", "Cancelled"}
      BY <1>4, <2>2
    <3>3. r \in CleanRows /\ r.state = "Cancelled" /\ (rows[i].state = "Cancelled" => r = rows[i])
      BY <2>1, <3>2 DEF CleanRows, Rows, Terminal
    <3> HIDE DEF r
    <3> QED
      BY <3>1, <3>2, <3>3 DEF Terminal
  <2>3. CASE ~(rows[i].state = "Queued" \/ i = current)
    BY <1>2, <1>5, <2>1, <2>3
  <2> QED
    BY <2>2, <2>3
<1>7. DOMAIN rows' = 1 .. Len(rows)
  BY <1>2, <1>5
<1>8. rows' \in Seq(CleanRows) /\ Len(rows') = Len(rows)
  <2>1. rows' = [i \in 1 .. Len(rows) |-> rows'[i]]
    BY <1>2, <1>5
  <2>2. rows' \in [1 .. Len(rows) -> CleanRows]
    BY <1>6, <2>1
  <2> QED
    BY <1>2, <2>2, FunctionIsSeq
<1> HIDE DEF cancelled
<1>9. proc' \in Procs /\ proc'.state = "Running"
  BY <1>1, <1>3, <1>5 DEF FlagsOK, Procs
<1>10. FlagsOK'
  BY <1>1, <1>5, <1>9 DEF FlagsOK, cancelAnalysis
<1>11. CurrentOK'
  BY <1>1, <1>4, <1>5, <1>6, <1>8, <1>9 DEF CurrentOK
<1>12. OthersOK'
  BY <1>1, UserActsOK DEF cancelAnalysis, OthersOK
<1>13. RowsFinal
  BY <1>2, <1>6 DEF RowsFinal
<1> QED
  BY <1>8, <1>10, <1>11, <1>12, <1>13, QueueInvPartsNext

LEMMA ClearQueueStep ==
  ASSUME QueueInv, ClearQueue PROVE QueueInv' /\ RowsFinal
<1>1. FlagsOK /\ OthersOK
  BY QueueInvParts
<1>2. rows' = <<>> /\ current' = 0 /\ rows' \in Seq(CleanRows)
  BY EmptySeq DEF ClearQueue
<1>3. FlagsOK'
  BY <1>1 DEF FlagsOK, ClearQueue, flags
<1>4. OthersOK'
  BY <1>1, UserActsOK DEF ClearQueue, OthersOK
<1> QED
  BY <1>2, <1>3, <1>4, QueueInvPartsNext DEF CurrentOK, RowsFinal

LEMMA EditSearchStep ==
  ASSUME QueueInv, EditSearch PROVE QueueInv' /\ RowsFinal
<1>1. FlagsOK /\ CurrentOK /\ OthersOK
  BY QueueInvParts
<1>2. FlagsOK' /\ UNCHANGED <<rows, current, proc>>
  BY <1>1 DEF EditSearch, FlagsOK, flags
<1>3. OthersOK'
  BY <1>1, UserActsOK DEF EditSearch, OthersOK
<1> QED
  BY <1>1, <1>2, <1>3, RowsUntouched DEF CurrentOK

LEMMA CloseStep ==
  ASSUME QueueInv, Close PROVE QueueInv' /\ RowsFinal
<1>1. rows \in Seq(CleanRows) /\ FlagsOK /\ CurrentOK /\ OthersOK
  BY QueueInvParts
<1>2. OthersOK' /\ rows' = rows
  BY <1>1, UserActsOK DEF Close, OthersOK
<1>3. CASE UNCHANGED <<current, start_error, proc, posted>>
  <2>1. FlagsOK'
    BY <1>1, <1>3 DEF Close, FlagsOK
  <2> QED
    BY <1>1, <1>2, <1>3, <2>1, RowsUntouched DEF CurrentOK
<1>4. CASE proc' = [proc EXCEPT !.killed = TRUE] /\ UNCHANGED <<current, start_error, posted>>
  <2>1. proc' \in Procs /\ proc'.state = proc.state
    BY <1>1, <1>4 DEF FlagsOK, Procs
  <2>2. FlagsOK'
    BY <1>1, <1>4, <2>1 DEF Close, FlagsOK
  <2> QED
    BY <1>1, <1>2, <1>4, <2>1, <2>2, RowsUntouched DEF CurrentOK
<1>5. CASE \E crash \in BOOLEAN :
             /\ proc' = NotRunning /\ current' = 0
             /\ start_error' = (start_error \/ crash)
             /\ posted' = IF crash /\ current # 0 THEN Append(posted, "fallback") ELSE posted
  <2>1. proc' \in Procs /\ current' = 0
    BY <1>5, NotRunningIsProc
  <2>2. posted' \in Seq(Calls)
    BY <1>1, <1>5, PostedMore DEF FlagsOK
  <2>3. start_error' \in BOOLEAN
    BY <1>1, <1>5 DEF FlagsOK
  <2>4. FlagsOK'
    BY <1>1, <2>1, <2>2, <2>3 DEF Close, FlagsOK
  <2> QED
    BY <1>1, <1>2, <2>1, <2>4, QueueInvPartsNext DEF CurrentOK, RowsFinal
<1> QED
  BY <1>3, <1>4, <1>5 DEF Close

-----------------------------------------------------------------------------
(* The theorems *)

LEMMA InitOK == Init => QueueInv
<1> SUFFICES ASSUME Init PROVE QueueInv
  OBVIOUS
<1>1. PICK given \in StartupPaths :
         /\ rows = [i \in DOMAIN given |-> Row(given[i])]
         /\ posted = IF given = <<>> THEN <<>> ELSE <<"startPending">>
  BY DEF Init
<1>2. given \in Seq(Paths)
  BY GuiAssumption
<1>3. Len(given) \in Nat /\ DOMAIN given = 1 .. Len(given)
  BY <1>2, LenProperties
<1>4. rows \in Seq(CleanRows)
  <2>1. \A i \in 1 .. Len(given) : Row(given[i]) \in CleanRows
    BY <1>2, ElementOfSeq, RowIsClean
  <2>2. rows \in [1 .. Len(given) -> CleanRows]
    BY <1>1, <1>3, <2>1
  <2> QED
    BY <1>3, <2>2, FunctionIsSeq
<1>5. posted \in Seq(Calls)
  <2>1. <<>> \in Seq(Calls) /\ <<"startPending">> \in Seq(Calls)
    BY DEF Calls
  <2> QED
    BY <1>1, <2>1
<1>6. FlagsOK /\ CurrentOK /\ OthersOK
  <2>1. proc \in Procs /\ current = 0
    BY NotRunningIsProc DEF Init
  <2>2. /\ cancel_requested \in BOOLEAN /\ timed_out \in BOOLEAN /\ start_error \in BOOLEAN
        /\ busy \in BOOLEAN /\ timer \in BOOLEAN /\ closing \in BOOLEAN /\ search \in BOOLEAN
    BY Zenon DEF Init
  <2>3. next \in Nat \ {0} /\ current \in Nat /\ clicks \in 0 .. MaxClicks
    <3>1. next = 1 /\ current = 0 /\ clicks = 0
      BY DEF Init
    <3> QED
      BY <3>1, GuiAssumption
  <2> QED
    BY <1>5, <2>1, <2>2, <2>3 DEF FlagsOK, CurrentOK, OthersOK
<1> QED
  BY <1>4, <1>6, QueueInvParts

\* Every handler keeps the invariant and the rows that are finished.
LEMMA NextOK == QueueInv /\ [Next]_vars => QueueInv' /\ RowsFinal
<1> SUFFICES ASSUME QueueInv, [Next]_vars PROVE QueueInv' /\ RowsFinal
  OBVIOUS
<1>1. CASE User
  BY <1>1, AddPathStep, ClearQueueStep, startAnalysisStep, cancelAnalysisStep, EditSearchStep,
     CloseStep DEF User
<1>2. CASE Loop
  BY <1>2, RunPostedStep, TimerAndStartSteps, ProcessEndsStep DEF Loop
<1>3. CASE UNCHANGED vars
  <2>1. FlagsOK /\ CurrentOK /\ OthersOK
    BY QueueInvParts
  <2>2. FlagsOK' /\ OthersOK' /\ UNCHANGED <<rows, current, proc>>
    BY <1>3, <2>1 DEF vars, flags, FlagsOK, OthersOK
  <2> QED
    BY <2>1, <2>2, RowsUntouched DEF CurrentOK
<1> QED
  BY <1>1, <1>2, <1>3 DEF Next

\* No handler touches a row that is not being analysed: m_current is a row of
\* m_items, running or cancelled, whose process runs, whatever the order of
\* signals, time-outs, clicks and posted calls.
THEOREM QueueTypeCorrect == Spec => []TypeOK
<1>1. QueueInv => TypeOK
  BY DEF QueueInv
<1>2. QueueInv /\ [Next]_vars => QueueInv'
  BY NextOK
<1> QED
  BY InitOK, <1>1, <1>2, PTL DEF Spec

\* While the queue is at work, a row that is done, failed or cancelled is not
\* changed by any handler: not by late processes, kills that came too late,
\* time-outs or overlapping calls of startNext.
THEOREM FinishedRowsStay == Spec => FinishedRowsAreFinal
<1>1. QueueInv /\ [Next]_vars => QueueInv'
  BY NextOK
<1>2. QueueInv /\ [Next]_vars =>
        [busy /\ rows' # <<>> =>
           \A i \in DOMAIN rows : rows[i].state \in Terminal => rows'[i] = rows[i]]_vars
  BY NextOK DEF RowsFinal
<1> QED
  BY InitOK, <1>1, <1>2, PTL DEF Spec, FinishedRowsAreFinal

-----------------------------------------------------------------------------
(* Orderly runs.  When the CLI starts in time and the user never acts while  *)
(* a posted call waits, a process exists exactly while a row is current, it  *)
(* is that row's, and the only startNext or startPending that waits is the   *)
(* last call, posted when the row before was left.                           *)

Own(r) == (r.from # None => r.from = r.path) /\ r.made = r.read

RowsOwn(items) == \A i \in 1 .. Len(items) : Own(items[i])

OnlyFallbacks(post) == \A k \in 1 .. Len(post) : post[k] = "fallback"

ProcessIsOfCurrentRow ==
    /\ current = 0 <=> proc.state = "NotRunning"
    /\ proc.state # "Starting"
    /\ current # 0 => proc.input = rows[current].path /\ proc.made = search

LoneCall ==
    \A k \in 1 .. Len(posted) :
        posted[k] # "fallback" => k = Len(posted) /\ current = 0 /\ ~closing

OrderlyInv == orderly => ProcessIsOfCurrentRow /\ LoneCall /\ RowsOwn(rows)

LEMMA OnlyFallbacksIsLone ==
  ASSUME posted' \in Seq(Calls), OnlyFallbacks(posted') PROVE LoneCall'
  BY DEF OnlyFallbacks, LoneCall

\* One more call at the end of the posted ones.
LEMMA LoneCallPosted ==
  ASSUME NEW post \in Seq(Calls), OnlyFallbacks(post), current' = 0, ~closing',
         \/ posted' = post
         \/ posted' = post \o <<"startNext">>
         \/ posted' = post \o <<"fallback", "startNext">>
  PROVE  LoneCall'
<1>1. Len(post) \in Nat
  BY LenProperties
<1>2. CASE posted' = post
  BY <1>2 DEF OnlyFallbacks, LoneCall
<1>3. CASE posted' = post \o <<"startNext">>
  <2>1. Len(posted') = Len(post) + 1
    BY <1>1, <1>3
  <2>2. \A k \in 1 .. Len(post) : posted'[k] = "fallback"
    BY <1>1, <1>3 DEF OnlyFallbacks
  <2> QED
    BY <1>1, <2>1, <2>2 DEF LoneCall
<1>4. CASE posted' = post \o <<"fallback", "startNext">>
  <2>1. Len(posted') = Len(post) + 2
    BY <1>1, <1>4
  <2>2. \A k \in 1 .. Len(post) + 1 : posted'[k] = "fallback"
    BY <1>1, <1>4 DEF OnlyFallbacks
  <2> QED
    BY <1>1, <2>1, <2>2 DEF LoneCall
<1> QED
  BY <1>2, <1>3, <1>4

\* Setting the state of a row leaves its path and its result alone.
LEMMA SetStateKeepsResult ==
  ASSUME NEW items \in Seq(CleanRows), NEW k \in 1 .. Len(items),
         NEW s \in Terminal \cup {"Running"}, RowsOwn(items)
  PROVE  RowsOwn(SetState(items, k, s)) /\ SetState(items, k, s)[k].path = items[k].path
<1> DEFINE r == [items[k] EXCEPT !.state = s]
<1>1. items[k] \in CleanRows
  BY ElementOfSeq
<1>2. r.path = items[k].path /\ (Own(items[k]) => Own(r))
  BY <1>1 DEF CleanRows, Rows, Own
<1>3. SetState(items, k, s) = [items EXCEPT ![k] = r]
  BY DEF SetState
<1> HIDE DEF r
<1>4. /\ DOMAIN items = 1 .. Len(items) /\ Len(items) \in Nat
      /\ DOMAIN [items EXCEPT ![k] = r] = DOMAIN items
  BY LenProperties
<1>5. Len([items EXCEPT ![k] = r]) = Len(items)
  BY <1>4
<1>6. \A j \in 1 .. Len(items) : [items EXCEPT ![k] = r][j] = IF j = k THEN r ELSE items[j]
  BY <1>4
<1> QED
  BY <1>2, <1>3, <1>5, <1>6 DEF RowsOwn

\* startNext, called when no process exists.
LEMMA startNextOrderly ==
  ASSUME FlagsOK, search \in BOOLEAN, orderly, ~closing, proc.state = "NotRunning",
         UNCHANGED <<orderly, closing, search>>,
         NEW items \in Seq(CleanRows), RowsOwn(items), NEW from \in Nat \ {0},
         NEW cancelled \in BOOLEAN, NEW b \in BOOLEAN, NEW post \in Seq(Calls),
         OnlyFallbacks(post), startNext(items, from, cancelled, b, post)
  PROVE  OrderlyInv'
<1>1. DOMAIN items = 1 .. Len(items) /\ Len(items) \in Nat
  BY LenProperties
<1>2. ASSUME Halt(items, post) PROVE OrderlyInv'
  <2>1. rows' = items /\ current' = 0 /\ proc' = proc /\ posted' = post
    BY <1>2 DEF Halt
  <2>2. LoneCall'
    BY <2>1, LoneCallPosted
  <2> QED
    BY <2>1, <2>2 DEF OrderlyInv, ProcessIsOfCurrentRow
<1>3. ASSUME NEW k \in 1 .. Len(items), Launch(items, k, b, post) PROVE OrderlyInv'
  <2>1. /\ rows' = SetState(items, k, "Running") /\ current' = k /\ posted' = post
        /\ proc' = [state |-> "Running", input |-> items[k].path, made |-> search, killed |-> FALSE]
    BY <1>3 DEF Launch
  <2>2. RowsOwn(rows') /\ rows'[k].path = items[k].path
    BY <2>1, SetStateKeepsResult
  <2>3. LoneCall' /\ k # 0
    BY <2>1, OnlyFallbacksIsLone
  <2> QED
    BY <2>1, <2>2, <2>3 DEF OrderlyInv, ProcessIsOfCurrentRow
<1>4. ASSUME NEW k \in 1 .. Len(items), LaunchFails(items, k, b, post) PROVE OrderlyInv'
  <2>1. rows' = SetState(items, k, "Failed") /\ current' = 0
    BY <1>4 DEF LaunchFails
  <2>2. RowsOwn(rows')
    BY <2>1, SetStateKeepsResult DEF Terminal
  <2>3. /\ proc'.state = "NotRunning"
        /\ posted' = post \o <<"startNext">> \/ posted' = post \o <<"fallback", "startNext">>
    BY <1>4, NotRunningIsProc DEF LaunchFails
  <2>4. LoneCall'
    BY <2>1, <2>3, LoneCallPosted
  <2> QED
    BY <2>1, <2>2, <2>3, <2>4 DEF OrderlyInv, ProcessIsOfCurrentRow
<1> QED
  BY <1>1, <1>2, <1>3, <1>4 DEF startNext, Waiting

\* startPending, when no other call to start waits.
LEMMA startPendingOrderly ==
  ASSUME FlagsOK, CurrentOK, search \in BOOLEAN, orderly, ~closing, ProcessIsOfCurrentRow,
         UNCHANGED <<orderly, closing, search>>,
         NEW items \in Seq(CleanRows), RowsOwn(items), Len(rows) \in Nat,
         \A i \in 1 .. Len(rows) : items[i] = rows[i],
         NEW post \in Seq(Calls), OnlyFallbacks(post), startPending(items, post)
  PROVE  OrderlyInv'
<1>1. CASE current = 0 /\ startNext(items, 1, FALSE, TRUE, post)
  <2>1. 1 \in Nat \ {0} /\ FALSE \in BOOLEAN /\ TRUE \in BOOLEAN
    OBVIOUS
  <2>2. proc.state = "NotRunning"
    BY <1>1 DEF ProcessIsOfCurrentRow
  <2> QED
    BY <1>1, <2>1, <2>2, startNextOrderly, Zenon
<1>2. CASE Stay(items, post)
  <2>1. rows' = items /\ posted' = post /\ UNCHANGED <<current, proc>>
    BY <1>2 DEF Stay
  <2>2. LoneCall'
    BY <2>1, OnlyFallbacksIsLone
  <2>3. current # 0 => items[current] = rows[current]
    BY DEF CurrentOK, FlagsOK
  <2> QED
    BY <2>1, <2>2, <2>3 DEF OrderlyInv, ProcessIsOfCurrentRow
<1> QED
  BY <1>1, <1>2 DEF startPending

LEMMA RunPostedOrderly ==
  ASSUME QueueInv, OrderlyInv, orderly, RunPosted PROVE OrderlyInv'
<1> DEFINE first == Head(posted)
           rest == Tail(posted)
<1>1. rows \in Seq(CleanRows) /\ FlagsOK /\ CurrentOK /\ OthersOK
  BY QueueInvParts
<1>2. ProcessIsOfCurrentRow /\ LoneCall /\ RowsOwn(rows)
  BY DEF OrderlyInv
<1>3. UNCHANGED <<orderly, closing, search>> /\ posted # <<>> /\ posted \in Seq(Calls)
  BY <1>1 DEF RunPosted, FlagsOK
<1>4. /\ rest \in Seq(Calls) /\ first = posted[1] /\ Len(posted) \in Nat \ {0}
      /\ Len(rest) = Len(posted) - 1
      /\ \A k \in 1 .. Len(rest) : rest[k] = posted[k + 1]
  BY <1>3, HeadTailProperties, LenProperties, EmptySeq
<1>5. /\ first \in Calls
      /\ first = "startNext" => startNext(rows, next, cancel_requested, busy, rest)
      /\ first = "startPending" => startPending(rows, rest)
      /\ first = "fallback" => Stay(rows, rest)
  <2>1. first \in Calls
    BY <1>3, <1>4, ElementOfSeq
  <2>2. ~(current # 0 /\ proc.state = "NotRunning")
    BY <1>2 DEF ProcessIsOfCurrentRow
  <2> QED
    BY <2>1, <2>2 DEF RunPosted
<1> HIDE DEF first, rest
<1>6. CASE first = "fallback"
  <2>1. posted' = rest /\ UNCHANGED <<rows, current, proc>>
    BY <1>5, <1>6 DEF Stay
  <2>2. LoneCall'
    BY <1>2, <1>3, <1>4, <2>1 DEF LoneCall
  <2> QED
    BY <1>2, <1>3, <2>1, <2>2 DEF OrderlyInv, ProcessIsOfCurrentRow
<1>7. CASE first # "fallback"
  <2>1. current = 0 /\ ~closing /\ Len(posted) = 1
    BY <1>2, <1>4, <1>7 DEF LoneCall
  <2>2. OnlyFallbacks(rest) /\ proc.state = "NotRunning"
    BY <1>2, <1>4, <2>1 DEF OnlyFallbacks, ProcessIsOfCurrentRow
  <2>3. /\ next \in Nat \ {0} /\ cancel_requested \in BOOLEAN /\ busy \in BOOLEAN
        /\ search \in BOOLEAN /\ Len(rows) \in Nat
    BY <1>1, LenProperties DEF FlagsOK, OthersOK
  <2>4. CASE startNext(rows, next, cancel_requested, busy, rest)
    BY <1>1, <1>2, <1>3, <1>4, <2>1, <2>2, <2>3, <2>4, startNextOrderly
  <2>5. CASE startPending(rows, rest)
    BY <1>1, <1>2, <1>3, <1>4, <2>1, <2>2, <2>3, <2>5, startPendingOrderly
  <2> QED
    BY <1>5, <1>7, <2>4, <2>5 DEF Calls
<1> QED
  BY <1>6, <1>7

\* The process and the timer: a process is killed, never started.
LEMMA TimerAndStartOrderly ==
  ASSUME QueueInv, OrderlyInv, orderly,
         LateStart \/ LateStartFails \/ OutputOverCap \/ processTimedOut
  PROVE  OrderlyInv'
<1>1. FlagsOK /\ CurrentOK
  BY QueueInvParts
<1>2. ProcessIsOfCurrentRow /\ LoneCall /\ RowsOwn(rows)
  BY DEF OrderlyInv
<1>3. OutputOverCap \/ processTimedOut
  BY <1>2 DEF LateStart, LateStartFails, ProcessIsOfCurrentRow
<1>4. UNCHANGED <<orderly, closing, search, rows, current, posted>>
  BY <1>3 DEF OutputOverCap, processTimedOut
<1>5. proc' = proc \/ proc' = [proc EXCEPT !.killed = TRUE]
  BY <1>3 DEF OutputOverCap, processTimedOut
<1>6. /\ proc'.state = proc.state /\ proc'.input = proc.input /\ proc'.made = proc.made
      /\ proc.killed => proc'.killed
  BY <1>1, <1>5 DEF FlagsOK, Procs
<1> QED
  BY <1>2, <1>4, <1>6 DEF OrderlyInv, ProcessIsOfCurrentRow, LoneCall

\* The row that is decided is the one the process was started for.
LEMMA ProcessEndsOrderly ==
  ASSUME QueueInv, OrderlyInv, orderly, NEW crash \in BOOLEAN, NEW good \in BOOLEAN,
         ProcessEnds(crash, good)
  PROVE  OrderlyInv'
<1> DEFINE s == RowResult(crash, good)
           post == IF crash /\ current # 0 THEN Append(posted, "fallback") ELSE posted
<1>1. rows \in Seq(CleanRows) /\ FlagsOK /\ CurrentOK
  BY QueueInvParts
<1>2. ProcessIsOfCurrentRow /\ LoneCall /\ RowsOwn(rows)
  BY DEF OrderlyInv
<1>3. current # 0 /\ current \in 1 .. Len(rows) /\ Len(rows) \in Nat
  <2>1. current # 0
    BY <1>2 DEF ProcessEnds, ProcessIsOfCurrentRow
  <2> QED
    BY <1>1, <2>1, LenProperties DEF CurrentOK, FlagsOK
<1>4. /\ proc' = NotRunning /\ current' = 0 /\ UNCHANGED <<orderly, closing, search>>
      /\ IF closing THEN rows' = rows /\ posted' = post
         ELSE /\ posted' = Append(post, "startNext")
              /\ rows' = [rows EXCEPT ![current] = Decided(rows[current], s)]
  BY <1>3 DEF ProcessEnds
<1>5. posted \in Seq(Calls) /\ OnlyFallbacks(posted) /\ Len(posted) \in Nat
  BY <1>1, <1>2, <1>3, LenProperties DEF FlagsOK, LoneCall, OnlyFallbacks
<1>6. post \in Seq(Calls) /\ OnlyFallbacks(post) /\ Len(post) \in Nat
  <2>1. CASE post = Append(posted, "fallback")
    <3>1. /\ post \in Seq(Calls) /\ Len(post) = Len(posted) + 1
          /\ \A k \in 1 .. Len(posted) : post[k] = posted[k]
          /\ post[Len(posted) + 1] = "fallback"
      BY <1>5, <2>1, PostedMore, AppendProperties DEF Calls
    <3> QED
      BY <1>5, <3>1 DEF OnlyFallbacks
  <2> QED
    BY <1>5, <2>1
<1>7. RowsOwn(rows')
  <2>1. CASE closing
    BY <1>2, <1>4, <2>1
  <2>2. CASE ~closing
    <3>1. Own(Decided(rows[current], s))
      BY <1>2, <1>3 DEF Own, Decided, ProcessIsOfCurrentRow
    <3> DEFINE r == Decided(rows[current], s)
    <3>2. rows' = [rows EXCEPT ![current] = r] /\ DOMAIN rows = 1 .. Len(rows)
      BY <1>1, <1>4, <2>2, LenProperties
    <3> HIDE DEF r
    <3>3. Len(rows') = Len(rows) /\ \A i \in 1 .. Len(rows) : rows'[i] = IF i = current THEN r ELSE rows[i]
      BY <1>3, <3>2
    <3>4. Own(r)
      BY <3>1 DEF r
    <3> QED
      BY <1>2, <3>3, <3>4 DEF RowsOwn
  <2> QED
    BY <2>1, <2>2
<1> HIDE DEF post, s
<1>8. LoneCall'
  <2>1. CASE closing
    BY <1>4, <1>6, <2>1, OnlyFallbacksIsLone
  <2>2. CASE ~closing
    <3>1. /\ posted' = Append(post, "startNext") /\ Len(posted') = Len(post) + 1
          /\ \A k \in 1 .. Len(post) : posted'[k] = post[k]
      BY <1>4, <1>6, <2>2, AppendProperties
    <3> QED
      BY <1>4, <1>6, <2>2, <3>1 DEF LoneCall, OnlyFallbacks
  <2> QED
    BY <2>1, <2>2
<1> QED
  BY <1>4, <1>7, <1>8, NotRunningIsProc DEF OrderlyInv, ProcessIsOfCurrentRow

\* The user acts only while no call waits.
LEMMA NothingWaits ==
  ASSUME UserActs, orderly
  PROVE  posted = <<>> /\ ~closing /\ posted \in Seq(Calls) /\ OnlyFallbacks(posted)
<1>1. posted = <<>> /\ ~closing
  BY DEF UserActs
<1> QED
  BY <1>1, EmptySeq DEF OnlyFallbacks

LEMMA AddPathOrderly ==
  ASSUME QueueInv, OrderlyInv, orderly, NEW p \in Paths, AddPath(p) PROVE OrderlyInv'
<1> DEFINE items == Append(rows, Row(p))
<1>1. rows \in Seq(CleanRows) /\ FlagsOK /\ CurrentOK /\ OthersOK
  BY QueueInvParts
<1>2. ProcessIsOfCurrentRow /\ RowsOwn(rows)
  BY DEF OrderlyInv
<1>3. Len(rows) \in Nat /\ search \in BOOLEAN
  BY <1>1, LenProperties DEF OthersOK
<1>4. /\ items \in Seq(CleanRows) /\ Len(items) = Len(rows) + 1
      /\ \A i \in 1 .. Len(rows) : items[i] = rows[i]
      /\ items[Len(rows) + 1] = Row(p)
  <2>1. Row(p) \in CleanRows
    BY RowIsClean
  <2> QED
    BY <1>1, <2>1, AppendProperties
<1>5. RowsOwn(items)
  <2>1. Own(Row(p))
    BY DEF Own, Row, None
  <2> HIDE DEF items
  <2> QED
    BY <1>2, <1>3, <1>4, <2>1 DEF RowsOwn
<1>6. startPending(items, posted) /\ UserActs /\ UNCHANGED <<orderly, closing, search>>
  BY DEF AddPath, UserActs
<1> HIDE DEF items
<1>7. ~closing /\ posted \in Seq(Calls) /\ OnlyFallbacks(posted)
  BY <1>6, NothingWaits
<1> QED
  BY <1>1, <1>2, <1>3, <1>4, <1>5, <1>6, <1>7, startPendingOrderly

LEMMA startAnalysisOrderly ==
  ASSUME QueueInv, OrderlyInv, orderly, startAnalysis PROVE OrderlyInv'
<1> DEFINE items == [i \in DOMAIN rows |-> Row(rows[i].path)]
<1>1. rows \in Seq(CleanRows) /\ FlagsOK /\ OthersOK
  BY QueueInvParts
<1>2. Len(rows) \in Nat /\ DOMAIN rows = 1 .. Len(rows) /\ search \in BOOLEAN
  BY <1>1, LenProperties DEF OthersOK
<1>3. items \in Seq(CleanRows) /\ Len(items) = Len(rows)
  <2>1. \A i \in DOMAIN rows : rows[i].path \in Paths
    BY <1>1, <1>2, ElementOfSeq DEF CleanRows, Rows
  <2>2. \A i \in DOMAIN rows : Row(rows[i].path) \in CleanRows
    BY <2>1, RowIsClean
  <2>3. items \in [1 .. Len(rows) -> CleanRows]
    BY <1>2, <2>2
  <2> QED
    BY <1>2, <2>3, FunctionIsSeq
<1>4. RowsOwn(items)
  BY <1>2, <1>3 DEF RowsOwn, Own, Row, None
<1>5. startNext(items, 1, FALSE, TRUE, posted) /\ UserActs /\ current = 0
  BY DEF startAnalysis
<1>6. UNCHANGED <<orderly, closing, search>>
  BY DEF startAnalysis, UserActs
<1> HIDE DEF items
<1>7. ~closing /\ posted \in Seq(Calls) /\ OnlyFallbacks(posted)
  BY <1>5, NothingWaits
<1>8. proc.state = "NotRunning"
  BY <1>5 DEF OrderlyInv, ProcessIsOfCurrentRow
<1>9. 1 \in Nat \ {0} /\ FALSE \in BOOLEAN /\ TRUE \in BOOLEAN
  OBVIOUS
<1> QED
  BY <1>1, <1>2, <1>3, <1>4, <1>5, <1>6, <1>7, <1>8, <1>9, startNextOrderly, Zenon

LEMMA cancelAnalysisOrderly ==
  ASSUME QueueInv, OrderlyInv, orderly, cancelAnalysis PROVE OrderlyInv'
<1>1. rows \in Seq(CleanRows) /\ FlagsOK /\ CurrentOK
  BY QueueInvParts
<1>2. ProcessIsOfCurrentRow /\ RowsOwn(rows)
  BY DEF OrderlyInv
<1>3. /\ Len(rows) \in Nat /\ DOMAIN rows = 1 .. Len(rows)
      /\ current \in 1 .. Len(rows) /\ proc.state = "Running"
  BY <1>1, LenProperties DEF CurrentOK, FlagsOK, cancelAnalysis
<1>4. /\ rows' = [i \in DOMAIN rows |->
              IF rows[i].state = "Queued" \/ (i = current /\ proc.state # "NotRunning")
              THEN [rows[i] EXCEPT !.state = "Cancelled"] ELSE rows[i]]
      /\ proc' = [proc EXCEPT !.killed = TRUE] /\ UNCHANGED <<current, posted>>
  BY <1>3 DEF cancelAnalysis
<1>5. UNCHANGED <<orderly, closing, search>> /\ OnlyFallbacks(posted) /\ posted \in Seq(Calls)
  BY NothingWaits DEF cancelAnalysis, UserActs
<1>6. Len(rows') = Len(rows)
  BY <1>3, <1>4
<1>7. \A i \in 1 .. Len(rows) : rows'[i].path = rows[i].path /\ Own(rows'[i])
  <2> SUFFICES ASSUME NEW i \in 1 .. Len(rows)
               PROVE  rows'[i].path = rows[i].path /\ Own(rows'[i])
    OBVIOUS
  <2>1. rows[i] \in CleanRows /\ Own(rows[i])
    BY <1>1, <1>2, ElementOfSeq DEF RowsOwn
  <2>2. rows'[i] = rows[i] \/ rows'[i] = [rows[i] EXCEPT !.state = "Cancelled"]
    BY <1>3, <1>4
  <2> QED
    BY <2>1, <2>2 DEF Own, CleanRows, Rows
<1>8. proc'.state = "Running" /\ proc'.input = proc.input /\ proc'.made = proc.made /\ proc'.killed
  BY <1>1, <1>3, <1>4 DEF FlagsOK, Procs
<1>9. LoneCall'
  BY <1>4, <1>5, OnlyFallbacksIsLone
<1> QED
  BY <1>2, <1>3, <1>4, <1>5, <1>6, <1>7, <1>8, <1>9
     DEF OrderlyInv, ProcessIsOfCurrentRow, RowsOwn

LEMMA ClearQueueOrderly ==
  ASSUME QueueInv, OrderlyInv, orderly, ClearQueue PROVE OrderlyInv'
<1>1. /\ rows' = <<>> /\ current = 0
      /\ UNCHANGED <<orderly, closing, search, current, proc, posted>>
  BY DEF ClearQueue, UserActs
<1>2. RowsOwn(rows')
  BY <1>1 DEF RowsOwn
<1> QED
  BY <1>1, <1>2 DEF OrderlyInv, ProcessIsOfCurrentRow, LoneCall

\* The search text is edited only while no row is current.
LEMMA EditSearchOrderly ==
  ASSUME QueueInv, OrderlyInv, orderly, EditSearch PROVE OrderlyInv'
<1>1. current = 0 /\ UNCHANGED <<orderly, closing, rows, current, proc, posted>>
  BY DEF EditSearch, UserActs
<1> QED
  BY <1>1 DEF OrderlyInv, ProcessIsOfCurrentRow, LoneCall

\* Closing kills the process; what its end posts starts nothing.
LEMMA CloseOrderly ==
  ASSUME QueueInv, OrderlyInv, orderly, Close PROVE OrderlyInv'
<1>1. FlagsOK
  BY QueueInvParts
<1>2. /\ closing' = TRUE /\ UNCHANGED <<orderly, search, rows>> /\ posted = <<>>
      /\ posted \in Seq(Calls) /\ OnlyFallbacks(posted) /\ ProcessIsOfCurrentRow /\ RowsOwn(rows)
  BY NothingWaits DEF Close, UserActs, OrderlyInv
<1>3. CASE UNCHANGED <<current, proc, posted>> /\ proc.state = "NotRunning"
  <2>1. LoneCall'
    BY <1>2, <1>3, OnlyFallbacksIsLone
  <2> QED
    BY <1>2, <1>3, <2>1 DEF OrderlyInv, ProcessIsOfCurrentRow
<1>4. CASE proc' = [proc EXCEPT !.killed = TRUE] /\ UNCHANGED <<current, posted>>
  <2>1. LoneCall'
    BY <1>2, <1>4, OnlyFallbacksIsLone
  <2>2. proc'.state = proc.state /\ proc'.input = proc.input /\ proc'.made = proc.made /\ proc'.killed
    BY <1>1, <1>4 DEF FlagsOK, Procs
  <2> QED
    BY <1>2, <1>4, <2>1, <2>2 DEF OrderlyInv, ProcessIsOfCurrentRow
<1>5. CASE \E crash \in BOOLEAN :
             /\ proc' = NotRunning /\ current' = 0
             /\ posted' = IF crash /\ current # 0 THEN Append(posted, "fallback") ELSE posted
  <2>1. posted' = <<>> \/ posted' = <<"fallback">>
    BY <1>2, <1>5
  <2>2. LoneCall'
    BY <2>1 DEF LoneCall
  <2> QED
    BY <1>2, <1>5, <2>2, NotRunningIsProc DEF OrderlyInv, ProcessIsOfCurrentRow
<1> QED
  BY <1>3, <1>4, <1>5 DEF Close

LEMMA InitOrderly == Init => OrderlyInv
<1> SUFFICES ASSUME Init PROVE OrderlyInv
  OBVIOUS
<1>1. PICK given \in StartupPaths :
         /\ rows = [i \in DOMAIN given |-> Row(given[i])]
         /\ posted = IF given = <<>> THEN <<>> ELSE <<"startPending">>
  BY DEF Init
<1>2. current = 0 /\ proc.state = "NotRunning" /\ ~closing
  BY NotRunningIsProc DEF Init
<1>3. LoneCall
  <2>1. posted = <<>> \/ posted = <<"startPending">>
    BY <1>1
  <2>2. Len(posted) = 0 \/ Len(posted) = 1
    BY <2>1
  <2>3. CASE Len(posted) = 0
    BY <2>3 DEF LoneCall
  <2>4. CASE Len(posted) = 1
    BY <1>2, <2>4 DEF LoneCall
  <2> QED
    BY <2>2, <2>3, <2>4
<1>4. RowsOwn(rows)
  <2>1. Len(given) \in Nat /\ DOMAIN given = 1 .. Len(given)
    BY GuiAssumption, LenProperties
  <2>2. Len(rows) = Len(given)
    BY <1>1, <2>1
  <2> QED
    BY <1>1, <2>1, <2>2 DEF RowsOwn, Own, Row, None
<1> QED
  BY <1>2, <1>3, <1>4 DEF OrderlyInv, ProcessIsOfCurrentRow

LEMMA NextOrderly == QueueInv /\ OrderlyInv /\ [Next]_vars => OrderlyInv'
<1> SUFFICES ASSUME QueueInv, OrderlyInv, [Next]_vars, orderly' PROVE OrderlyInv'
  BY DEF OrderlyInv
<1>1. CASE User
  <2>1. orderly
    BY <1>1 DEF User, AddPath, ClearQueue, startAnalysis, cancelAnalysis, EditSearch, Close, UserActs
  <2> QED
    BY <1>1, <2>1, AddPathOrderly, ClearQueueOrderly, startAnalysisOrderly, cancelAnalysisOrderly,
       EditSearchOrderly, CloseOrderly DEF User
<1>2. CASE Loop
  <2>1. orderly
    BY <1>2 DEF Loop, RunPosted, LateStart, LateStartFails, processTimedOut, OutputOverCap, ProcessEnds
  <2> QED
    BY <1>2, <2>1, RunPostedOrderly, TimerAndStartOrderly, ProcessEndsOrderly DEF Loop
<1>3. CASE UNCHANGED vars
  BY <1>3 DEF vars, flags, OrderlyInv, ProcessIsOfCurrentRow, LoneCall
<1> QED
  BY <1>1, <1>2, <1>3 DEF Next

LEMMA OrderlyCorrect == Spec => []OrderlyInv
<1>1. QueueInv /\ [Next]_vars => QueueInv'
  BY NextOK
<1> QED
  BY InitOK, <1>1, InitOrderly, NextOrderly, PTL DEF Spec

\* What decides a row is the end of the process that was started for it, with
\* its output read as it was asked for, for any paths and any number of rows,
\* in every run in which the CLI starts in time, the user does not act between
\* a posted startNext and its run, and the search text stays during a run.
THEOREM ResultsStayWithTheirRows == Spec => []OwnResultsWhenOrderly
<1>1. QueueInv /\ OrderlyInv => OwnResultsWhenOrderly
  <2> SUFFICES ASSUME QueueInv, OrderlyInv, orderly
               PROVE  RowsOwnTheirResults /\ \A i \in DOMAIN rows : rows[i].made = rows[i].read
    BY DEF OwnResultsWhenOrderly
  <2>1. DOMAIN rows = 1 .. Len(rows)
    BY QueueInvParts, LenProperties
  <2> QED
    BY <2>1 DEF OrderlyInv, RowsOwn, Own, RowsOwnTheirResults
<1>2. QueueInv /\ [Next]_vars => QueueInv'
  BY NextOK
<1> QED
  BY InitOK, <1>1, <1>2, OrderlyCorrect, PTL DEF Spec

-----------------------------------------------------------------------------
(* Closing the window *)

LEMMA StartersFinite ==
  ASSUME NEW s \in Seq(Calls)
  PROVE  IsFiniteSet(Starters(s)) /\ Cardinality(Starters(s)) \in Nat
<1>1. DOMAIN s = 1 .. Len(s) /\ Len(s) \in Nat
  BY LenProperties
<1>2. IsFiniteSet(1 .. Len(s)) /\ Starters(s) \in SUBSET (1 .. Len(s))
  BY <1>1, FS_Interval DEF Starters
<1>3. IsFiniteSet(Starters(s))
  BY <1>2, FS_Subset
<1> QED
  BY <1>3, FS_CardinalityType

\* A call that is posted adds itself, unless it is a fallback.
LEMMA StartersAppend ==
  ASSUME NEW s \in Seq(Calls), NEW e \in Calls
  PROVE  Cardinality(Starters(Append(s, e))) =
            Cardinality(Starters(s)) + (IF e = "fallback" THEN 0 ELSE 1)
<1> DEFINE t == Append(s, e)
           n == Len(s) + 1
<1>1. /\ Len(s) \in Nat /\ DOMAIN s = 1 .. Len(s) /\ DOMAIN t = 1 .. n
      /\ t[n] = e /\ \A i \in 1 .. Len(s) : t[i] = s[i]
  <2>1. t \in Seq(Calls) /\ Len(t) = n
    BY AppendProperties
  <2> QED
    BY <2>1, AppendProperties, LenProperties
<1> HIDE DEF t
<1>2. Starters(t) = IF e = "fallback" THEN Starters(s) ELSE Starters(s) \cup {n}
  BY <1>1 DEF Starters
<1>3. n \notin Starters(s)
  BY <1>1 DEF Starters
<1>4. IsFiniteSet(Starters(s)) /\ Cardinality(Starters(s)) \in Nat
  BY StartersFinite
<1>5. Cardinality(Starters(s) \cup {n}) = Cardinality(Starters(s)) + 1
  BY <1>3, <1>4, FS_AddElement
<1> QED
  BY <1>2, <1>4, <1>5 DEF t

\* A call that runs is used up.
LEMMA StartersTail ==
  ASSUME NEW s \in Seq(Calls), s # <<>>
  PROVE  Cardinality(Starters(Tail(s))) + (IF Head(s) = "fallback" THEN 0 ELSE 1)
            <= Cardinality(Starters(s))
<1> DEFINE S == Starters(Tail(s))
           T == Starters(s) \ {1}
           f == [i \in S |-> i + 1]
<1>1. /\ Tail(s) \in Seq(Calls) /\ Len(s) \in Nat \ {0} /\ DOMAIN s = 1 .. Len(s)
      /\ DOMAIN Tail(s) = 1 .. (Len(s) - 1) /\ Head(s) = s[1]
      /\ \A i \in 1 .. (Len(s) - 1) : Tail(s)[i] = s[i + 1]
  BY HeadTailProperties, LenProperties, EmptySeq
<1>2. S \subseteq 1 .. (Len(s) - 1) /\ \A i \in S : i + 1 \in T
  BY <1>1 DEF Starters
<1>3. f \in Injection(S, T)
  BY <1>2 DEF Injection, IsInjective
<1>4. /\ IsFiniteSet(Starters(s)) /\ Cardinality(Starters(s)) \in Nat
      /\ Cardinality(S) \in Nat
  BY <1>1, StartersFinite
<1>5. /\ IsFiniteSet(T)
      /\ Cardinality(T) = IF 1 \in Starters(s) THEN Cardinality(Starters(s)) - 1
                          ELSE Cardinality(Starters(s))
  BY <1>4, FS_RemoveElement
<1>6. Cardinality(S) <= Cardinality(T)
  <2> HIDE DEF S, T, f
  <2> QED
    BY <1>3, <1>5, FS_Injection
<1>7. Head(s) # "fallback" => 1 \in Starters(s)
  BY <1>1 DEF Starters
<1> QED
  BY <1>4, <1>5, <1>6, <1>7

\* startNext begins one analysis, or posts itself once after a failed start.
LEMMA startNextCounts ==
  ASSUME NEW items, NEW from, NEW cancelled, NEW b, NEW post \in Seq(Calls),
         startNext(items, from, cancelled, b, post)
  PROVE  Cardinality(Starters(posted')) + (IF Begins THEN 1 ELSE 0)
            <= Cardinality(Starters(post)) + 1
<1>1. Cardinality(Starters(post)) \in Nat
  BY StartersFinite
<1>2. CASE posted' = post
  BY <1>1, <1>2
<1>3. CASE \E k \in Waiting(items, from) : LaunchFails(items, k, b, post)
  <2>1. current' = 0 /\ (\/ posted' = post \o <<"startNext">>
                         \/ posted' = post \o <<"fallback", "startNext">>)
    BY <1>3 DEF LaunchFails
  <2>2. \/ posted' = Append(post, "startNext")
        \/ posted' = Append(Append(post, "fallback"), "startNext")
    BY <2>1
  <2>3. Append(post, "fallback") \in Seq(Calls) /\ "fallback" \in Calls /\ "startNext" \in Calls
    BY PostedMore DEF Calls
  <2>4. Cardinality(Starters(posted')) = Cardinality(Starters(post)) + 1
    <3>1. Cardinality(Starters(Append(post, "startNext"))) = Cardinality(Starters(post)) + 1
      BY <2>3, StartersAppend
    <3>2. Cardinality(Starters(Append(Append(post, "fallback"), "startNext")))
             = Cardinality(Starters(Append(post, "fallback"))) + 1
      BY <2>3, StartersAppend
    <3>3. Cardinality(Starters(Append(post, "fallback"))) = Cardinality(Starters(post)) + 0
      BY <2>3, StartersAppend
    <3>4. CASE posted' = Append(post, "startNext")
      BY <3>1, <3>4, Zenon
    <3>5. CASE posted' = Append(Append(post, "fallback"), "startNext")
      <4>1. Cardinality(Starters(post)) + 0 = Cardinality(Starters(post))
        BY <1>1
      <4> QED
        BY <3>2, <3>3, <3>5, <4>1, Zenon
    <3> QED
      BY <2>2, <3>4, <3>5
  <2>5. ~Begins
    BY <2>1 DEF Begins
  <2> QED
    BY <1>1, <2>4, <2>5
<1> QED
  BY <1>2, <1>3 DEF startNext, Halt, Launch

\* What may not happen in a step, as ClosedWindowWindsDown has it.
WindsDown ==
    /\ ~closing /\ closing' => proc'.state = "NotRunning" \/ proc'.killed
    /\ closing => Cardinality(Starters(posted')) + (IF Begins THEN 1 ELSE 0)
                     <= Cardinality(Starters(posted))

LEMMA QuietStep ==
  ASSUME QueueInv, UNCHANGED <<closing, current, posted>> PROVE WindsDown
<1>1. Cardinality(Starters(posted)) \in Nat
  BY QueueInvParts, StartersFinite DEF FlagsOK
<1> QED
  BY <1>1 DEF WindsDown, Begins

LEMMA RunPostedWindsDown ==
  ASSUME QueueInv, RunPosted PROVE WindsDown
<1> DEFINE rest == Tail(posted)
           starts == IF Head(posted) = "fallback" THEN 0 ELSE 1
<1>1. closing' = closing /\ posted # <<>> /\ posted \in Seq(Calls) /\ CurrentOK
  BY QueueInvParts DEF RunPosted, FlagsOK
<1>2. rest \in Seq(Calls) /\ Head(posted) \in Calls
  BY <1>1, HeadTailProperties
<1>3. Cardinality(Starters(rest)) + starts <= Cardinality(Starters(posted))
  BY <1>1, StartersTail
<1>4. Cardinality(Starters(rest)) \in Nat /\ Cardinality(Starters(posted)) \in Nat
  BY <1>1, <1>2, StartersFinite
<1>5. CASE Stay(rows, rest)
  <2>1. posted' = rest /\ ~Begins
    BY <1>5 DEF Stay, Begins
  <2> QED
    BY <1>1, <1>3, <1>4, <2>1 DEF WindsDown
<1>6. CASE Head(posted) # "fallback" /\ ~Stay(rows, rest)
  <2>1. PICK from, cancelled, b : startNext(rows, from, cancelled, b, rest)
    <3>1. \/ startNext(rows, next, cancel_requested, busy, rest)
          \/ startNext(rows, 1, FALSE, TRUE, rest)
      BY <1>2, <1>6 DEF RunPosted, Calls, startPending
    <3> QED
      BY <3>1, Zenon
  <2>2. Cardinality(Starters(posted')) + (IF Begins THEN 1 ELSE 0)
           <= Cardinality(Starters(rest)) + 1
    BY <1>2, <2>1, startNextCounts
  <2>3. posted' \in Seq(Calls)
    BY RunPostedStep, QueueInvPartsNext DEF FlagsOK
  <2>4. Cardinality(Starters(posted')) \in Nat
    BY <2>3, StartersFinite
  <2> QED
    BY <1>1, <1>3, <1>4, <1>6, <2>2, <2>4 DEF WindsDown
<1>7. CASE Head(posted) = "fallback"
  <2>1. ~(current # 0 /\ proc.state = "NotRunning")
    BY <1>1 DEF CurrentOK
  <2> QED
    BY <1>5, <1>7, <2>1 DEF RunPosted
<1> QED
  BY <1>5, <1>6, <1>7

\* The end of an analysis posts at most a fallback, and no row is current.
LEMMA ProcessEndsWindsDown ==
  ASSUME QueueInv, NEW crash \in BOOLEAN, NEW good \in BOOLEAN, ProcessEnds(crash, good)
  PROVE  WindsDown
<1>1. closing' = closing /\ current' = 0 /\ posted \in Seq(Calls)
  BY QueueInvParts DEF ProcessEnds, FlagsOK
<1>2. closing => posted' = posted \/ posted' = Append(posted, "fallback")
  BY DEF ProcessEnds
<1>3. Cardinality(Starters(Append(posted, "fallback"))) = Cardinality(Starters(posted)) + 0
  BY <1>1, StartersAppend DEF Calls
<1>4. Cardinality(Starters(posted)) \in Nat /\ ~Begins
  BY <1>1, StartersFinite DEF Begins
<1>5. closing => Cardinality(Starters(posted')) = Cardinality(Starters(posted))
  <2>1. Cardinality(Starters(posted)) + 0 = Cardinality(Starters(posted))
    BY <1>4
  <2> QED
    BY <1>2, <1>3, <2>1, Zenon
<1> QED
  BY <1>1, <1>4, <1>5 DEF WindsDown

\* closeEvent kills the process; the user does nothing in a closed window.
LEMMA UserWindsDown ==
  ASSUME QueueInv, User PROVE WindsDown
<1>1. ~closing
  BY DEF User, AddPath, ClearQueue, startAnalysis, cancelAnalysis, EditSearch, Close, UserActs
<1>2. CASE Close
  <2>1. proc \in Procs
    BY QueueInvParts DEF FlagsOK
  <2>2. proc'.state = "NotRunning" \/ proc'.killed
    BY <1>2, <2>1, NotRunningIsProc DEF Close, Procs
  <2> QED
    BY <1>1, <2>2 DEF WindsDown
<1>3. CASE ~Close
  <2>1. closing' = closing
    BY <1>3 DEF User, AddPath, ClearQueue, startAnalysis, cancelAnalysis, EditSearch
  <2> QED
    BY <1>1, <2>1 DEF WindsDown
<1> QED
  BY <1>2, <1>3

LEMMA NextWindsDown == QueueInv /\ [Next]_vars => [WindsDown]_vars
<1> SUFFICES ASSUME QueueInv, Next PROVE WindsDown
  OBVIOUS
<1>1. CASE LateStart \/ LateStartFails \/ OutputOverCap \/ processTimedOut
  <2>1. UNCHANGED <<closing, current, posted>>
    BY <1>1 DEF LateStart, LateStartFails, OutputOverCap, processTimedOut
  <2> QED
    BY <2>1, QuietStep
<1> QED
  BY <1>1, RunPostedWindsDown, ProcessEndsWindsDown, UserWindsDown DEF Next, Loop

\* After closeEvent what runs is dead or killed, and of the calls that were
\* posted before each starts at most one analysis and none posts more, for any
\* queue, any calls and any order of the handlers, late starts included.  That
\* no analysis is started after closing is not so: a posted startNext does.
THEOREM ClosingWindsDown == Spec => ClosedWindowWindsDown
<1>1. QueueInv /\ [Next]_vars => QueueInv'
  BY NextOK
<1>2. QueueInv /\ [Next]_vars => [WindsDown]_vars
  BY NextWindsDown
<1> QED
  BY InitOK, <1>1, <1>2, PTL DEF Spec, ClosedWindowWindsDown, WindsDown

=============================================================================
