------------------------------ MODULE GuiQueue ------------------------------
(***************************************************************************)
(* The job queue of the Qt workspace (tools/qt_gui/main.cpp): rows are     *)
(* analysed one after the other by one QProcess, and everything happens in *)
(* handlers of one event loop: signals of the process, the timer, clicks   *)
(* and drops, and the calls that handlers post to the end of the loop with *)
(* QTimer::singleShot(0).  Posted calls keep their order among themselves, *)
(* but any other event may be handled before them.                         *)
(*                                                                         *)
(* The process is an external part, modelled by how QProcess is used here: *)
(* start() on a process that is not NotRunning is ignored, as are new      *)
(* arguments, and waitForStarted() is then satisfied by the old one; a     *)
(* process that crashes signals errorOccurred and then finished.           *)
(***************************************************************************)
EXTENDS Integers, Sequences, FiniteSets

CONSTANTS
    Paths,           \* what may be dropped into the queue
    StartupPaths,    \* lists of paths given on the command line
    MaxClicks        \* bound: how often the user acts

ASSUME GuiAssumption ==
    /\ "none" \notin Paths
    /\ StartupPaths \subseteq Seq(Paths)
    /\ MaxClicks \in Nat

VARIABLES
    orderly,         \* the CLI starts in time, the user never acts while a
                     \* posted call waits, nor edits the search text in a run
    rows,            \* m_items
    current, next,   \* m_current (0: none) and m_next, counted from 1
    cancel_requested, timed_out, start_error, closing,
    busy,            \* m_cancel is enabled and m_start is not
    search,          \* whether there is a search text
    timer,           \* m_timeout_timer is running
    proc,            \* m_process
    posted,          \* posted calls
    clicks

flags == <<cancel_requested, timed_out, start_error, busy, timer>>
vars == <<orderly, rows, current, next, flags, closing, search, proc, posted, clicks>>

None == "none"

\* A row, with the input of the process whose end decided it and whether that
\* process was started, and its output read, as a search.
Row(p) == [path |-> p, state |-> "Queued", from |-> None, made |-> FALSE, read |-> FALSE]

Terminal == {"Done", "Failed", "Cancelled"}

Rows == [path : Paths, state : Terminal \cup {"Queued", "Running"},
         from : Paths \cup {None}, made : BOOLEAN, read : BOOLEAN]

NotRunning == [state |-> "NotRunning", input |-> None, made |-> FALSE, killed |-> FALSE]

\* Types, and: the current row is one that is being analysed by a process that
\* runs, so no handler reads past the end of m_items or waits for a process
\* that will not signal.
TypeOK ==
    /\ rows \in Seq(Rows) /\ current \in Nat /\ next \in Nat \ {0}
    /\ cancel_requested \in BOOLEAN /\ timed_out \in BOOLEAN
    /\ start_error \in BOOLEAN /\ closing \in BOOLEAN /\ busy \in BOOLEAN
    /\ timer \in BOOLEAN /\ search \in BOOLEAN /\ clicks \in 0 .. MaxClicks
    /\ proc \in [state : {"NotRunning", "Starting", "Running"}, input : Paths \cup {None},
                 made : BOOLEAN, killed : BOOLEAN]
    /\ posted \in Seq({"startNext", "startPending", "fallback"})
    /\ current # 0 => /\ current <= Len(rows)
                      /\ rows[current].state \in {"Running", "Cancelled"}
                      /\ proc.state = "Running"

Init ==
    /\ orderly \in BOOLEAN
    /\ \E given \in StartupPaths :
          /\ rows = [i \in DOMAIN given |-> Row(given[i])]
          /\ posted = IF given = <<>> THEN <<>> ELSE <<"startPending">>
    /\ current = 0 /\ next = 1
    /\ cancel_requested = FALSE /\ timed_out = FALSE /\ start_error = FALSE
    /\ closing = FALSE /\ busy = FALSE /\ search = FALSE /\ timer = FALSE
    /\ proc = NotRunning /\ clicks = 0

-----------------------------------------------------------------------------
(* startNext.  It is called with the rows, m_next, m_cancel_requested, the   *)
(* buttons and the posted calls as its caller leaves them.  The mutants,     *)
(* named <definition>_<fault>, are what a slip in the code would make of the *)
(* definition after them; nothing uses them.                                 *)

Waiting(items, from) == {i \in DOMAIN items : i >= from /\ items[i].state = "Queued"}

SetState(items, i, s) == [items EXCEPT ![i].state = s]

Halt(items, post) ==
    /\ rows' = items /\ current' = 0 /\ busy' = FALSE /\ posted' = post
    /\ UNCHANGED <<timed_out, start_error, timer, proc>>

\* The process runs: the new one, or one that was there before.
Launch(items, k, b, post) ==
    /\ rows' = SetState(items, k, "Running") /\ current' = k
    /\ timed_out' = FALSE /\ start_error' = FALSE /\ timer' = TRUE
    /\ busy' = b /\ posted' = post
    /\ proc' = IF proc.state = "NotRunning"
               THEN [state |-> "Running", input |-> items[k].path, made |-> search, killed |-> FALSE]
               ELSE [proc EXCEPT !.state = "Running"]

\* finishWithoutProcess, called by startNext: the row fails and the next call
\* is posted.  There is no CLI or the artifact folder is refused; or the CLI
\* cannot be started, which errorOccurred has seen first; or it has not
\* started after two seconds, and is left to start later.
LaunchFails(items, k, b, post) ==
    /\ rows' = SetState(items, k, "Failed") /\ current' = 0
    /\ timed_out' = FALSE /\ start_error' = TRUE /\ timer' = FALSE /\ busy' = b
    /\ \/ proc' = proc /\ posted' = post \o <<"startNext">>
       \/ /\ proc.state # "Running"
          /\ proc' = NotRunning /\ posted' = post \o <<"fallback", "startNext">>
       \/ /\ proc.state # "Running" /\ ~orderly
          /\ proc' = IF proc.state = "Starting" THEN proc
                     ELSE [state |-> "Starting", input |-> items[k].path, made |-> search, killed |-> FALSE]
          /\ posted' = post \o <<"startNext">>

startNext(items, from, cancelled, b, post) ==
    /\ cancel_requested' = cancelled
    /\ \/ /\ Waiting(items, from) = {}
          /\ next' = IF from > Len(items) THEN from ELSE Len(items) + 1
          /\ Halt(items, post)
       \/ \E k \in Waiting(items, from) :
             /\ \A j \in Waiting(items, from) : k <= j
             /\ IF cancelled THEN next' = k /\ Halt(items, post)
                ELSE next' = k + 1 /\ (Launch(items, k, b, post) \/ LaunchFails(items, k, b, post))

Stay(items, post) ==
    rows' = items /\ posted' = post /\ UNCHANGED <<current, next, flags, proc>>

startPending_Always(items, post) ==
    IF \E i \in DOMAIN items : items[i].state = "Queued"
    THEN startNext(items, 1, FALSE, TRUE, post)
    ELSE Stay(items, post)

startPending(items, post) ==
    IF current = 0 /\ \E i \in DOMAIN items : items[i].state = "Queued"
    THEN startNext(items, 1, FALSE, TRUE, post)
    ELSE Stay(items, post)

-----------------------------------------------------------------------------
(* Posted calls *)

\* The fallback of errorOccurred finds a row only if no other handler has
\* finished it.
FinishRow(s, post) ==
    /\ rows' = SetState(rows, current, s) /\ current' = 0 /\ timer' = FALSE
    /\ posted' = post \o <<"startNext">>
    /\ UNCHANGED <<next, cancel_requested, timed_out, start_error, busy>>

finishWithoutProcess(post) ==
    FinishRow(IF cancel_requested \/ rows[current].state = "Cancelled" THEN "Cancelled"
              ELSE "Failed", post)

RunPosted ==
    /\ posted # <<>>
    /\ CASE Head(posted) = "startNext" ->
              startNext(rows, next, cancel_requested, busy, Tail(posted))
         [] Head(posted) = "startPending" -> startPending(rows, Tail(posted))
         [] Head(posted) = "fallback" ->
              IF current # 0 /\ proc.state = "NotRunning"
              THEN finishWithoutProcess(Tail(posted)) /\ proc' = proc
              ELSE Stay(rows, Tail(posted))
    /\ UNCHANGED <<orderly, closing, search, clicks>>

-----------------------------------------------------------------------------
(* The process and the timer *)

LateStart ==
    /\ proc.state = "Starting"
    /\ proc' = [proc EXCEPT !.state = "Running"]
    /\ UNCHANGED <<orderly, rows, current, next, flags, closing, search, posted, clicks>>

\* errorOccurred, when no row waits for the process.
LateStartFails ==
    /\ proc.state = "Starting"
    /\ proc' = NotRunning /\ start_error' = TRUE
    /\ UNCHANGED <<orderly, rows, current, next, cancel_requested, timed_out, busy,
                   timer, closing, search, posted, clicks>>

\* consumeOutput and consumeError: the output is larger than the GUI takes.
OutputOverCap ==
    /\ proc.state = "Running" /\ current # 0
    /\ start_error' = TRUE /\ proc' = [proc EXCEPT !.killed = TRUE]
    /\ UNCHANGED <<orderly, rows, current, next, cancel_requested, timed_out, busy,
                   timer, closing, search, posted, clicks>>

processTimedOut_NotKilled ==
    /\ timer /\ timer' = FALSE
    /\ UNCHANGED <<orderly, rows, current, next, cancel_requested, timed_out, start_error,
                   proc, busy, closing, search, posted, clicks>>

processTimedOut ==
    /\ timer /\ timer' = FALSE
    /\ IF current = 0 \/ proc.state = "NotRunning"
       THEN UNCHANGED <<timed_out, start_error, proc>>
       ELSE timed_out' = TRUE /\ start_error' = TRUE /\ proc' = [proc EXCEPT !.killed = TRUE]
    /\ UNCHANGED <<orderly, rows, current, next, cancel_requested, busy, closing,
                   search, posted, clicks>>

RowResult_CancelIgnored(crash, good) ==
    IF timed_out \/ start_error \/ crash \/ ~good THEN "Failed" ELSE "Done"

\* good: the exit code, the JSON and the writing of the report are in order.
RowResult(crash, good) ==
    IF cancel_requested \/ rows[current].state = "Cancelled" THEN "Cancelled"
    ELSE IF timed_out \/ start_error \/ crash \/ ~good THEN "Failed" ELSE "Done"

\* The row has the result of the process, read as the search text asks for now.
Decided(row, s) ==
    IF s = "Cancelled" THEN [path |-> row.path, state |-> s, from |-> None, made |-> FALSE, read |-> FALSE]
    ELSE [path |-> row.path, state |-> s, from |-> proc.input, made |-> proc.made, read |-> search]

ProcessEnds_ClosingIgnored(crash, good) ==
    /\ proc.state = "Running"
    /\ proc' = NotRunning
    /\ LET post == IF crash /\ current # 0 THEN Append(posted, "fallback") ELSE posted
           s == RowResult(crash, good)
       IN  IF current = 0 THEN rows' = rows /\ current' = 0 /\ timer' = timer /\ posted' = post
           ELSE /\ current' = 0 /\ timer' = FALSE
                /\ posted' = Append(post, "startNext")
                /\ rows' = [rows EXCEPT ![current] = Decided(rows[current], s)]
    /\ start_error' = (start_error \/ crash)
    /\ UNCHANGED <<orderly, next, cancel_requested, timed_out, busy, closing, search, clicks>>

\* The process ends; errorOccurred (for a crash) and processFinished run in a
\* row.  A process that was killed may have ended by itself just before.
ProcessEnds(crash, good) ==
    /\ proc.state = "Running"
    /\ proc' = NotRunning
    /\ LET post == IF crash /\ current # 0 THEN Append(posted, "fallback") ELSE posted
           s == RowResult(crash, good)
       IN  IF current = 0 THEN rows' = rows /\ current' = 0 /\ timer' = timer /\ posted' = post
           ELSE /\ current' = 0 /\ timer' = FALSE
                /\ IF closing THEN rows' = rows /\ posted' = post
                   ELSE /\ posted' = Append(post, "startNext")
                        /\ rows' = [rows EXCEPT ![current] = Decided(rows[current], s)]
    /\ start_error' = (start_error \/ crash)
    /\ UNCHANGED <<orderly, next, cancel_requested, timed_out, busy, closing, search, clicks>>

-----------------------------------------------------------------------------
(* The user *)

UserActs ==
    /\ ~closing /\ clicks < MaxClicks /\ clicks' = clicks + 1
    /\ orderly => posted = <<>>
    /\ UNCHANGED orderly

\* dropEvent, addFiles and addDirectory; a path that is there is not added.
AddPath(p) ==
    /\ UserActs
    /\ p \notin {rows[i].path : i \in DOMAIN rows}
    /\ startPending(Append(rows, Row(p)), posted)
    /\ UNCHANGED <<closing, search>>

ClearQueue_WhileRunning ==
    /\ UserActs /\ rows # <<>>
    /\ rows' = <<>>
    /\ UNCHANGED <<current, next, flags, closing, search, proc, posted>>

ClearQueue ==
    /\ UserActs /\ current = 0 /\ rows # <<>>
    /\ rows' = <<>>
    /\ UNCHANGED <<current, next, flags, closing, search, proc, posted>>

\* The start button analyses every row again.
startAnalysis ==
    /\ UserActs /\ ~busy /\ current = 0 /\ rows # <<>>
    /\ startNext([i \in DOMAIN rows |-> Row(rows[i].path)], 1, FALSE, TRUE, posted)
    /\ UNCHANGED <<closing, search>>

cancelAnalysis ==
    /\ UserActs /\ busy /\ current # 0
    /\ LET cancelled == [i \in DOMAIN rows |->
              IF rows[i].state = "Queued" \/ (i = current /\ proc.state # "NotRunning")
              THEN [rows[i] EXCEPT !.state = "Cancelled"] ELSE rows[i]]
       IN  IF proc.state # "NotRunning"
           THEN /\ rows' = cancelled /\ proc' = [proc EXCEPT !.killed = TRUE]
                /\ UNCHANGED <<current, timer, posted>>
           ELSE /\ rows' = SetState(cancelled, current, "Cancelled") /\ proc' = proc
                /\ current' = 0 /\ timer' = FALSE /\ posted' = Append(posted, "startNext")
    /\ cancel_requested' = TRUE
    /\ UNCHANGED <<next, timed_out, start_error, busy, closing, search>>

EditSearch ==
    /\ UserActs /\ (orderly => current = 0)
    /\ search' = ~search
    /\ UNCHANGED <<rows, current, next, flags, closing, proc, posted>>

\* closeEvent; the process is killed and has 1.5 seconds to end.
Close ==
    /\ UserActs /\ closing' = TRUE /\ timer' = FALSE
    /\ IF proc.state = "NotRunning" THEN UNCHANGED <<current, start_error, proc, posted>>
       ELSE \/ /\ proc' = [proc EXCEPT !.killed = TRUE]
               /\ UNCHANGED <<current, start_error, posted>>
            \/ \E crash \in BOOLEAN :
                  /\ proc' = NotRunning /\ current' = 0
                  /\ start_error' = (start_error \/ crash)
                  /\ posted' = IF crash /\ current # 0 THEN Append(posted, "fallback") ELSE posted
    /\ UNCHANGED <<rows, next, cancel_requested, timed_out, busy, search>>

User ==
    \/ \E p \in Paths : AddPath(p)
    \/ ClearQueue
    \/ startAnalysis
    \/ cancelAnalysis
    \/ EditSearch
    \/ Close

Loop ==
    \/ RunPosted
    \/ LateStart
    \/ LateStartFails
    \/ processTimedOut
    \/ OutputOverCap
    \/ \E crash, good \in BOOLEAN : ProcessEnds(crash, good)

Next ==
    \/ User
    \/ Loop

Spec == Init /\ [][Next]_vars

\* The event loop runs what was posted, the timer fires, a process comes out of
\* fork, and a killed one dies.  A process that is left alone may run for ever.
FairSpec == Spec /\ WF_vars(RunPosted) /\ WF_vars(processTimedOut)
                 /\ WF_vars(LateStart \/ LateStartFails)
                 /\ WF_vars(proc.killed /\ \E crash, good \in BOOLEAN : ProcessEnds(crash, good))

-----------------------------------------------------------------------------
(* Properties *)

\* docs/GUI.md: "A timeout, process failure, malformed JSON, or report write
\* failure stays attached to that queue row": what decides a row is the end
\* of the process that was started for it.
RowsOwnTheirResults ==
    \A i \in DOMAIN rows : rows[i].from # None => rows[i].from = rows[i].path

\* Rows own their results, read the way they were asked for (processFinished
\* looks at the search text again), as long as nothing comes between a posted
\* startNext and its run, the CLI starts in time and the search text stays.
OwnResultsWhenOrderly ==
    orderly => RowsOwnTheirResults /\ \A i \in DOMAIN rows : rows[i].made = rows[i].read

\* While the queue is at work a row that is done, failed or cancelled stays as
\* it is, whichever handlers overlap: a cancelled row is not revived by a
\* process that ended before the kill, and completed reports are not discarded.
FinishedRowsAreFinal ==
    [][busy /\ rows' # <<>> =>
          \A i \in DOMAIN rows : rows[i].state \in Terminal => rows'[i] = rows[i]]_vars

\* The posted calls that may start an analysis.
Starters(calls) == {i \in DOMAIN calls : calls[i] # "fallback"}

Begins == current' \notin {0, current}

\* A closed window winds down, whichever handlers overlap.  What runs when it is
\* closed is killed.  Calls that were posted before still run afterwards, and
\* may start an analysis that nobody sees; but each uses itself up, and neither
\* a failed start nor the end of an analysis adds to them: no more analyses are
\* started than calls waited when the window was closed.
ClosedWindowWindsDown ==
    [][/\ ~closing /\ closing' => proc'.state = "NotRunning" \/ proc'.killed
       /\ closing => Cardinality(Starters(posted')) + (IF Begins THEN 1 ELSE 0)
                        <= Cardinality(Starters(posted))]_vars

\* Once the user leaves it alone the queue comes to rest, with every row
\* decided unless the queue was cancelled or closed, even when a CLI hangs or
\* cannot be started.
ComesToRest ==
    orderly => <>[](/\ posted = <<>> /\ current = 0
                    /\ \/ closing \/ cancel_requested
                       \/ \A i \in DOMAIN rows : rows[i].state \in Terminal)

=============================================================================
