----------------------- MODULE DirectoryReportSpool -----------------------
(***************************************************************************)
(* The bounded report spool of a directory analysis                        *)
(* (include/prts/directory_report_spool.hpp) as analyze_directory_spooled  *)
(* drives it.  Every per-file report is rendered into a file of a private  *)
(* temporary directory.  At most PerReportBytes of one report are staged;  *)
(* reports that lose the inline budget stay on disk as a cache until the   *)
(* staging of a later report needs their room; once the final priorities   *)
(* are known the selection is made again from what is still cached.        *)
(*                                                                         *)
(* A report is named by its input, and inputs are the naturals in the      *)
(* order of spool_path_key.  The loops of the code (the chunks of a        *)
(* render, evictions, deferrals, selections) are one step per iteration,   *)
(* so every invariant below is also checked in the middle of them.         *)
(***************************************************************************)
EXTENDS Integers, FiniteSets

CONSTANTS
    Inputs,          \* the analysed files, ordered by spool_path_key
    Priorities,      \* values of directory_report_detail_priority
    Chunks,          \* sizes one write to the stream may have
    InlineBytes,     \* kDirectoryInlineReportBytes
    PerReportBytes,  \* kDirectoryPerReportBytes
    WordMax,         \* largest std::uint64_t
    RenderBound,     \* bound: a renderer stops once it has produced this much
    Interference     \* whether spool files may be deleted by someone else

\* The mutants, named <definition>_<fault>, are what a plausible slip in the
\* code would make of the definition that follows them; no specification uses
\* them.
HardBytes_NoStagingRoom == InlineBytes

HardBytes == InlineBytes + PerReportBytes

ASSUME SpoolAssumption ==
    /\ IsFiniteSet(Inputs) /\ Inputs \subseteq Nat
    /\ Priorities \subseteq Int
    /\ WordMax \in Nat
    /\ InlineBytes \in Nat
    /\ PerReportBytes \in Nat
    /\ HardBytes < WordMax
    /\ Chunks \subseteq 1 .. WordMax
    /\ RenderBound \in Nat
    /\ Interference \in BOOLEAN

Nobody == -1

ASSUME NobodyAssumption == Nobody \notin Inputs

Reasons == {"NONE", "PER_REPORT_BYTE_BUDGET", "DIRECTORY_INLINE_REPORT_BUDGET",
            "DIRECTORY_SPOOL_CACHE_BUDGET"}

\* Errors that mean "this code is wrong": its own messages call them
\* invariants, or, for the cache, the budget arithmetic rules them out.
InternalErrors == {"staging invariant", "cannot free staging space",
                   "selection invariant", "hard-budget invariant",
                   "selected without payload", "accounting invariant"}

\* Errors the environment can cause.
ExternalErrors == {"create", "remove", "write", "close", "priority missing",
                   "unavailable", "size changed", "unaccounted", "render"}

PCs == {"idle", "render", "reserve", "write", "enforce", "select",
        "validate", "revalidate", "output", "done", "failed", "closed"}

VARIABLES
    pc,                   \* where add, finalize_selection or main stands
    error,
    added,                \* inputs with a record in records_
    full,                 \* full_bytes of a record
    priority,             \* detail_priority of a record
    selected,             \* records with selected = true
    payload,              \* records whose payload path is not empty
    reason,               \* deferred_reason of a record
    cur, total, written, take,   \* the add in progress: its input, the
                          \* counters of CappedSpoolStreambuf, the bytes
                          \* xsputn is about to write
    selected_bytes, resident_bytes, peak_bytes, known_full_bytes,
    cache_evicted_count, reselected_count,
    priorities_finalized,
    pending,              \* records finalize_selection has not visited
    files, size,          \* the temporary directory: names and sizes
    shown                 \* reports copied to the output

recordVars == <<added, full, priority, selected, payload, reason>>
streamVars == <<cur, total, written, take>>
counterVars == <<selected_bytes, resident_bytes, peak_bytes, known_full_bytes,
                 cache_evicted_count, reselected_count>>
diskVars == <<files, size>>
vars == <<pc, error, recordVars, streamVars, counterVars,
          priorities_finalized, pending, diskVars, shown>>

-----------------------------------------------------------------------------
(* Arithmetic and order *)

SatAdd(a, b) == IF b > WordMax - a THEN WordMax ELSE a + b

MaxOf(a, b) == IF a >= b THEN a ELSE b

MinOf(a, b) == IF a <= b THEN a ELSE b

\* The byte cells that the files of S hold when file i has n[i] bytes.  A
\* total is the number of cells, which needs no recursion over S.
Cells(S, n) == {c \in S \X (1 .. WordMax) : c[2] <= n[c[1]]}

Bytes(S, n) == Cardinality(Cells(S, n))

record_better(a, b) ==
    \/ priority[a] > priority[b]
    \/ priority[a] = priority[b] /\ full[a] < full[b]
    \/ priority[a] = priority[b] /\ full[a] = full[b] /\ a < b

IsWorst(w, S) == w \in S /\ \A i \in S \ {w} : record_better(i, w)

IsBest_Unsorted(b, S) == b \in S

IsBest(b, S) == b \in S /\ \A i \in S \ {b} : record_better(b, i)

-----------------------------------------------------------------------------

TypeOK ==
    /\ pc \in PCs
    /\ error \in InternalErrors \cup ExternalErrors \cup {"none"}
    /\ added \subseteq Inputs /\ selected \subseteq Inputs
    /\ payload \subseteq Inputs /\ pending \subseteq Inputs
    /\ files \subseteq Inputs /\ shown \subseteq Inputs
    /\ full \in [Inputs -> 0 .. WordMax]
    /\ size \in [Inputs -> 0 .. WordMax]
    /\ priority \in [Inputs -> Int]
    /\ reason \in [Inputs -> Reasons]
    /\ cur \in Inputs \cup {Nobody}
    /\ total \in 0 .. WordMax /\ written \in 0 .. PerReportBytes
    /\ take \in 0 .. PerReportBytes
    /\ selected_bytes \in Int /\ resident_bytes \in Int
    /\ peak_bytes \in Nat /\ known_full_bytes \in 0 .. WordMax
    /\ cache_evicted_count \in Nat /\ reselected_count \in Nat
    /\ priorities_finalized \in BOOLEAN

Init ==
    /\ pc = "idle" /\ error = "none"
    /\ added = {} /\ selected = {} /\ payload = {}
    /\ full = [i \in Inputs |-> 0]
    /\ priority = [i \in Inputs |-> 0]
    /\ reason = [i \in Inputs |-> "NONE"]
    /\ cur = Nobody /\ total = 0 /\ written = 0 /\ take = 0
    /\ selected_bytes = 0 /\ resident_bytes = 0
    /\ peak_bytes = 0 /\ known_full_bytes = 0
    /\ cache_evicted_count = 0 /\ reselected_count = 0
    /\ priorities_finalized = FALSE
    /\ pending = {} /\ files = {} /\ shown = {}
    /\ size = [i \in Inputs |-> 0]

\* The operation returns false; main reports the error and exits, and the
\* records are not looked at again.
Fail(e) ==
    /\ pc' = "failed" /\ error' = e
    /\ UNCHANGED <<recordVars, streamVars, counterVars,
                   priorities_finalized, pending, diskVars, shown>>

Goto(l) == pc' = l /\ error' = error

remove_payload_Leaks(i) == i \in files /\ files' = files

\* Refuses a payload that is already gone.
remove_payload(i) == i \in files /\ files' = files \ {i}

-----------------------------------------------------------------------------
(* add: open the payload, render into it, close it, record it *)

\* The record of an input is added at most once: candidates are distinct.
AddOpen(i, p) ==
    /\ pc = "idle" /\ ~priorities_finalized
    /\ i \in Inputs \ added
    /\ cur' = i /\ total' = 0 /\ written' = 0 /\ take' = 0
    /\ priority' = [priority EXCEPT ![i] = p]
    /\ files' = files \cup {i} /\ size' = [size EXCEPT ![i] = 0]
    /\ Goto("render")
    /\ UNCHANGED <<added, full, selected, payload, reason, counterVars,
                   priorities_finalized, pending, shown>>

AddOpenFails == pc = "idle" /\ added # Inputs /\ Fail("create")

\* One write of the renderer to the stream: the whole chunk counts, only the
\* part that still fits under the cap is staged.
xsputn(n) ==
    /\ pc = "render" /\ total < RenderBound
    /\ total' = SatAdd(total, n)
    /\ IF written < PerReportBytes
       THEN take' = MinOf(PerReportBytes - written, n) /\ Goto("reserve")
       ELSE UNCHANGED <<take, pc, error>>
    /\ UNCHANGED <<recordVars, cur, written, counterVars,
                   priorities_finalized, pending, diskVars, shown>>

Staging == SatAdd(written, take)

Evictable == payload \ selected

NeedsRoom_AtBudget == resident_bytes >= HardBytes - Staging

NeedsRoom == resident_bytes > HardBytes - Staging

\* One iteration of the loop of reserve_staging.
ReserveEvict(w) ==
    /\ IsWorst(w, Evictable) /\ remove_payload(w)
    /\ resident_bytes' = resident_bytes - full[w]
    /\ payload' = payload \ {w}
    /\ reason' = [reason EXCEPT ![w] = "DIRECTORY_SPOOL_CACHE_BUDGET"]
    /\ cache_evicted_count' = cache_evicted_count + 1
    /\ UNCHANGED <<pc, error, added, full, priority, selected, streamVars,
                   selected_bytes, peak_bytes, known_full_bytes,
                   reselected_count, priorities_finalized, pending, size, shown>>

ReserveEvictFails_Retries(w) ==
    IsWorst(w, Evictable) /\ w \notin files /\ UNCHANGED vars

ReserveEvictFails(w) ==
    /\ IsWorst(w, Evictable) /\ w \notin files
    /\ Fail("remove")

ReserveGranted_PeakLater ==
    /\ Goto("write")
    /\ UNCHANGED <<recordVars, streamVars, counterVars, priorities_finalized,
                   pending, diskVars, shown>>

ReserveGranted ==
    /\ peak_bytes' = MaxOf(peak_bytes, resident_bytes + Staging)
    /\ Goto("write")
    /\ UNCHANGED <<recordVars, streamVars, selected_bytes, resident_bytes,
                   known_full_bytes, cache_evicted_count, reselected_count,
                   priorities_finalized, pending, diskVars, shown>>

\* reserve_staging, one iteration at a time.  The caller replaces the message
\* of a refusal by a general one; the model keeps the cause.
reserve_staging ==
    /\ pc = "reserve"
    /\ IF Staging > PerReportBytes THEN Fail("staging invariant")
       ELSE IF ~NeedsRoom THEN ReserveGranted
       ELSE IF Evictable = {} THEN Fail("cannot free staging space")
       ELSE \E w \in Evictable : ReserveEvict(w) \/ ReserveEvictFails(w)

\* out_.write of the granted bytes.  A file someone unlinked stays open: its
\* bytes no longer have a name.
StreamWrite ==
    /\ pc = "write"
    /\ written' = SatAdd(written, take) /\ take' = 0
    /\ size' = [size EXCEPT ![cur] = SatAdd(written, take)]
    /\ Goto("render")
    /\ UNCHANGED <<recordVars, cur, total, counterVars, priorities_finalized,
                   pending, files, shown>>

StreamWriteFails == pc = "write" /\ Fail("write")

AddCloseFails == pc = "render" /\ Fail("close")

StagedPeak == MaxOf(peak_bytes, SatAdd(resident_bytes, written))

\* The report did not fit: its payload goes away, its record stays.
AddOversize ==
    /\ total > PerReportBytes
    /\ remove_payload(cur)
    /\ peak_bytes' = StagedPeak
    /\ known_full_bytes' = SatAdd(known_full_bytes, total)
    /\ added' = added \cup {cur}
    /\ full' = [full EXCEPT ![cur] = total]
    /\ reason' = [reason EXCEPT ![cur] = "PER_REPORT_BYTE_BUDGET"]
    /\ cur' = Nobody /\ total' = 0 /\ written' = 0 /\ take' = 0
    /\ Goto("idle")
    /\ UNCHANGED <<priority, selected, payload, selected_bytes,
                   resident_bytes, cache_evicted_count, reselected_count,
                   priorities_finalized, pending, size, shown>>

AddOversizeFails ==
    /\ total > PerReportBytes /\ cur \notin files
    /\ Fail("remove")

AddSelected ==
    /\ total <= PerReportBytes
    /\ peak_bytes' = StagedPeak
    /\ known_full_bytes' = SatAdd(known_full_bytes, total)
    /\ resident_bytes' = resident_bytes + total
    /\ selected_bytes' = SatAdd(selected_bytes, total)
    /\ added' = added \cup {cur}
    /\ full' = [full EXCEPT ![cur] = total]
    /\ payload' = payload \cup {cur}
    /\ selected' = selected \cup {cur}
    /\ cur' = Nobody /\ total' = 0 /\ written' = 0 /\ take' = 0
    /\ Goto("enforce")
    /\ UNCHANGED <<priority, reason, cache_evicted_count, reselected_count,
                   priorities_finalized, pending, diskVars, shown>>

\* The renderer is through and the stream closes without an error.
AddClose ==
    /\ pc = "render"
    /\ IF StagedPeak > HardBytes THEN Fail("hard-budget invariant")
       ELSE AddOversize \/ AddOversizeFails \/ AddSelected

\* defer_record: the report is no longer selected but stays on disk.
defer_record_KeepsBytes(w) ==
    /\ selected' = selected \ {w}
    /\ reason' = [reason EXCEPT ![w] = "DIRECTORY_INLINE_REPORT_BUDGET"]
    /\ selected_bytes' = selected_bytes

defer_record(w) ==
    /\ selected' = selected \ {w}
    /\ reason' = [reason EXCEPT ![w] = "DIRECTORY_INLINE_REPORT_BUDGET"]
    /\ selected_bytes' = selected_bytes - full[w]

EnforceDefer(w) ==
    /\ IsWorst(w, selected)
    /\ defer_record(w)
    /\ UNCHANGED <<pc, error, added, full, priority, payload, streamVars,
                   resident_bytes, peak_bytes, known_full_bytes,
                   cache_evicted_count, reselected_count,
                   priorities_finalized, pending, diskVars, shown>>

EnforceDone ==
    /\ Goto("idle")
    /\ UNCHANGED <<recordVars, streamVars, counterVars, priorities_finalized,
                   pending, diskVars, shown>>

enforce_inline_budget ==
    /\ pc = "enforce"
    /\ IF selected_bytes <= InlineBytes THEN EnforceDone
       ELSE IF selected = {} THEN Fail("selection invariant")
       ELSE \E w \in selected : EnforceDefer(w)

-----------------------------------------------------------------------------
(* finalize_selection, validate and the rendering of main *)

FinalizeBegin(P) ==
    /\ pc = "idle"
    /\ priority' = [i \in Inputs |-> IF i \in added THEN P[i] ELSE priority[i]]
    /\ pending' = payload
    /\ selected_bytes' = 0 /\ reselected_count' = 0
    /\ Goto("select")
    /\ UNCHANGED <<added, full, selected, payload, reason, streamVars,
                   resident_bytes, peak_bytes, known_full_bytes,
                   cache_evicted_count, priorities_finalized, diskVars, shown>>

FinalizeMissing == pc = "idle" /\ added # {} /\ Fail("priority missing")

FitsInline(i) == full[i] <= InlineBytes - selected_bytes

FinalReason_Kept(i) ==
    IF FitsInline(i) THEN reason[i] ELSE "DIRECTORY_INLINE_REPORT_BUDGET"

FinalReason(i) ==
    IF FitsInline(i) THEN "NONE" ELSE "DIRECTORY_INLINE_REPORT_BUDGET"

\* The next record in the sorted order of the available ones.
SelectNext(b) ==
    /\ pc = "select" /\ IsBest(b, pending)
    /\ pending' = pending \ {b}
    /\ reason' = [reason EXCEPT ![b] = FinalReason(b)]
    /\ IF FitsInline(b)
       THEN /\ selected' = selected \cup {b}
            /\ selected_bytes' = selected_bytes + full[b]
            /\ reselected_count' =
                  reselected_count + (IF b \in selected THEN 0 ELSE 1)
       ELSE /\ selected' = selected \ {b}
            /\ UNCHANGED <<selected_bytes, reselected_count>>
    /\ UNCHANGED <<pc, error, added, full, priority, payload, streamVars,
                   resident_bytes, peak_bytes, known_full_bytes,
                   cache_evicted_count, priorities_finalized, diskVars, shown>>

SelectDone ==
    /\ pc = "select" /\ pending = {}
    /\ priorities_finalized' = TRUE
    /\ Goto("validate")
    /\ UNCHANGED <<recordVars, streamVars, counterVars, pending, diskVars, shown>>

AccountingAgrees ==
    LET on_disk == MinOf(WordMax, Bytes(payload, size))
        inline_bytes == Bytes(selected, size)
    IN  /\ on_disk = resident_bytes /\ inline_bytes = selected_bytes
        /\ inline_bytes <= InlineBytes
        /\ on_disk <= HardBytes /\ peak_bytes <= HardBytes

\* The first complaint of validate, if it has one.
ValidateError ==
    CASE ~(selected \subseteq payload) -> "selected without payload"
      [] ~(payload \subseteq files) -> "unavailable"
      [] \E i \in payload : size[i] # full[i] -> "size changed"
      [] Cardinality(files) # Cardinality(payload) -> "unaccounted"
      [] ~AccountingAgrees -> "accounting invariant"
      [] OTHER -> "none"

\* finalize_selection validates, and so does main after it has sorted the
\* records by the rank of their candidates.
Validate ==
    /\ pc \in {"validate", "revalidate"}
    /\ IF ValidateError = "none"
       THEN /\ Goto(IF pc = "validate" THEN "revalidate" ELSE "output")
            /\ UNCHANGED <<recordVars, streamVars, counterVars,
                           priorities_finalized, pending, diskVars, shown>>
       ELSE Fail(ValidateError)

\* main copies the selected payloads to the output one after the other.
OutputNext(i) ==
    /\ pc = "output" /\ i \in selected \ shown
    /\ IF i \in files
       THEN /\ shown' = shown \cup {i}
            /\ UNCHANGED <<pc, error, recordVars, streamVars, counterVars,
                           priorities_finalized, pending, diskVars>>
       ELSE Fail("render")

OutputDone ==
    /\ pc = "output" /\ shown = selected
    /\ Goto("done")
    /\ UNCHANGED <<recordVars, streamVars, counterVars, priorities_finalized,
                   pending, diskVars, shown>>

\* ~DirectoryReportSpool
Destroy ==
    /\ pc \in {"done", "failed"}
    /\ files' = {}
    /\ Goto("closed")
    /\ UNCHANGED <<recordVars, streamVars, counterVars, priorities_finalized,
                   pending, size, shown>>

Closed == pc = "closed" /\ UNCHANGED vars

\* A cleaner of the temporary directory deletes a spool file.
Interfere(i) ==
    /\ Interference /\ pc # "closed"
    /\ i \in files
    /\ files' = files \ {i}
    /\ UNCHANGED <<pc, error, recordVars, streamVars, counterVars,
                   priorities_finalized, pending, size, shown>>

SelectStep == (\E b \in Inputs : SelectNext(b)) \/ SelectDone

OutputStep == (\E i \in Inputs : OutputNext(i)) \/ OutputDone

\* A step of the program.
Step ==
    \/ \E i \in Inputs, p \in Priorities : AddOpen(i, p)
    \/ AddOpenFails
    \/ \E n \in Chunks : xsputn(n)
    \/ reserve_staging
    \/ StreamWrite
    \/ StreamWriteFails
    \/ AddClose
    \/ AddCloseFails
    \/ enforce_inline_budget
    \/ \E P \in [added -> Priorities] : FinalizeBegin(P)
    \/ FinalizeMissing
    \/ SelectStep
    \/ Validate
    \/ OutputStep
    \/ Destroy
    \/ Closed

Next == Step \/ \E i \in Inputs : Interfere(i)

Spec == Init /\ [][Next]_vars

\* The program is one thread that nothing blocks, and its renderers produce
\* finite reports: while it has a step to take it takes one.
FairSpec == Spec /\ WF_vars(Step)

-----------------------------------------------------------------------------
(* Properties *)

\* The counters are the totals they stand for: resident_bytes_ counts every
\* cached payload and selected_bytes_ every selected report (of those visited,
\* while finalize_selection rebuilds it), so no subtraction wraps around.
Accounting ==
    /\ resident_bytes = Bytes(payload, full)
    /\ selected_bytes = Bytes(IF pc = "select" THEN selected \ pending
                                               ELSE selected, full)

\* The promise of the spool: at every moment, in the middle of a render or of
\* an eviction loop too, the temporary directory holds no more bytes than the
\* peak that rendering() will report, and the peak is within the hard budget
\* (reserve_staging evicts before a chunk is written, never after).
PeakIsHonest ==
    /\ Bytes(files, size) <= peak_bytes
    /\ peak_bytes <= HardBytes

\* The budget arithmetic is closed: the errors the code calls invariants, and
\* "cannot free staging space", are unreachable, because what is selected
\* never takes more than the inline budget, which leaves PerReportBytes.
NoInternalFailure == error \notin InternalErrors

\* validate and remove_payload never complain about a directory nobody else
\* touches: records_ and the temporary directory agree after any sequence of
\* additions, deferrals, evictions and oversize reports.
NoFalseAlarm ==
    ~Interference => error \notin {"remove", "unavailable", "size changed", "unaccounted"}

Finalized == pc \in {"validate", "revalidate", "output", "done"}

\* What finalize_selection promises: a cached report is deferred only when it
\* does not fit beside the selected reports that are better than it, so no
\* worse report ever takes the place of a better one that would have fitted.
GreedySelection ==
    Finalized => \A r \in payload \ selected :
        full[r] > InlineBytes - Bytes({s \in selected : record_better(s, r)}, full)

\* A report is lost from the cache only when the reports really exceed the
\* disk budget, and when all of them fit inline none is deferred, whatever
\* the order of additions and however the priorities moved.
NoNeedlessLoss ==
    /\ cache_evicted_count > 0 =>
           SatAdd(known_full_bytes, total) > HardBytes
    /\ Finalized /\ known_full_bytes <= InlineBytes =>
           selected = {i \in added : full[i] <= PerReportBytes}

\* The state and reason annotate_plan gives a report in the end say what
\* happened to its bytes, and the counters of rendering() add up.
ReasonsAreTrue ==
    Finalized =>
        /\ \A i \in added :
              /\ i \in selected <=> reason[i] = "NONE"
              /\ i \in payload \ selected <=> reason[i] = "DIRECTORY_INLINE_REPORT_BUDGET"
              /\ full[i] > PerReportBytes <=> reason[i] = "PER_REPORT_BYTE_BUDGET"
        /\ cache_evicted_count =
              Cardinality({i \in added : reason[i] = "DIRECTORY_SPOOL_CACHE_BUDGET"})
        /\ selected_bytes <= known_full_bytes

\* Whatever fails on the way, the analysis comes to its end and the temporary
\* directory is gone: no loop of the spool runs for ever.
TemporaryDirectoryRemoved == <>(pc = "closed" /\ files = {})

-----------------------------------------------------------------------------
(* The inductive invariant behind Accounting, PeakIsHonest, NoInternalFailure *)
(* and NoFalseAlarm; its proof is in DirectoryReportSpoolProofs.              *)

RecordsInv ==
    /\ selected \subseteq payload /\ pending \subseteq payload
    /\ pc # "select" => pending = {}
    /\ payload \subseteq added
    /\ \A i \in payload : full[i] <= PerReportBytes /\ size[i] = full[i]

\* The stream has staged what it was given, up to the cap.
StreamInv ==
    /\ cur \notin added
    /\ cur = Nobody => written = 0
    /\ cur # Nobody => size[cur] = written
    /\ pc \in {"render", "reserve", "write"} => cur # Nobody
    /\ pc \in {"idle", "enforce", "select", "validate", "revalidate", "output", "done"}
          => cur = Nobody
    /\ pc = "render" => written = MinOf(total, PerReportBytes)
    /\ pc \in {"reserve", "write"} => written + take = MinOf(total, PerReportBytes)

DiskInv ==
    /\ files \subseteq payload \cup {cur}
    /\ ~Interference /\ pc # "closed" =>
           payload \subseteq files /\ (cur # Nobody => cur \in files)

BudgetInv ==
    /\ resident_bytes + written <= peak_bytes
    /\ pc = "write" => resident_bytes + written + take <= peak_bytes
    /\ peak_bytes <= HardBytes
    /\ pc # "enforce" => selected_bytes <= InlineBytes

IInv ==
    /\ TypeOK /\ Accounting /\ RecordsInv /\ StreamInv /\ DiskInv /\ BudgetInv
    /\ NoInternalFailure /\ NoFalseAlarm

=============================================================================
