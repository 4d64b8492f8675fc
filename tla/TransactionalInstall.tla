------------------------ MODULE TransactionalInstall ------------------------
(***************************************************************************)
(* The replacement of an analysed executable by its validated              *)
(* reconstruction (`--run --apply`), on Linux (linux_install_validated_elf *)
(* and its caller) and on Windows (the pre-run copy of run_target and      *)
(* transactional_install_from_prerun).  Every file-system call is one step *)
(* that may fail, the analyser may be killed between any two of them, the  *)
(* analysed program may rewrite its own file while it runs, and somebody   *)
(* else may write to one of the files during the replacement.              *)
(***************************************************************************)
EXTENDS Integers

CONSTANTS
    Meddling     \* whether an outsider may write to the files

ASSUME MeddlingAssumption == Meddling \in BOOLEAN

None == "none"

Contents == {"Original", "Rewritten", "New", "Partial", "Foreign"}

Paths == {"target", "candidate", "bak", "prerun"}

VARIABLES
    platform,
    pc,
    fs,                 \* content of each path
    orig, nw,           \* the snapshots' hashes
    mv,                 \* a rename with a copy as fallback, in progress
    attempted,          \* rollback_attempted
    candidate_restored, \* rollback_candidate_restored
    error, performed,
    gates,              \* checks that succeeded on the way
    meddled

vars == <<platform, pc, fs, orig, nw, mv, attempted, candidate_restored,
          error, performed, gates, meddled>>

book == <<platform, orig, nw, attempted, candidate_restored, error, performed,
          gates, meddled>>

NoMove == [from |-> None, to |-> None, phase |-> "off"]

LinuxPCs == {"eligible", "snapshot", "backup", "check_backup", "install",
             "check_installed", "validate", "undo_backup", "undo_failed_install",
             "undo_candidate", "undo_target"}

WindowsPCs == {"prerun", "launch", "dump", "win_snapshot", "win_backup",
               "win_clear", "win_install", "win_copy_back"}

\* Rollbacks that use the rename with its fallback.
Undoing == {"undo_failed_install", "undo_candidate", "undo_target"}

\* Types, and: a rename with fallback is under way exactly in a rollback.
TypeOK ==
    /\ platform \in {"linux", "windows"}
    /\ pc \in {"run", "done", "crashed"} \cup LinuxPCs \cup WindowsPCs
    /\ fs \in [Paths -> Contents \cup {None}]
    /\ orig \in Contents \cup {None} /\ nw \in Contents \cup {None}
    /\ mv \in [from : Paths \cup {None}, to : Paths \cup {None},
               phase : {"off", "rename", "copy", "remove", "ok", "failed"}]
    /\ attempted \in BOOLEAN /\ candidate_restored \in BOOLEAN
    /\ error \in BOOLEAN /\ performed \in BOOLEAN
    /\ gates \subseteq {"backup hash", "installed hash", "post-install entry"}
    /\ meddled \in BOOLEAN
    /\ mv.phase # "off" <=> pc \in Undoing \/ (pc = "crashed" /\ mv # NoMove)

\* The dump appears in the artifact directory during the run; where it is
\* written plays no part, so it is there from the start.
Init ==
    /\ platform \in {"linux", "windows"}
    /\ pc = IF platform = "linux" THEN "run" ELSE "prerun"
    /\ fs = [p \in Paths |-> CASE p = "target" -> "Original"
                               [] p = "candidate" -> "New"
                               [] OTHER -> None]
    /\ orig = None /\ nw = None /\ mv = NoMove
    /\ attempted = FALSE /\ candidate_restored = TRUE
    /\ error = FALSE /\ performed = FALSE
    /\ gates = {} /\ meddled = FALSE

-----------------------------------------------------------------------------
(* File-system calls.  The mutants, named <definition>_<fault>, are what a    *)
(* slip in the code would make of the definition after them; nothing uses    *)
(* them.                                                                     *)

Renamed(from, to) == [fs EXCEPT ![to] = fs[from], ![from] = None]

Goto(l) == pc' = l

\* The operation is over; e says whether it reports an error.
Return(e) == pc' = "done" /\ error' = e

-----------------------------------------------------------------------------
(* A rename that falls back to copy_file and remove.  The error code that    *)
(* the caller looks at afterwards is clear only if the rename succeeded, or  *)
(* the copy and then the removal of the source did.                          *)

StartMove_Skipped(from, to) == mv' = NoMove

StartMove(from, to) == mv' = [from |-> from, to |-> to, phase |-> "rename"]

MoveRename ==
    /\ mv.phase = "rename"
    /\ \/ /\ fs[mv.from] # None
          /\ fs' = Renamed(mv.from, mv.to)
          /\ mv' = [mv EXCEPT !.phase = "ok"]
       \/ fs' = fs /\ mv' = [mv EXCEPT !.phase = "copy"]
    /\ UNCHANGED <<pc, book>>

MoveCopy_ErrorIgnored ==
    /\ mv.phase = "copy"
    /\ fs' \in {fs, [fs EXCEPT ![mv.to] = "Partial"], [fs EXCEPT ![mv.to] = fs[mv.from]]}
    /\ mv' = [mv EXCEPT !.phase = "remove"]
    /\ UNCHANGED <<pc, book>>

MoveCopy ==
    /\ mv.phase = "copy"
    /\ \/ /\ fs[mv.from] # None
          /\ fs' = [fs EXCEPT ![mv.to] = fs[mv.from]]
          /\ mv' = [mv EXCEPT !.phase = "remove"]
       \/ /\ fs[mv.from] # None
          /\ fs' = [fs EXCEPT ![mv.to] = "Partial"]
          /\ mv' = [mv EXCEPT !.phase = "failed"]
       \/ fs' = fs /\ mv' = [mv EXCEPT !.phase = "failed"]
    /\ UNCHANGED <<pc, book>>

MoveRemove ==
    /\ mv.phase = "remove"
    /\ \/ /\ fs' = [fs EXCEPT ![mv.from] = None]
          /\ mv' = [mv EXCEPT !.phase = "ok"]
       \/ fs' = fs /\ mv' = [mv EXCEPT !.phase = "failed"]
    /\ UNCHANGED <<pc, book>>

MoveStep == MoveRename \/ MoveCopy \/ MoveRemove

MoveDone == mv.phase \in {"ok", "failed"}
-----------------------------------------------------------------------------
(* The run *)

\* The analysed program may replace or delete its own file.  On Windows a run
\* without a valid dump of the root image ends with the removal of the pre-run
\* copy, so it goes through "dump" as well.
RunTarget ==
    /\ pc = "run"
    /\ \E c \in {fs["target"], "Rewritten", None} :
          fs' = [fs EXCEPT !["target"] = c]
    /\ Goto(IF platform = "linux" THEN "eligible" ELSE "dump")
    /\ UNCHANGED <<book, mv>>

RunFails ==
    /\ pc = "run" /\ platform = "linux"
    /\ Return(TRUE)
    /\ UNCHANGED <<platform, fs, orig, nw, mv, attempted, candidate_restored,
                   performed, gates, meddled>>

-----------------------------------------------------------------------------
(* Linux *)

\* Exactly one artifact must have passed independent entry validation; with
\* none there is nothing to do and with several the choice is withheld.
Eligible(validated_count) ==
    /\ pc = "eligible"
    /\ IF validated_count = 1
       THEN Goto("snapshot") /\ UNCHANGED error
       ELSE Return(FALSE)
    /\ UNCHANGED <<platform, fs, orig, nw, mv, attempted, candidate_restored,
                   performed, gates, meddled>>

\* SOURCE_MISSING and CANDIDATE_ELF_INVALID are states of the artifact, not
\* errors of the run.
Snapshot(elf_valid) ==
    /\ pc = "snapshot"
    /\ orig' = fs["target"] /\ nw' = fs["candidate"]
    /\ IF orig' # None /\ nw' # None /\ elf_valid
       THEN Goto("backup") /\ UNCHANGED error
       ELSE Return(FALSE)
    /\ UNCHANGED <<platform, fs, mv, attempted, candidate_restored, performed,
                   gates, meddled>>

Backup ==
    /\ pc = "backup"
    /\ \/ /\ fs["target"] # None
          /\ fs' = Renamed("target", "bak")
          /\ Goto("check_backup") /\ UNCHANGED error
       \/ fs' = fs /\ Return(FALSE)
    /\ UNCHANGED <<platform, orig, nw, mv, attempted, candidate_restored,
                   performed, gates, meddled>>

CheckBackup ==
    /\ pc = "check_backup"
    /\ IF fs["bak"] = orig
       THEN /\ Goto("install")
            /\ gates' = gates \cup {"backup hash"} /\ UNCHANGED attempted
       ELSE Goto("undo_backup") /\ attempted' = TRUE /\ UNCHANGED gates
    /\ UNCHANGED <<platform, fs, orig, nw, mv, candidate_restored, error,
                   performed, meddled>>

\* BACKUP_HASH_MISMATCH: a plain rename back.  The restored hash is compared
\* in the same step; without a match the caller reports an error.
UndoBackup ==
    /\ pc = "undo_backup"
    /\ \/ fs["bak"] # None /\ fs' = Renamed("bak", "target") /\ Return(fs["bak"] # orig)
       \/ fs' = fs /\ Return(TRUE)
    /\ UNCHANGED <<platform, orig, nw, mv, attempted, candidate_restored,
                   performed, gates, meddled>>

Install ==
    /\ pc = "install"
    /\ \/ /\ fs["candidate"] # None
          /\ fs' = Renamed("candidate", "target")
          /\ Goto("check_installed") /\ UNCHANGED <<mv, attempted>>
       \/ /\ fs' = fs /\ attempted' = TRUE
          /\ Goto("undo_failed_install") /\ StartMove("bak", "target")
    /\ UNCHANGED <<platform, orig, nw, candidate_restored, error, performed,
                   gates, meddled>>

Restored_HashUnchecked == mv.phase = "ok"

Restored == mv.phase = "ok" /\ fs["target"] = orig

\* INSTALL_RENAME_FAILED
UndoFailedInstall ==
    /\ pc = "undo_failed_install" /\ MoveDone
    /\ mv' = NoMove
    /\ Return(~Restored)
    /\ UNCHANGED <<platform, fs, orig, nw, attempted, candidate_restored,
                   performed, gates, meddled>>

StartUndo == attempted' = TRUE /\ Goto("undo_candidate") /\ StartMove("target", "candidate")

CheckInstalled ==
    /\ pc = "check_installed"
    /\ IF fs["target"] = nw
       THEN /\ Goto("validate")
            /\ gates' = gates \cup {"installed hash"} /\ UNCHANGED <<attempted, mv>>
       ELSE StartUndo /\ UNCHANGED gates
    /\ UNCHANGED <<platform, fs, orig, nw, candidate_restored, error,
                   performed, meddled>>

\* linux_validate_declared_entry on the installed target: the child reaches
\* its declared entry, or it does not (timeouts, signals, early exits).
ValidateInstalled(entry_ok) ==
    /\ pc = "validate"
    /\ IF entry_ok
       THEN /\ performed' = TRUE /\ Return(FALSE)
            /\ gates' = gates \cup {"post-install entry"}
            /\ UNCHANGED <<attempted, mv>>
       ELSE StartUndo /\ UNCHANGED <<performed, error, gates>>
    /\ UNCHANGED <<platform, fs, orig, nw, candidate_restored, meddled>>

CandidateBack_Assumed == TRUE

CandidateBack == mv.phase = "ok" /\ fs["candidate"] = nw

\* The candidate goes back to the artifact directory ...
UndoCandidate ==
    /\ pc = "undo_candidate" /\ MoveDone
    /\ candidate_restored' = CandidateBack
    /\ Goto("undo_target") /\ StartMove("bak", "target")
    /\ UNCHANGED <<platform, fs, orig, nw, attempted, error, performed, gates,
                   meddled>>

\* ... and the original to the target.
UndoTarget ==
    /\ pc = "undo_target" /\ MoveDone
    /\ mv' = NoMove
    /\ Return(~Restored \/ ~candidate_restored)
    /\ UNCHANGED <<platform, fs, orig, nw, attempted, candidate_restored,
                   performed, gates, meddled>>

LinuxStep ==
    \/ \E n \in 0 .. 2 : Eligible(n)
    \/ \E b \in BOOLEAN : Snapshot(b) \/ ValidateInstalled(b)
    \/ Backup
    \/ CheckBackup
    \/ UndoBackup
    \/ Install
    \/ UndoFailedInstall
    \/ CheckInstalled
    \/ UndoCandidate
    \/ UndoTarget

-----------------------------------------------------------------------------
(* Windows *)

\* With --apply the input is copied aside before it runs.
CopyPrerun ==
    /\ pc = "prerun"
    /\ \/ /\ fs' = [fs EXCEPT !["prerun"] = fs["target"]]
          /\ Goto("launch") /\ UNCHANGED error
       \/ \E c \in {None, "Partial"} :
             fs' = [fs EXCEPT !["prerun"] = c] /\ Return(TRUE)
    /\ UNCHANGED <<platform, orig, nw, mv, attempted, candidate_restored,
                   performed, gates, meddled>>

\* CreatePipe fails (the copy stays), CreateProcessW fails (it is removed, or
\* not), or the program runs.
Launch ==
    /\ pc = "launch"
    /\ \/ Goto("run") /\ UNCHANGED <<fs, error>>
       \/ fs' = fs /\ Return(TRUE)
       \/ fs' = [fs EXCEPT !["prerun"] = None] /\ Return(TRUE)
    /\ UNCHANGED <<platform, orig, nw, mv, attempted, candidate_restored,
                   performed, gates, meddled>>

Dump(root_dump_valid) ==
    /\ pc = "dump"
    /\ IF root_dump_valid
       THEN Goto("win_snapshot") /\ UNCHANGED <<fs, error>>
       ELSE /\ \/ fs' = [fs EXCEPT !["prerun"] = None]
               \/ fs' = fs
            /\ Return(FALSE)
    /\ UNCHANGED <<platform, orig, nw, mv, attempted, candidate_restored,
                   performed, gates, meddled>>

WinSnapshot(pe_valid) ==
    /\ pc = "win_snapshot"
    /\ orig' = fs["prerun"] /\ nw' = fs["candidate"]
    /\ IF orig' # None /\ nw' # None /\ pe_valid
       THEN Goto("win_backup") /\ UNCHANGED error
       ELSE Return(TRUE)
    /\ UNCHANGED <<platform, fs, mv, attempted, candidate_restored, performed,
                   gates, meddled>>

WinBackup ==
    /\ pc = "win_backup"
    /\ \/ /\ fs["prerun"] # None
          /\ fs' = Renamed("prerun", "bak")
          /\ Goto("win_clear") /\ UNCHANGED error
       \/ fs' = fs /\ Return(TRUE)
    /\ UNCHANGED <<platform, orig, nw, mv, attempted, candidate_restored,
                   performed, gates, meddled>>

\* A failure to remove the target is ignored: the rename replaces it.
WinClear ==
    /\ pc = "win_clear"
    /\ fs' \in {fs, [fs EXCEPT !["target"] = None]}
    /\ Goto("win_install")
    /\ UNCHANGED <<book, mv>>

WinInstall ==
    /\ pc = "win_install"
    /\ \/ /\ fs["candidate"] # None
          /\ fs' = Renamed("candidate", "target")
          /\ performed' = TRUE /\ Return(FALSE)
       \/ fs' = fs /\ Goto("win_copy_back") /\ UNCHANGED <<performed, error>>
    /\ UNCHANGED <<platform, orig, nw, mv, attempted, candidate_restored,
                   gates, meddled>>

\* The outcome of the copy is not looked at; the install error is reported.
WinCopyBack ==
    /\ pc = "win_copy_back"
    /\ \/ fs' = fs
       \/ /\ fs["bak"] # None
          /\ \E c \in {fs["bak"], "Partial"} : fs' = [fs EXCEPT !["target"] = c]
    /\ Return(TRUE)
    /\ UNCHANGED <<platform, orig, nw, mv, attempted, candidate_restored,
                   performed, gates, meddled>>

WindowsStep ==
    \/ CopyPrerun
    \/ Launch
    \/ \E b \in BOOLEAN : Dump(b) \/ WinSnapshot(b)
    \/ WinBackup
    \/ WinClear
    \/ WinInstall
    \/ WinCopyBack

-----------------------------------------------------------------------------

Over == pc \in {"done", "crashed"}

\* The analyser is killed, or the machine stops.
Crash ==
    /\ ~Over
    /\ Goto("crashed")
    /\ UNCHANGED <<book, fs, mv>>

\* Someone else writes to one of the files while the replacement is under way.
Meddle(p) ==
    /\ Meddling /\ ~meddled /\ ~Over /\ orig # None
    /\ fs' = [fs EXCEPT ![p] = "Foreign"]
    /\ meddled' = TRUE
    /\ UNCHANGED <<platform, pc, orig, nw, mv, attempted, candidate_restored,
                   error, performed, gates>>

Terminated == Over /\ UNCHANGED vars

Next ==
    \/ RunTarget
    \/ RunFails
    \/ LinuxStep
    \/ WindowsStep
    \/ ~Over /\ MoveStep
    \/ Crash
    \/ \E p \in Paths : Meddle(p)
    \/ Terminated

Spec == Init /\ [][Next]_vars

-----------------------------------------------------------------------------
(* Properties *)

\* The content the replacement must not lose is the one it took its snapshot
\* of: the target's on Linux, that of the pre-run copy on Windows.
OriginalAt ==
    IF orig = None THEN {"target"}
    ELSE {p \in {"target", "bak", "prerun"} : fs[p] = orig}

Verdict ==
    CASE pc = "crashed" -> "crashed"
      [] pc = "done" -> IF performed THEN "installed"
                        ELSE IF error THEN "failed" ELSE "withheld"
      [] OTHER -> "open"

Contract == INSTANCE ReplacementContract WITH
    Places <- {"target", "bak", "prerun"},
    where <- OriginalAt,
    installed <- (orig # None /\ fs["target"] = nw),
    disturbed <- meddled,
    verdict <- Verdict

\* Both replacements keep the promise of ReplacementContract: whatever call
\* fails and whenever the analyser dies, the original content is still at one
\* of its paths, and the verdict tells where.
ImplementsContract == Contract!CSpec

\* A Linux replacement that ends without an error and without a replacement
\* leaves no trace: target and candidate hold what they held, and no backup
\* lies about (linux_install_validated_elf reports every unclean rollback).
NoTraceWhenWithheld ==
    pc = "done" /\ ~error /\ ~performed /\ ~meddled /\ orig # None /\ nw # None
        => fs["target"] = orig /\ fs["candidate"] = nw /\ fs["bak"] = None

\* A verdict is what was seen, even when an outsider wrote to the files while
\* it was reached: a rollback that is reported as clean has the original at the
\* target, and a Linux replacement that is reported as performed passed both
\* hash gates and the entry validation (SECURITY.md names them; the Windows
\* replacement has no hash gates).
RestoreIsChecked ==
    /\ pc = "done" /\ attempted /\ ~error => fs["target"] = orig
    /\ platform = "linux" /\ performed => gates = {"backup hash", "installed hash", "post-install entry"}

\* The report says of an installed image: "pristine input preserved as
\* backup".  The input is what was given to the analyser.
PristineBackup ==
    pc = "done" /\ performed /\ ~meddled => fs["bak"] = "Original"

=============================================================================
