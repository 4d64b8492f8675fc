--------------------- MODULE TransactionalInstallProofs ---------------------
(***************************************************************************)
(* The two replacements keep ReplacementContract, a clean rollback leaves  *)
(* no trace, and a verdict is what was seen.  The contract is not          *)
(* inductive: that the original is somewhere after each step needs to be   *)
(* known place by place, in the middle of a rename that turned into a copy *)
(* as well (KeptInv).                                                      *)
(***************************************************************************)
EXTENDS TransactionalInstall, TLAPS

\* Before the snapshots nobody has looked at the files.
Early == {"run", "eligible", "snapshot", "prerun", "launch", "dump", "win_snapshot"}

StartInv ==
    /\ pc \in Early => orig = None /\ nw = None /\ ~meddled /\ fs["bak"] = None
    /\ orig = None => pc \in Early \cup {"done", "crashed"} /\ ~meddled
    /\ pc \in {"prerun", "launch", "dump"} \cup WindowsPCs => platform = "windows"

\* Which rename is under way.
PathInv ==
    /\ pc \in {"undo_failed_install", "undo_target"} => mv.from = "bak" /\ mv.to = "target"
    /\ pc = "undo_candidate" => mv.from = "target" /\ mv.to = "candidate"

\* A rollback is attempted only on Linux's way back, and a replacement is
\* performed at the very end.
DoneInv ==
    /\ attempted => pc \in Undoing \cup {"undo_backup", "done", "crashed"}
    /\ performed => pc = "done" /\ orig # None

GateInv ==
    /\ pc \in {"prerun", "launch", "run", "eligible", "snapshot", "backup", "check_backup"} => gates = {}
    /\ pc \in {"install", "check_installed"} => gates = {"backup hash"}
    /\ pc = "validate" => gates = {"backup hash", "installed hash"}

\* The backup is on its way back to the target.
Returning ==
    /\ mv.phase # "ok" => fs["bak"] = orig
    /\ mv.phase \in {"remove", "ok"} => fs["target"] = orig
    /\ mv.phase = "ok" => fs["bak"] = None

\* Where the original and the candidate are, as long as nobody else writes.
KeptInv ==
    ~meddled /\ orig # None =>
        /\ pc = "backup" => fs["target"] = orig /\ fs["candidate"] = nw /\ fs["bak"] = None
        /\ pc \in {"check_backup", "install"} => fs["bak"] = orig /\ fs["candidate"] = nw
        /\ pc # "undo_backup"
        /\ pc \in {"check_installed", "validate"} => fs["bak"] = orig /\ fs["target"] = nw
        /\ pc = "undo_failed_install" => Returning /\ fs["candidate"] = nw
        /\ pc = "undo_candidate" => fs["bak"] = orig
        /\ pc = "undo_target" => Returning /\ (candidate_restored => fs["candidate"] = nw)
        /\ pc = "win_backup" => fs["prerun"] = orig
        /\ pc \in {"win_clear", "win_install", "win_copy_back"} => fs["bak"] = orig
        /\ pc \in {"win_backup", "win_clear", "win_install"} => fs["candidate"] = nw
        /\ orig \in {fs["target"], fs["bak"], fs["prerun"]}
        /\ pc = "done" /\ performed => fs["target"] = nw /\ fs["bak"] = orig
        /\ pc = "done" /\ ~performed /\ ~error => fs["target"] = orig

FilesOK ==
    /\ platform \in {"linux", "windows"}
    /\ fs \in [Paths -> Contents \cup {None}]
    /\ orig \in Contents \cup {None} /\ nw \in Contents \cup {None}

MovesOK ==
    /\ pc \in {"run", "done", "crashed"} \cup LinuxPCs \cup WindowsPCs
    /\ mv \in [from : Paths \cup {None}, to : Paths \cup {None},
               phase : {"off", "rename", "copy", "remove", "ok", "failed"}]
    /\ mv.phase # "off" <=> pc \in Undoing \/ (pc = "crashed" /\ mv # NoMove)
    /\ mv.phase = "off" => mv = NoMove

Flags ==
    /\ attempted \in BOOLEAN /\ candidate_restored \in BOOLEAN
    /\ error \in BOOLEAN /\ performed \in BOOLEAN /\ meddled \in BOOLEAN
    /\ gates \subseteq {"backup hash", "installed hash", "post-install entry"}

IInv == FilesOK /\ MovesOK /\ StartInv /\ PathInv /\ DoneInv /\ GateInv /\ KeptInv

-----------------------------------------------------------------------------
(* The steps with a free choice, by their outcomes.                        *)

EligibleEnds ==
    /\ pc = "eligible"
    /\ (pc' = "snapshot" /\ error' = error) \/ (pc' = "done" /\ error' = FALSE)
    /\ UNCHANGED <<platform, fs, orig, nw, mv, attempted, candidate_restored, performed,
                      gates, meddled>>

LEMMA EligibleOutcome ==
  ASSUME NEW n \in 0 .. 2, Eligible(n)
  PROVE  EligibleEnds
  BY Zenon DEF Eligible, EligibleEnds, Goto, Return

SnapshotEnds ==
    /\ pc = "snapshot" /\ orig' = fs["target"] /\ nw' = fs["candidate"]
    /\ (orig' # None /\ nw' # None /\ pc' = "backup" /\ error' = error) \/ (pc' = "done" /\ error' = FALSE)
    /\ UNCHANGED <<platform, fs, mv, attempted, candidate_restored, performed, gates,
                      meddled>>

LEMMA SnapshotOutcome ==
  ASSUME NEW b \in BOOLEAN, Snapshot(b)
  PROVE  SnapshotEnds
  BY Zenon DEF Snapshot, SnapshotEnds, Goto, Return

ValidateInstalledEnds ==
    /\ pc = "validate"
    /\ \/ performed' = TRUE /\ pc' = "done" /\ error' = FALSE /\ attempted' = attempted /\ mv' = mv
          /\ gates' = gates \cup {"post-install entry"}
       \/ StartUndo /\ UNCHANGED <<performed, error, gates>>
    /\ UNCHANGED <<platform, fs, orig, nw, candidate_restored, meddled>>

LEMMA ValidateInstalledOutcome ==
  ASSUME NEW b \in BOOLEAN, ValidateInstalled(b)
  PROVE  ValidateInstalledEnds
  BY Zenon DEF ValidateInstalled, ValidateInstalledEnds, Goto, Return

DumpEnds ==
    /\ pc = "dump"
    /\ \/ pc' = "win_snapshot" /\ fs' = fs /\ error' = error
       \/ (fs' = [fs EXCEPT !["prerun"] = None] \/ fs' = fs) /\ pc' = "done" /\ error' = FALSE
    /\ UNCHANGED <<platform, orig, nw, mv, attempted, candidate_restored, performed,
                      gates, meddled>>

LEMMA DumpOutcome ==
  ASSUME NEW b \in BOOLEAN, Dump(b)
  PROVE  DumpEnds
  BY Zenon DEF Dump, DumpEnds, Goto, Return

WinSnapshotEnds ==
    /\ pc = "win_snapshot" /\ orig' = fs["prerun"] /\ nw' = fs["candidate"]
    /\ (orig' # None /\ nw' # None /\ pc' = "win_backup" /\ error' = error) \/ (pc' = "done" /\ error' = TRUE)
    /\ UNCHANGED <<platform, fs, mv, attempted, candidate_restored, performed, gates,
                      meddled>>

LEMMA WinSnapshotOutcome ==
  ASSUME NEW b \in BOOLEAN, WinSnapshot(b)
  PROVE  WinSnapshotEnds
  BY Zenon DEF WinSnapshot, WinSnapshotEnds, Goto, Return

\* Every step of the specification is one of these.
LEMMA StepKinds ==
  ASSUME [Next]_vars
  PROVE  \/ RunTarget
         \/ RunFails
         \/ EligibleEnds
         \/ SnapshotEnds
         \/ Backup
         \/ CheckBackup
         \/ UndoBackup
         \/ Install
         \/ UndoFailedInstall
         \/ CheckInstalled
         \/ ValidateInstalledEnds
         \/ UndoCandidate
         \/ UndoTarget
         \/ CopyPrerun
         \/ Launch
         \/ DumpEnds
         \/ WinSnapshotEnds
         \/ WinBackup
         \/ WinClear
         \/ WinInstall
         \/ WinCopyBack
         \/ Crash
         \/ (~Over /\ MoveRename) \/ (~Over /\ MoveCopy) \/ (~Over /\ MoveRemove)
         \/ (\E p \in Paths : Meddle(p)) \/ UNCHANGED vars
  BY Zenon, EligibleOutcome, SnapshotOutcome, ValidateInstalledOutcome, DumpOutcome,
       WinSnapshotOutcome DEF Next, LinuxStep, WindowsStep, MoveStep, Terminated

-----------------------------------------------------------------------------

\* The snapshots and the files hold contents.
LEMMA FilesStep ==
  ASSUME FilesOK, MovesOK, PathInv, [Next]_vars
  PROVE  FilesOK'
<1> USE DEF book, Paths, Early, Undoing, LinuxPCs, WindowsPCs, FilesOK, Contents
<1>1. CASE RunTarget
  BY <1>1 DEF RunTarget, Goto
<1>2. CASE RunFails
  BY <1>2 DEF RunFails, Return
<1>3. CASE EligibleEnds
  BY <1>3 DEF EligibleEnds
<1>4. CASE SnapshotEnds
  BY <1>4 DEF SnapshotEnds
<1>5. CASE Backup
  BY <1>5 DEF Backup, Goto, Return, Renamed
<1>6. CASE CheckBackup
  BY <1>6 DEF CheckBackup, Goto
<1>7. CASE UndoBackup
  BY <1>7 DEF UndoBackup, Return, Renamed
<1>8. CASE Install
  BY <1>8 DEF Install, Goto, Renamed, StartMove
<1>9. CASE UndoFailedInstall
  BY <1>9 DEF UndoFailedInstall, Return, Restored, MoveDone, NoMove
<1>10. CASE CheckInstalled
  BY <1>10 DEF CheckInstalled, Goto, StartUndo, StartMove
<1>11. CASE ValidateInstalledEnds
  BY <1>11 DEF ValidateInstalledEnds, StartUndo, StartMove, Goto
<1>12. CASE UndoCandidate
  BY <1>12 DEF UndoCandidate, Goto, StartMove, CandidateBack, MoveDone
<1>13. CASE UndoTarget
  BY <1>13 DEF UndoTarget, Return, Restored, MoveDone, NoMove
<1>14. CASE CopyPrerun
  BY <1>14 DEF CopyPrerun, Goto, Return
<1>15. CASE Launch
  BY <1>15 DEF Launch, Goto, Return
<1>16. CASE DumpEnds
  BY <1>16 DEF DumpEnds
<1>17. CASE WinSnapshotEnds
  BY <1>17 DEF WinSnapshotEnds
<1>18. CASE WinBackup
  BY <1>18 DEF WinBackup, Goto, Return, Renamed
<1>19. CASE WinClear
  BY <1>19 DEF WinClear, Goto
<1>20. CASE WinInstall
  BY <1>20 DEF WinInstall, Goto, Return, Renamed
<1>21. CASE WinCopyBack
  BY <1>21 DEF WinCopyBack, Return
<1>22. CASE ~Over /\ MoveRename
  <2>1. mv.from \in Paths /\ mv.to \in Paths
    <3>1. pc \in Undoing
      BY <1>22 DEF MoveRename, Over, MovesOK, NoMove
    <3> QED
      BY <3>1 DEF PathInv
  <2> QED
    BY <1>22, <2>1 DEF MoveRename, Renamed
<1>23. CASE ~Over /\ MoveCopy
  <2>1. mv.from \in Paths /\ mv.to \in Paths
    <3>1. pc \in Undoing
      BY <1>23 DEF MoveCopy, Over, MovesOK, NoMove
    <3> QED
      BY <3>1 DEF PathInv
  <2> QED
    BY <1>23, <2>1 DEF MoveCopy, Renamed
<1>24. CASE ~Over /\ MoveRemove
  BY <1>24 DEF MoveRemove, Over
<1>25. CASE Crash
  BY <1>25 DEF Crash, Goto, Over
<1>26. CASE \E p \in Paths : Meddle(p)
  BY <1>26 DEF Meddle, Over
<1>27. CASE UNCHANGED vars
  BY <1>27 DEF vars
<1> QED
  BY <1>1, <1>2, <1>3, <1>4, <1>5, <1>6, <1>7, <1>8, <1>9, <1>10, <1>11, <1>12, <1>13,
       <1>14, <1>15, <1>16, <1>17, <1>18, <1>19, <1>20, <1>21, <1>22, <1>23, <1>24,
       <1>25, <1>26, <1>27, StepKinds

\* A rename with its fallback is under way exactly in a rollback.
LEMMA MovesStep ==
  ASSUME MovesOK, [Next]_vars
  PROVE  MovesOK'
<1> USE DEF book, Paths, Early, Undoing, LinuxPCs, WindowsPCs, MovesOK, NoMove
<1>1. CASE RunTarget
  BY <1>1 DEF RunTarget, Goto
<1>2. CASE RunFails
  BY <1>2 DEF RunFails, Return
<1>3. CASE EligibleEnds
  BY <1>3 DEF EligibleEnds
<1>4. CASE SnapshotEnds
  BY <1>4 DEF SnapshotEnds
<1>5. CASE Backup
  BY <1>5 DEF Backup, Goto, Return, Renamed
<1>6. CASE CheckBackup
  BY <1>6 DEF CheckBackup, Goto
<1>7. CASE UndoBackup
  BY <1>7 DEF UndoBackup, Return, Renamed
<1>8. CASE Install
  BY <1>8 DEF Install, Goto, Renamed, StartMove
<1>9. CASE UndoFailedInstall
  BY <1>9 DEF UndoFailedInstall, Return, Restored, MoveDone, NoMove
<1>10. CASE CheckInstalled
  <2>1. CASE StartUndo
    BY <1>10, <2>1 DEF CheckInstalled, StartUndo, StartMove, Goto
  <2>2. CASE ~StartUndo
    BY <1>10, <2>2 DEF CheckInstalled, Goto
  <2> QED
    BY <2>1, <2>2
<1>11. CASE ValidateInstalledEnds
  <2>1. CASE StartUndo
    BY <1>11, <2>1 DEF ValidateInstalledEnds, StartUndo, StartMove, Goto
  <2>2. CASE ~StartUndo
    BY <1>11, <2>2 DEF ValidateInstalledEnds, Goto
  <2> QED
    BY <2>1, <2>2
<1>12. CASE UndoCandidate
  BY <1>12 DEF UndoCandidate, Goto, StartMove, CandidateBack, MoveDone
<1>13. CASE UndoTarget
  BY <1>13 DEF UndoTarget, Return, Restored, MoveDone, NoMove
<1>14. CASE CopyPrerun
  BY <1>14 DEF CopyPrerun, Goto, Return
<1>15. CASE Launch
  BY <1>15 DEF Launch, Goto, Return
<1>16. CASE DumpEnds
  BY <1>16 DEF DumpEnds
<1>17. CASE WinSnapshotEnds
  BY <1>17 DEF WinSnapshotEnds
<1>18. CASE WinBackup
  BY <1>18 DEF WinBackup, Goto, Return, Renamed
<1>19. CASE WinClear
  BY <1>19 DEF WinClear, Goto
<1>20. CASE WinInstall
  BY <1>20 DEF WinInstall, Goto, Return, Renamed
<1>21. CASE WinCopyBack
  BY <1>21 DEF WinCopyBack, Return
<1>22. CASE ~Over /\ MoveRename
  BY <1>22 DEF MoveRename, Renamed, Over
<1>23. CASE ~Over /\ MoveCopy
  BY <1>23 DEF MoveCopy, Over
<1>24. CASE ~Over /\ MoveRemove
  BY <1>24 DEF MoveRemove, Over
<1>25. CASE Crash
  <2>1. CASE mv.phase = "off"
    BY <1>25, <2>1 DEF Crash, Goto, Over
  <2>2. CASE mv.phase # "off"
    BY <1>25, <2>2 DEF Crash, Goto, Over
  <2> QED
    BY <2>1, <2>2
<1>26. CASE \E p \in Paths : Meddle(p)
  BY <1>26 DEF Meddle, Over
<1>27. CASE UNCHANGED vars
  BY <1>27 DEF vars
<1> QED
  BY <1>1, <1>2, <1>3, <1>4, <1>5, <1>6, <1>7, <1>8, <1>9, <1>10, <1>11, <1>12, <1>13,
       <1>14, <1>15, <1>16, <1>17, <1>18, <1>19, <1>20, <1>21, <1>22, <1>23, <1>24,
       <1>25, <1>26, <1>27, StepKinds

\* Before the snapshots nothing was moved.
LEMMA StartStep ==
  ASSUME FilesOK, MovesOK, PathInv, StartInv, [Next]_vars
  PROVE  StartInv'
<1> USE DEF book, Paths, Early, Undoing, LinuxPCs, WindowsPCs, FilesOK, StartInv
<1>1. CASE RunTarget
  BY <1>1 DEF RunTarget, Goto
<1>2. CASE RunFails
  BY <1>2 DEF RunFails, Return
<1>3. CASE EligibleEnds
  BY <1>3 DEF EligibleEnds
<1>4. CASE SnapshotEnds
  BY <1>4 DEF SnapshotEnds
<1>5. CASE Backup
  BY <1>5 DEF Backup, Goto, Return, Renamed
<1>6. CASE CheckBackup
  BY <1>6 DEF CheckBackup, Goto
<1>7. CASE UndoBackup
  BY <1>7 DEF UndoBackup, Return, Renamed
<1>8. CASE Install
  BY <1>8 DEF Install, Goto, Renamed, StartMove
<1>9. CASE UndoFailedInstall
  BY <1>9 DEF UndoFailedInstall, Return, Restored, MoveDone, NoMove
<1>10. CASE CheckInstalled
  BY <1>10 DEF CheckInstalled, Goto, StartUndo, StartMove
<1>11. CASE ValidateInstalledEnds
  BY <1>11 DEF ValidateInstalledEnds, StartUndo, StartMove, Goto
<1>12. CASE UndoCandidate
  BY <1>12 DEF UndoCandidate, Goto, StartMove, CandidateBack, MoveDone
<1>13. CASE UndoTarget
  BY <1>13 DEF UndoTarget, Return, Restored, MoveDone, NoMove
<1>14. CASE CopyPrerun
  BY <1>14 DEF CopyPrerun, Goto, Return
<1>15. CASE Launch
  BY <1>15 DEF Launch, Goto, Return
<1>16. CASE DumpEnds
  BY <1>16 DEF DumpEnds
<1>17. CASE WinSnapshotEnds
  BY <1>17 DEF WinSnapshotEnds
<1>18. CASE WinBackup
  BY <1>18 DEF WinBackup, Goto, Return, Renamed
<1>19. CASE WinClear
  BY <1>19 DEF WinClear, Goto
<1>20. CASE WinInstall
  BY <1>20 DEF WinInstall, Goto, Return, Renamed
<1>21. CASE WinCopyBack
  BY <1>21 DEF WinCopyBack, Return
<1>22. CASE ~Over /\ MoveRename
  <2>1. pc \in Undoing
    BY <1>22 DEF MoveRename, Over, MovesOK, NoMove
  <2>2. UNCHANGED <<platform, pc, orig, nw, meddled>>
    BY <1>22 DEF MoveRename
  <2> QED
    BY <2>1, <2>2
<1>23. CASE ~Over /\ MoveCopy
  <2>1. pc \in Undoing
    BY <1>23 DEF MoveCopy, Over, MovesOK, NoMove
  <2>2. UNCHANGED <<platform, pc, orig, nw, meddled>>
    BY <1>23 DEF MoveCopy
  <2> QED
    BY <2>1, <2>2
<1>24. CASE ~Over /\ MoveRemove
  BY <1>24 DEF MoveRemove, Over
<1>25. CASE Crash
  BY <1>25 DEF Crash, Goto, Over
<1>26. CASE \E p \in Paths : Meddle(p)
  BY <1>26 DEF Meddle, Over
<1>27. CASE UNCHANGED vars
  BY <1>27 DEF vars
<1> QED
  BY <1>1, <1>2, <1>3, <1>4, <1>5, <1>6, <1>7, <1>8, <1>9, <1>10, <1>11, <1>12, <1>13,
       <1>14, <1>15, <1>16, <1>17, <1>18, <1>19, <1>20, <1>21, <1>22, <1>23, <1>24,
       <1>25, <1>26, <1>27, StepKinds

\* Each rollback moves its own files.
LEMMA PathStep ==
  ASSUME MovesOK, PathInv, [Next]_vars
  PROVE  PathInv'
<1> USE DEF book, Paths, Early, Undoing, LinuxPCs, WindowsPCs, MovesOK, PathInv
<1>1. CASE RunTarget
  BY <1>1 DEF RunTarget, Goto
<1>2. CASE RunFails
  BY <1>2 DEF RunFails, Return
<1>3. CASE EligibleEnds
  BY <1>3 DEF EligibleEnds
<1>4. CASE SnapshotEnds
  BY <1>4 DEF SnapshotEnds
<1>5. CASE Backup
  BY <1>5 DEF Backup, Goto, Return, Renamed
<1>6. CASE CheckBackup
  BY <1>6 DEF CheckBackup, Goto
<1>7. CASE UndoBackup
  BY <1>7 DEF UndoBackup, Return, Renamed
<1>8. CASE Install
  BY <1>8 DEF Install, Goto, Renamed, StartMove
<1>9. CASE UndoFailedInstall
  BY <1>9 DEF UndoFailedInstall, Return, Restored, MoveDone, NoMove
<1>10. CASE CheckInstalled
  <2>1. CASE StartUndo
    BY <1>10, <2>1 DEF CheckInstalled, StartUndo, StartMove, Goto
  <2>2. CASE ~StartUndo
    BY <1>10, <2>2 DEF CheckInstalled, Goto
  <2> QED
    BY <2>1, <2>2
<1>11. CASE ValidateInstalledEnds
  <2>1. CASE StartUndo
    BY <1>11, <2>1 DEF ValidateInstalledEnds, StartUndo, StartMove, Goto
  <2>2. CASE ~StartUndo
    BY <1>11, <2>2 DEF ValidateInstalledEnds, Goto
  <2> QED
    BY <2>1, <2>2
<1>12. CASE UndoCandidate
  BY <1>12 DEF UndoCandidate, Goto, StartMove, CandidateBack, MoveDone
<1>13. CASE UndoTarget
  BY <1>13 DEF UndoTarget, Return, Restored, MoveDone, NoMove
<1>14. CASE CopyPrerun
  BY <1>14 DEF CopyPrerun, Goto, Return
<1>15. CASE Launch
  BY <1>15 DEF Launch, Goto, Return
<1>16. CASE DumpEnds
  BY <1>16 DEF DumpEnds
<1>17. CASE WinSnapshotEnds
  BY <1>17 DEF WinSnapshotEnds
<1>18. CASE WinBackup
  BY <1>18 DEF WinBackup, Goto, Return, Renamed
<1>19. CASE WinClear
  BY <1>19 DEF WinClear, Goto
<1>20. CASE WinInstall
  BY <1>20 DEF WinInstall, Goto, Return, Renamed
<1>21. CASE WinCopyBack
  BY <1>21 DEF WinCopyBack, Return
<1>22. CASE ~Over /\ MoveRename
  BY <1>22 DEF MoveRename, Renamed, Over
<1>23. CASE ~Over /\ MoveCopy
  BY <1>23 DEF MoveCopy, Over
<1>24. CASE ~Over /\ MoveRemove
  BY <1>24 DEF MoveRemove, Over
<1>25. CASE Crash
  BY <1>25 DEF Crash, Goto, Over
<1>26. CASE \E p \in Paths : Meddle(p)
  BY <1>26 DEF Meddle, Over
<1>27. CASE UNCHANGED vars
  BY <1>27 DEF vars
<1> QED
  BY <1>1, <1>2, <1>3, <1>4, <1>5, <1>6, <1>7, <1>8, <1>9, <1>10, <1>11, <1>12, <1>13,
       <1>14, <1>15, <1>16, <1>17, <1>18, <1>19, <1>20, <1>21, <1>22, <1>23, <1>24,
       <1>25, <1>26, <1>27, StepKinds

\* Rollbacks and replacements happen where the code has them.
LEMMA DoneStep ==
  ASSUME StartInv, DoneInv, [Next]_vars
  PROVE  DoneInv'
<1> USE DEF book, Paths, Early, Undoing, LinuxPCs, WindowsPCs, StartInv, DoneInv
<1>1. CASE RunTarget
  BY <1>1 DEF RunTarget, Goto
<1>2. CASE RunFails
  BY <1>2 DEF RunFails, Return
<1>3. CASE EligibleEnds
  BY <1>3 DEF EligibleEnds
<1>4. CASE SnapshotEnds
  BY <1>4 DEF SnapshotEnds
<1>5. CASE Backup
  BY <1>5 DEF Backup, Goto, Return, Renamed
<1>6. CASE CheckBackup
  BY <1>6 DEF CheckBackup, Goto
<1>7. CASE UndoBackup
  BY <1>7 DEF UndoBackup, Return, Renamed
<1>8. CASE Install
  BY <1>8 DEF Install, Goto, Renamed, StartMove
<1>9. CASE UndoFailedInstall
  BY <1>9 DEF UndoFailedInstall, Return, Restored, MoveDone, NoMove
<1>10. CASE CheckInstalled
  BY <1>10 DEF CheckInstalled, Goto, StartUndo, StartMove
<1>11. CASE ValidateInstalledEnds
  <2>1. CASE StartUndo
    BY <1>11, <2>1 DEF ValidateInstalledEnds, StartUndo, StartMove, Goto
  <2>2. CASE ~StartUndo
    BY <1>11, <2>2 DEF ValidateInstalledEnds, Goto
  <2> QED
    BY <2>1, <2>2
<1>12. CASE UndoCandidate
  BY <1>12 DEF UndoCandidate, Goto, StartMove, CandidateBack, MoveDone
<1>13. CASE UndoTarget
  BY <1>13 DEF UndoTarget, Return, Restored, MoveDone, NoMove
<1>14. CASE CopyPrerun
  BY <1>14 DEF CopyPrerun, Goto, Return
<1>15. CASE Launch
  BY <1>15 DEF Launch, Goto, Return
<1>16. CASE DumpEnds
  BY <1>16 DEF DumpEnds
<1>17. CASE WinSnapshotEnds
  BY <1>17 DEF WinSnapshotEnds
<1>18. CASE WinBackup
  BY <1>18 DEF WinBackup, Goto, Return, Renamed
<1>19. CASE WinClear
  BY <1>19 DEF WinClear, Goto
<1>20. CASE WinInstall
  BY <1>20 DEF WinInstall, Goto, Return, Renamed
<1>21. CASE WinCopyBack
  BY <1>21 DEF WinCopyBack, Return
<1>22. CASE ~Over /\ MoveRename
  BY <1>22 DEF MoveRename, Renamed, Over
<1>23. CASE ~Over /\ MoveCopy
  BY <1>23 DEF MoveCopy, Over
<1>24. CASE ~Over /\ MoveRemove
  BY <1>24 DEF MoveRemove, Over
<1>25. CASE Crash
  BY <1>25 DEF Crash, Goto, Over
<1>26. CASE \E p \in Paths : Meddle(p)
  BY <1>26 DEF Meddle, Over
<1>27. CASE UNCHANGED vars
  BY <1>27 DEF vars
<1> QED
  BY <1>1, <1>2, <1>3, <1>4, <1>5, <1>6, <1>7, <1>8, <1>9, <1>10, <1>11, <1>12, <1>13,
       <1>14, <1>15, <1>16, <1>17, <1>18, <1>19, <1>20, <1>21, <1>22, <1>23, <1>24,
       <1>25, <1>26, <1>27, StepKinds

\* The gates are passed one after the other.
LEMMA GateStep ==
  ASSUME GateInv, [Next]_vars
  PROVE  GateInv'
<1> USE DEF book, Paths, Early, Undoing, LinuxPCs, WindowsPCs, GateInv
<1>1. CASE RunTarget
  BY <1>1 DEF RunTarget, Goto
<1>2. CASE RunFails
  BY <1>2 DEF RunFails, Return
<1>3. CASE EligibleEnds
  BY <1>3 DEF EligibleEnds
<1>4. CASE SnapshotEnds
  BY <1>4 DEF SnapshotEnds
<1>5. CASE Backup
  BY <1>5 DEF Backup, Goto, Return, Renamed
<1>6. CASE CheckBackup
  BY <1>6 DEF CheckBackup, Goto
<1>7. CASE UndoBackup
  BY <1>7 DEF UndoBackup, Return, Renamed
<1>8. CASE Install
  BY <1>8 DEF Install, Goto, Renamed, StartMove
<1>9. CASE UndoFailedInstall
  BY <1>9 DEF UndoFailedInstall, Return, Restored, MoveDone, NoMove
<1>10. CASE CheckInstalled
  BY <1>10 DEF CheckInstalled, Goto, StartUndo, StartMove
<1>11. CASE ValidateInstalledEnds
  BY <1>11 DEF ValidateInstalledEnds, StartUndo, StartMove, Goto
<1>12. CASE UndoCandidate
  BY <1>12 DEF UndoCandidate, Goto, StartMove, CandidateBack, MoveDone
<1>13. CASE UndoTarget
  BY <1>13 DEF UndoTarget, Return, Restored, MoveDone, NoMove
<1>14. CASE CopyPrerun
  BY <1>14 DEF CopyPrerun, Goto, Return
<1>15. CASE Launch
  <2>1. pc = "launch" /\ gates' = gates /\ pc' \in {"run", "done"}
    BY <1>15 DEF Launch, Goto, Return
  <2> QED
    BY <2>1
<1>16. CASE DumpEnds
  BY <1>16 DEF DumpEnds
<1>17. CASE WinSnapshotEnds
  BY <1>17 DEF WinSnapshotEnds
<1>18. CASE WinBackup
  BY <1>18 DEF WinBackup, Goto, Return, Renamed
<1>19. CASE WinClear
  BY <1>19 DEF WinClear, Goto
<1>20. CASE WinInstall
  BY <1>20 DEF WinInstall, Goto, Return, Renamed
<1>21. CASE WinCopyBack
  BY <1>21 DEF WinCopyBack, Return
<1>22. CASE ~Over /\ MoveRename
  BY <1>22 DEF MoveRename, Renamed, Over
<1>23. CASE ~Over /\ MoveCopy
  BY <1>23 DEF MoveCopy, Over
<1>24. CASE ~Over /\ MoveRemove
  BY <1>24 DEF MoveRemove, Over
<1>25. CASE Crash
  BY <1>25 DEF Crash, Goto, Over
<1>26. CASE \E p \in Paths : Meddle(p)
  BY <1>26 DEF Meddle, Over
<1>27. CASE UNCHANGED vars
  BY <1>27 DEF vars
<1> QED
  BY <1>1, <1>2, <1>3, <1>4, <1>5, <1>6, <1>7, <1>8, <1>9, <1>10, <1>11, <1>12, <1>13,
       <1>14, <1>15, <1>16, <1>17, <1>18, <1>19, <1>20, <1>21, <1>22, <1>23, <1>24,
       <1>25, <1>26, <1>27, StepKinds

\* Place by place, the original stays somewhere.
LEMMA KeptStep ==
  ASSUME FilesOK, MovesOK, StartInv, PathInv, DoneInv, KeptInv, [Next]_vars
  PROVE  KeptInv'
<1> USE DEF book, Paths, Early, Undoing, LinuxPCs, WindowsPCs, FilesOK, MovesOK,
            StartInv, PathInv, DoneInv, KeptInv, Returning
<1>1. CASE RunTarget
  BY <1>1 DEF RunTarget, Goto
<1>2. CASE RunFails
  BY <1>2 DEF RunFails, Return
<1>3. CASE EligibleEnds
  BY <1>3 DEF EligibleEnds
<1>4. CASE SnapshotEnds
  BY <1>4 DEF SnapshotEnds
<1>5. CASE Backup
  BY <1>5 DEF Backup, Goto, Return, Renamed
<1>6. CASE CheckBackup
  BY <1>6 DEF CheckBackup, Goto
<1>7. CASE UndoBackup
  BY <1>7 DEF UndoBackup, Return, Renamed
<1>8. CASE Install
  BY <1>8 DEF Install, Goto, Renamed, StartMove
<1>9. CASE UndoFailedInstall
  BY <1>9 DEF UndoFailedInstall, Return, Restored, MoveDone, NoMove
<1>10. CASE CheckInstalled
  BY <1>10 DEF CheckInstalled, Goto, StartUndo, StartMove
<1>11. CASE ValidateInstalledEnds
  BY <1>11 DEF ValidateInstalledEnds, StartUndo, StartMove, Goto
<1>12. CASE UndoCandidate
  BY <1>12 DEF UndoCandidate, Goto, StartMove, CandidateBack, MoveDone
<1>13. CASE UndoTarget
  BY <1>13 DEF UndoTarget, Return, Restored, MoveDone, NoMove
<1>14. CASE CopyPrerun
  BY <1>14 DEF CopyPrerun, Goto, Return
<1>15. CASE Launch
  BY <1>15 DEF Launch, Goto, Return
<1>16. CASE DumpEnds
  BY <1>16 DEF DumpEnds
<1>17. CASE WinSnapshotEnds
  BY <1>17 DEF WinSnapshotEnds
<1>18. CASE WinBackup
  BY <1>18 DEF WinBackup, Goto, Return, Renamed
<1>19. CASE WinClear
  BY <1>19 DEF WinClear, Goto
<1>20. CASE WinInstall
  BY <1>20 DEF WinInstall, Goto, Return, Renamed
<1>21. CASE WinCopyBack
  BY <1>21 DEF WinCopyBack, Return
<1>22. CASE ~Over /\ MoveRename
  BY <1>22 DEF MoveRename, Renamed, Over
<1>23. CASE ~Over /\ MoveCopy
  BY <1>23 DEF MoveCopy, Over
<1>24. CASE ~Over /\ MoveRemove
  BY <1>24 DEF MoveRemove, Over
<1>25. CASE Crash
  BY <1>25 DEF Crash, Goto, Over
<1>26. CASE \E p \in Paths : Meddle(p)
  BY <1>26 DEF Meddle, Over
<1>27. CASE UNCHANGED vars
  BY <1>27 DEF vars
<1> QED
  BY <1>1, <1>2, <1>3, <1>4, <1>5, <1>6, <1>7, <1>8, <1>9, <1>10, <1>11, <1>12, <1>13,
       <1>14, <1>15, <1>16, <1>17, <1>18, <1>19, <1>20, <1>21, <1>22, <1>23, <1>24,
       <1>25, <1>26, <1>27, StepKinds

\* A restore is reported as clean only after its hash was compared.
LEMMA CheckedStep ==
  ASSUME FilesOK, DoneInv, StartInv, GateInv, RestoreIsChecked, [Next]_vars
  PROVE  RestoreIsChecked'
<1> USE DEF book, Paths, Early, Undoing, LinuxPCs, WindowsPCs, DoneInv,
            StartInv, GateInv, RestoreIsChecked
<1>1. CASE RunTarget
  BY <1>1 DEF RunTarget, Goto
<1>2. CASE RunFails
  BY <1>2 DEF RunFails, Return
<1>3. CASE EligibleEnds
  BY <1>3 DEF EligibleEnds
<1>4. CASE SnapshotEnds
  BY <1>4 DEF SnapshotEnds
<1>5. CASE Backup
  BY <1>5 DEF Backup, Goto, Return, Renamed
<1>6. CASE CheckBackup
  BY <1>6 DEF CheckBackup, Goto
<1>7. CASE UndoBackup
  <2>1. UNCHANGED <<platform, performed, gates, attempted>> /\ pc = "undo_backup"
    BY <1>7 DEF UndoBackup
  <2>2. CASE fs["bak"] # None /\ fs' = Renamed("bak", "target") /\ Return(fs["bak"] # orig)
    <3>1. ~error' => fs["bak"] = orig
      BY <2>2, Zenon DEF Return
    <3>2. fs'["target"] = fs["bak"] /\ orig' = orig
      BY <1>7, <2>2 DEF Renamed, UndoBackup, FilesOK
    <3> QED
      BY <2>1, <3>1, <3>2
  <2>3. CASE fs' = fs /\ Return(TRUE)
    <3>1. error'
      BY <2>3, Zenon DEF Return
    <3> QED
      BY <2>1, <3>1
  <2> QED
    BY <1>7, <2>2, <2>3 DEF UndoBackup
<1>8. CASE Install
  BY <1>8 DEF Install, Goto, Renamed, StartMove
<1>9. CASE UndoFailedInstall
  BY <1>9 DEF UndoFailedInstall, Return, Restored, MoveDone, NoMove
<1>10. CASE CheckInstalled
  BY <1>10 DEF CheckInstalled, Goto, StartUndo, StartMove
<1>11. CASE ValidateInstalledEnds
  <2>1. CASE StartUndo
    <3>1. pc' = "undo_candidate" /\ pc = "validate" /\ ~performed
      BY <1>11, <2>1 DEF ValidateInstalledEnds, StartUndo, Goto
    <3>2. ~performed'
      BY <1>11, <2>1, <3>1 DEF ValidateInstalledEnds, StartUndo, Goto
    <3> QED
      BY <3>1, <3>2
  <2>2. CASE ~StartUndo
    <3>1. pc = "validate" /\ pc' = "done" /\ attempted' = attempted /\ platform' = platform
          /\ gates' = gates \cup {"post-install entry"}
      BY <1>11, <2>2 DEF ValidateInstalledEnds
    <3> QED
      BY <3>1
  <2> QED
    BY <2>1, <2>2
<1>12. CASE UndoCandidate
  BY <1>12 DEF UndoCandidate, Goto, StartMove, CandidateBack, MoveDone
<1>13. CASE UndoTarget
  BY <1>13 DEF UndoTarget, Return, Restored, MoveDone, NoMove
<1>14. CASE CopyPrerun
  BY <1>14 DEF CopyPrerun, Goto, Return
<1>15. CASE Launch
  BY <1>15 DEF Launch, Goto, Return
<1>16. CASE DumpEnds
  BY <1>16 DEF DumpEnds
<1>17. CASE WinSnapshotEnds
  BY <1>17 DEF WinSnapshotEnds
<1>18. CASE WinBackup
  BY <1>18 DEF WinBackup, Goto, Return, Renamed
<1>19. CASE WinClear
  BY <1>19 DEF WinClear, Goto
<1>20. CASE WinInstall
  BY <1>20 DEF WinInstall, Goto, Return, Renamed
<1>21. CASE WinCopyBack
  BY <1>21 DEF WinCopyBack, Return
<1>22. CASE ~Over /\ MoveRename
  BY <1>22 DEF MoveRename, Renamed, Over
<1>23. CASE ~Over /\ MoveCopy
  BY <1>23 DEF MoveCopy, Over
<1>24. CASE ~Over /\ MoveRemove
  BY <1>24 DEF MoveRemove, Over
<1>25. CASE Crash
  BY <1>25 DEF Crash, Goto, Over
<1>26. CASE \E p \in Paths : Meddle(p)
  <2>1. ~Over /\ UNCHANGED <<pc, platform, performed, gates>>
    BY <1>26, Zenon DEF Meddle
  <2> QED
    BY <2>1 DEF Over
<1>27. CASE UNCHANGED vars
  BY <1>27 DEF vars
<1> QED
  BY <1>1, <1>2, <1>3, <1>4, <1>5, <1>6, <1>7, <1>8, <1>9, <1>10, <1>11, <1>12, <1>13,
       <1>14, <1>15, <1>16, <1>17, <1>18, <1>19, <1>20, <1>21, <1>22, <1>23, <1>24,
       <1>25, <1>26, <1>27, StepKinds

\* Whatever a step decides, its flags are flags.
LEMMA FlagsStep ==
  ASSUME Flags, [Next]_vars
  PROVE  Flags'
<1> USE DEF book, Paths, Early, Undoing, LinuxPCs, WindowsPCs, Flags
<1>1. CASE RunTarget
  BY <1>1 DEF RunTarget, Goto
<1>2. CASE RunFails
  BY <1>2 DEF RunFails, Return
<1>3. CASE EligibleEnds
  BY <1>3 DEF EligibleEnds
<1>4. CASE SnapshotEnds
  BY <1>4 DEF SnapshotEnds
<1>5. CASE Backup
  BY <1>5 DEF Backup, Goto, Return, Renamed
<1>6. CASE CheckBackup
  BY <1>6 DEF CheckBackup, Goto
<1>7. CASE UndoBackup
  BY <1>7 DEF UndoBackup, Return, Renamed
<1>8. CASE Install
  BY <1>8 DEF Install, Goto, Renamed, StartMove
<1>9. CASE UndoFailedInstall
  BY <1>9 DEF UndoFailedInstall, Return, Restored, MoveDone, NoMove
<1>10. CASE CheckInstalled
  BY <1>10 DEF CheckInstalled, Goto, StartUndo, StartMove
<1>11. CASE ValidateInstalledEnds
  BY <1>11 DEF ValidateInstalledEnds, StartUndo, StartMove, Goto
<1>12. CASE UndoCandidate
  BY <1>12 DEF UndoCandidate, Goto, StartMove, CandidateBack, MoveDone
<1>13. CASE UndoTarget
  BY <1>13 DEF UndoTarget, Return, Restored, MoveDone, NoMove
<1>14. CASE CopyPrerun
  BY <1>14 DEF CopyPrerun, Goto, Return
<1>15. CASE Launch
  BY <1>15 DEF Launch, Goto, Return
<1>16. CASE DumpEnds
  BY <1>16 DEF DumpEnds
<1>17. CASE WinSnapshotEnds
  BY <1>17 DEF WinSnapshotEnds
<1>18. CASE WinBackup
  BY <1>18 DEF WinBackup, Goto, Return, Renamed
<1>19. CASE WinClear
  BY <1>19 DEF WinClear, Goto
<1>20. CASE WinInstall
  BY <1>20 DEF WinInstall, Goto, Return, Renamed
<1>21. CASE WinCopyBack
  BY <1>21 DEF WinCopyBack, Return
<1>22. CASE ~Over /\ MoveRename
  BY <1>22 DEF MoveRename, Renamed, Over
<1>23. CASE ~Over /\ MoveCopy
  BY <1>23 DEF MoveCopy, Over
<1>24. CASE ~Over /\ MoveRemove
  BY <1>24 DEF MoveRemove, Over
<1>25. CASE Crash
  BY <1>25 DEF Crash, Goto, Over
<1>26. CASE \E p \in Paths : Meddle(p)
  BY <1>26 DEF Meddle, Over
<1>27. CASE UNCHANGED vars
  BY <1>27 DEF vars
<1> QED
  BY <1>1, <1>2, <1>3, <1>4, <1>5, <1>6, <1>7, <1>8, <1>9, <1>10, <1>11, <1>12, <1>13,
       <1>14, <1>15, <1>16, <1>17, <1>18, <1>19, <1>20, <1>21, <1>22, <1>23, <1>24,
       <1>25, <1>26, <1>27, StepKinds

\* A replacement that is withheld put back what it had moved.
LEMMA TraceStep ==
  ASSUME FilesOK, MovesOK, StartInv, PathInv, DoneInv, KeptInv, NoTraceWhenWithheld, [Next]_vars
  PROVE  NoTraceWhenWithheld'
<1> USE DEF book, Paths, Early, Undoing, LinuxPCs, WindowsPCs, FilesOK, MovesOK,
            StartInv, PathInv, DoneInv, KeptInv, Returning, NoTraceWhenWithheld
<1>1. CASE RunTarget
  BY <1>1 DEF RunTarget, Goto
<1>2. CASE RunFails
  BY <1>2 DEF RunFails, Return
<1>3. CASE EligibleEnds
  BY <1>3 DEF EligibleEnds
<1>4. CASE SnapshotEnds
  BY <1>4 DEF SnapshotEnds
<1>5. CASE Backup
  BY <1>5 DEF Backup, Goto, Return, Renamed
<1>6. CASE CheckBackup
  BY <1>6 DEF CheckBackup, Goto
<1>7. CASE UndoBackup
  BY <1>7 DEF UndoBackup, Return, Renamed
<1>8. CASE Install
  BY <1>8 DEF Install, Goto, Renamed, StartMove
<1>9. CASE UndoFailedInstall
  BY <1>9 DEF UndoFailedInstall, Return, Restored, MoveDone, NoMove
<1>10. CASE CheckInstalled
  BY <1>10 DEF CheckInstalled, Goto, StartUndo, StartMove
<1>11. CASE ValidateInstalledEnds
  BY <1>11 DEF ValidateInstalledEnds, StartUndo, StartMove, Goto
<1>12. CASE UndoCandidate
  BY <1>12 DEF UndoCandidate, Goto, StartMove, CandidateBack, MoveDone
<1>13. CASE UndoTarget
  BY <1>13 DEF UndoTarget, Return, Restored, MoveDone, NoMove
<1>14. CASE CopyPrerun
  BY <1>14 DEF CopyPrerun, Goto, Return
<1>15. CASE Launch
  BY <1>15 DEF Launch, Goto, Return
<1>16. CASE DumpEnds
  BY <1>16 DEF DumpEnds
<1>17. CASE WinSnapshotEnds
  BY <1>17 DEF WinSnapshotEnds
<1>18. CASE WinBackup
  BY <1>18 DEF WinBackup, Goto, Return, Renamed
<1>19. CASE WinClear
  BY <1>19 DEF WinClear, Goto
<1>20. CASE WinInstall
  BY <1>20 DEF WinInstall, Goto, Return, Renamed
<1>21. CASE WinCopyBack
  BY <1>21 DEF WinCopyBack, Return
<1>22. CASE ~Over /\ MoveRename
  BY <1>22 DEF MoveRename, Renamed, Over
<1>23. CASE ~Over /\ MoveCopy
  BY <1>23 DEF MoveCopy, Over
<1>24. CASE ~Over /\ MoveRemove
  BY <1>24 DEF MoveRemove, Over
<1>25. CASE Crash
  BY <1>25 DEF Crash, Goto, Over
<1>26. CASE \E p \in Paths : Meddle(p)
  BY <1>26 DEF Meddle, Over
<1>27. CASE UNCHANGED vars
  BY <1>27 DEF vars
<1> QED
  BY <1>1, <1>2, <1>3, <1>4, <1>5, <1>6, <1>7, <1>8, <1>9, <1>10, <1>11, <1>12, <1>13,
       <1>14, <1>15, <1>16, <1>17, <1>18, <1>19, <1>20, <1>21, <1>22, <1>23, <1>24,
       <1>25, <1>26, <1>27, StepKinds

\* What a step means to the contract.
LEMMA StepFate ==
  ASSUME [Next]_vars
  PROVE  (\/ UNCHANGED vars
          \/ ~Over /\ pc' = "crashed" /\ UNCHANGED <<fs, orig, nw, meddled>>
          \/ ~Over /\ ~Over' /\ meddled' = TRUE
          \/ ~Over /\ pc' # "crashed" /\ meddled' = meddled)
<1> USE DEF book, Paths, Early, Undoing, LinuxPCs, WindowsPCs, Over
<1>1. CASE RunTarget
  BY <1>1 DEF RunTarget, Goto
<1>2. CASE RunFails
  BY <1>2 DEF RunFails, Return
<1>3. CASE EligibleEnds
  BY <1>3 DEF EligibleEnds
<1>4. CASE SnapshotEnds
  BY <1>4 DEF SnapshotEnds
<1>5. CASE Backup
  BY <1>5 DEF Backup, Goto, Return, Renamed
<1>6. CASE CheckBackup
  <2>1. pc = "check_backup" /\ pc' \in {"install", "undo_backup"} /\ meddled' = meddled
    BY <1>6 DEF CheckBackup, Goto
  <2> QED
    BY <2>1
<1>7. CASE UndoBackup
  BY <1>7 DEF UndoBackup, Return, Renamed
<1>8. CASE Install
  BY <1>8 DEF Install, Goto, Renamed, StartMove
<1>9. CASE UndoFailedInstall
  BY <1>9 DEF UndoFailedInstall, Return, Restored, MoveDone, NoMove
<1>10. CASE CheckInstalled
  <2>1. pc = "check_installed" /\ pc' \in {"validate", "undo_candidate"} /\ meddled' = meddled
    BY <1>10 DEF CheckInstalled, StartUndo, Goto
  <2> QED
    BY <2>1
<1>11. CASE ValidateInstalledEnds
  BY <1>11 DEF ValidateInstalledEnds, StartUndo, StartMove, Goto
<1>12. CASE UndoCandidate
  BY <1>12 DEF UndoCandidate, Goto, StartMove, CandidateBack, MoveDone
<1>13. CASE UndoTarget
  BY <1>13 DEF UndoTarget, Return, Restored, MoveDone, NoMove
<1>14. CASE CopyPrerun
  BY <1>14 DEF CopyPrerun, Goto, Return
<1>15. CASE Launch
  BY <1>15 DEF Launch, Goto, Return
<1>16. CASE DumpEnds
  BY <1>16 DEF DumpEnds
<1>17. CASE WinSnapshotEnds
  BY <1>17 DEF WinSnapshotEnds
<1>18. CASE WinBackup
  BY <1>18 DEF WinBackup, Goto, Return, Renamed
<1>19. CASE WinClear
  BY <1>19 DEF WinClear, Goto
<1>20. CASE WinInstall
  BY <1>20 DEF WinInstall, Goto, Return, Renamed
<1>21. CASE WinCopyBack
  BY <1>21 DEF WinCopyBack, Return
<1>22. CASE ~Over /\ MoveRename
  BY <1>22 DEF MoveRename, Renamed, Over
<1>23. CASE ~Over /\ MoveCopy
  BY <1>23 DEF MoveCopy, Over
<1>24. CASE ~Over /\ MoveRemove
  BY <1>24 DEF MoveRemove, Over
<1>25. CASE Crash
  BY <1>25 DEF Crash, Goto, Over
<1>26. CASE \E p \in Paths : Meddle(p)
  <2>1. ~Over /\ pc' = pc /\ meddled' = TRUE
    BY <1>26, Zenon DEF Meddle
  <2> QED
    BY <2>1
<1>27. CASE UNCHANGED vars
  BY <1>27 DEF vars
<1> QED
  BY <1>1, <1>2, <1>3, <1>4, <1>5, <1>6, <1>7, <1>8, <1>9, <1>10, <1>11, <1>12, <1>13,
       <1>14, <1>15, <1>16, <1>17, <1>18, <1>19, <1>20, <1>21, <1>22, <1>23, <1>24,
       <1>25, <1>26, <1>27, StepKinds

LEMMA InitOK ==
  ASSUME Init
  PROVE  IInv /\ RestoreIsChecked /\ NoTraceWhenWithheld
<1> USE DEF Init
<1>1. FilesOK
  BY DEF FilesOK, Paths, Contents
<1>2. MovesOK
  BY DEF MovesOK, NoMove, WindowsPCs, Undoing, Paths
<1>3. StartInv
  BY DEF StartInv, Early, Paths, WindowsPCs
<1>4. PathInv /\ DoneInv /\ GateInv /\ KeptInv
  BY DEF PathInv, DoneInv, GateInv, KeptInv, Undoing
<1>5. RestoreIsChecked /\ NoTraceWhenWithheld
  BY DEF RestoreIsChecked, NoTraceWhenWithheld
<1> QED
  BY <1>1, <1>2, <1>3, <1>4, <1>5 DEF IInv

LEMMA IInvStep ==
  ASSUME IInv, [Next]_vars
  PROVE  IInv'
  BY FilesStep, MovesStep, StartStep, PathStep, DoneStep, GateStep, KeptStep DEF IInv

\* The strengthening holds in every reachable state.
LEMMA Invariance == Spec => []IInv
<1>1. IInv /\ [Next]_vars => IInv'
  BY IInvStep
<1> QED
  BY <1>1, InitOK, PTL DEF Spec

\* Types, and: a rename with its fallback is under way exactly in a rollback.
THEOREM TypeCorrect == Spec => []TypeOK
<1>1. Init => Flags
  BY DEF Init, Flags
<1>2. Flags /\ [Next]_vars => Flags'
  BY FlagsStep
<1>3. FilesOK /\ MovesOK /\ Flags => TypeOK
  BY DEF FilesOK, MovesOK, Flags, TypeOK
<1> QED
  BY <1>1, <1>2, <1>3, Invariance, PTL DEF Spec, IInv

\* A restore is reported as clean only with the original at the target, and a
\* Linux replacement is performed only through its three gates (the rollback
\* and the checks of linux_install_validated_elf).
THEOREM VerdictsAreSeen == Spec => []RestoreIsChecked
<1>1. IInv /\ RestoreIsChecked /\ [Next]_vars => RestoreIsChecked'
  BY CheckedStep DEF IInv
<1> QED
  BY <1>1, InitOK, Invariance, PTL DEF Spec

\* A replacement that is withheld without an error leaves target, candidate
\* and backup as it found them (the rollback of linux_install_validated_elf).
THEOREM WithheldLeavesNoTrace == Spec => []NoTraceWhenWithheld
<1>1. IInv /\ NoTraceWhenWithheld /\ [Next]_vars => NoTraceWhenWithheld'
  BY TraceStep DEF IInv
<1> QED
  BY <1>1, InitOK, Invariance, PTL DEF Spec

-----------------------------------------------------------------------------
(* The contract *)

\* Where the original is, and what the verdict says of it.
Promise ==
    ~meddled =>
        /\ OriginalAt # {}
        /\ Verdict = "installed" => orig # None /\ fs["target"] = nw /\ "bak" \in OriginalAt
        /\ Verdict = "withheld" => "target" \in OriginalAt

LEMMA Whereabouts == IInv => Promise
<1> SUFFICES ASSUME IInv, ~meddled PROVE Promise
  BY DEF Promise
<1>1. CASE orig = None
  <2>1. OriginalAt = {"target"}
    BY <1>1 DEF OriginalAt
  <2>2. ~performed
    BY <1>1 DEF IInv, DoneInv
  <2>3. Verdict # "installed"
    BY <2>2 DEF Verdict
  <2> QED
    BY <2>1, <2>3 DEF Promise
<1>2. CASE orig # None
  <2>1. OriginalAt = {p \in {"target", "bak", "prerun"} : fs[p] = orig}
    BY <1>2 DEF OriginalAt
  <2>2. orig \in {fs["target"], fs["bak"], fs["prerun"]}
    BY <1>2 DEF IInv, KeptInv
  <2>3. Verdict = "installed" => pc = "done" /\ performed
    BY DEF Verdict
  <2>4. Verdict = "withheld" => pc = "done" /\ ~performed /\ ~error
    BY DEF Verdict
  <2>5. pc = "done" /\ performed => fs["target"] = nw /\ fs["bak"] = orig
    BY <1>2 DEF IInv, KeptInv
  <2>6. pc = "done" /\ ~performed /\ ~error => fs["target"] = orig
    BY <1>2 DEF IInv, KeptInv
  <2> QED
    BY <1>2, <2>1, <2>2, <2>3, <2>4, <2>5, <2>6 DEF Promise
<1> QED
  BY <1>1, <1>2

\* Every step of a replacement is a step of the contract, or none.
LEMMA ContractStep ==
  ASSUME Promise', [Next]_vars
  PROVE  [Contract!CNext]_(Contract!cvars)
<1> DEFINE Installed == orig # None /\ fs["target"] = nw
<1>1. OriginalAt' \in SUBSET {"target", "bak", "prerun"}
  BY DEF OriginalAt
<1>2. Installed' \in BOOLEAN
  BY Zenon
<1>3. /\ ~meddled' => OriginalAt' # {}
      /\ ~meddled' /\ Verdict' = "installed" => Installed' /\ "bak" \in OriginalAt'
      /\ ~meddled' /\ Verdict' = "withheld" => "target" \in OriginalAt'
  BY DEF Promise
<1>4. ~Over => Verdict = "open"
  BY DEF Over, Verdict
<1>5. ~Over' => Verdict' = "open"
  BY DEF Over, Verdict
<1>6. pc' = "crashed" => Verdict' = "crashed"
  BY DEF Verdict
<1>7. pc' = "done" => Verdict' \in {"installed", "withheld", "failed"}
  BY DEF Verdict
<1>10. CASE UNCHANGED vars
  BY <1>10 DEF vars, Contract!cvars, OriginalAt, Verdict
<1>11. CASE ~Over /\ pc' = "crashed" /\ UNCHANGED <<fs, orig, nw, meddled>>
  BY <1>4, <1>6, <1>11 DEF Contract!CNext, Contract!CrashC, OriginalAt
<1>12. CASE ~Over /\ ~Over' /\ meddled' = TRUE
  BY <1>1, <1>2, <1>4, <1>5, <1>12 DEF Contract!CNext, Contract!Disturb
<1>13. CASE ~Over /\ pc' # "crashed" /\ meddled' = meddled
  <2>1. CASE pc' = "done"
    BY <1>1, <1>2, <1>3, <1>4, <1>7, <1>13, <2>1 DEF Contract!CNext, Contract!Decide
  <2>2. CASE pc' # "done"
    BY <1>1, <1>2, <1>3, <1>4, <1>5, <1>13, <2>2 DEF Contract!CNext, Contract!Shuffle,
         Over
  <2> QED
    BY <2>1, <2>2
<1> QED
  BY <1>10, <1>11, <1>12, <1>13, StepFate

\* Both replacements implement the contract: whatever call fails and whenever
\* the analyser dies, the original stays at one of its paths and the verdict
\* tells where (linux_install_validated_elf, transactional_install_from_prerun).
THEOREM ReplacementImplementsContract == Spec => ImplementsContract
<1>1. Init => Contract!CInit
  BY DEF Init, Contract!CInit, OriginalAt, Verdict
<1>2. Promise' /\ [Next]_vars => [Contract!CNext]_(Contract!cvars)
  BY ContractStep
<1> QED
  BY <1>1, <1>2, Invariance, Whereabouts, PTL DEF Spec, ImplementsContract, Contract!CSpec

=============================================================================
