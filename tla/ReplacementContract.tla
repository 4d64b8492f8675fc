------------------------ MODULE ReplacementContract ------------------------
(***************************************************************************)
(* What `--run --apply` promises about the analysed file, whichever        *)
(* platform carries it out: until the replacement has reported its verdict *)
(* the original content can be found at one of its paths (also after a     *)
(* crash), and the verdict tells where.                                    *)
(*                                                                         *)
(*   installed  the new image is at the target, the original at the backup *)
(*   withheld   no error is reported: the target holds the original        *)
(*   failed     an error is reported: the original still exists somewhere  *)
(*                                                                         *)
(* An outsider who writes to the files during the replacement ends the     *)
(* promise (disturbed), except that a restore is never claimed unseen.     *)
(***************************************************************************)
CONSTANT Places           \* paths that may hold the original

VARIABLES where,          \* the places that hold the original now
          installed,      \* whether the target holds the new image
          disturbed, verdict

Verdicts == {"open", "installed", "withheld", "failed", "crashed"}

cvars == <<where, installed, disturbed, verdict>>

CInit == /\ where = {"target"} /\ installed = FALSE
         /\ disturbed = FALSE /\ verdict = "open"

\* A step of the replacement keeps a copy of the original.
Shuffle ==
    /\ verdict = "open" /\ verdict' = "open"
    /\ where' \in SUBSET Places /\ installed' \in BOOLEAN
    /\ disturbed' = disturbed
    /\ disturbed \/ where' # {}

Disturb ==
    /\ verdict = "open" /\ verdict' = "open"
    /\ where' \in SUBSET Places /\ installed' \in BOOLEAN
    /\ disturbed' = TRUE

Decide(v) ==
    /\ verdict = "open" /\ verdict' = v
    /\ where' \in SUBSET Places /\ installed' \in BOOLEAN
    /\ disturbed' = disturbed
    /\ ~disturbed =>
          /\ where' # {}
          /\ v = "installed" => installed' /\ "bak" \in where'
          /\ v = "withheld" => "target" \in where'

CrashC == verdict = "open" /\ verdict' = "crashed" /\ UNCHANGED <<where, installed, disturbed>>

CNext == Shuffle \/ Disturb \/ CrashC
         \/ \E v \in {"installed", "withheld", "failed"} : Decide(v)

CSpec == CInit /\ [][CNext]_cvars
=============================================================================
