--------------------------- MODULE PipelineClaims ---------------------------
(***************************************************************************)
(* What comments and design documents of the repository say of the         *)
(* pipeline and the code does not keep.  Each is checked in a run of its   *)
(* own that TLC refutes; README.md tells the behaviours.                   *)
(***************************************************************************)
EXTENDS Pipeline

\* "Process restart, crashed mid-job -> the next claim picks it up" and "the
\* import retries": a claimed import task is not left in_progress for ever.
TaskFinishes ==
    \A t \in Tasks :
        task[t].status = "in_progress" ~> task[t].status # "in_progress"

\* "A want held under manual autonomy must never be searched or grabbed
\* autonomously, including after a retry, a failed download, or a re-arm."
ManualNeverClaimed ==
    [][\A w \in Wants :
          want[w].status = "pending" /\ want'[w].status = "searching"
          => AutonomyFor(w) # "manual"]_vars
=============================================================================
