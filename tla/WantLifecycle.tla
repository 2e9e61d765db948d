--------------------------- MODULE WantLifecycle ---------------------------
(***************************************************************************)
(* What the pipeline promises of a want, whoever moves it: the life cycle  *)
(* of model/want.go.  A want is searched for from 'pending', grabbed only  *)
(* when nothing carries it, released only by what carried it; it becomes   *)
(* 'imported' or 'available' only with its file in the library; 'available'*)
(* is final, and 'failed' and 'canceled' are left only for the start of a  *)
(* new acquisition.                                                        *)
(***************************************************************************)
CONSTANT Wants

VARIABLES status,   \* of each want
          onDisk    \* the wants whose file is in the library

Ended == {"available", "failed", "canceled"}

\* The states a want may move to in one step.
Successors(s, placed) ==
    {s}
    \cup (IF s \notin Ended THEN {"downloading", "failed", "canceled"} ELSE {})
    \cup (IF s \notin Ended /\ placed THEN {"imported", "available"} ELSE {})
    \cup (IF s = "pending" THEN {"searching", "grabbed"} ELSE {})
    \cup (IF s = "searching" THEN {"pending", "grabbed"} ELSE {})
    \cup (IF s \in {"grabbed", "downloading"} THEN {"pending"} ELSE {})
    \cup (IF s \in {"failed", "canceled"} THEN {"pending", "grabbed"} ELSE {})

Init ==
    /\ status = [w \in Wants |-> "pending"]
    /\ onDisk = {}

\* One transaction may move several wants.
Next ==
    /\ \A w \in Wants : status'[w] \in Successors(status[w], w \in onDisk)
    /\ onDisk \subseteq onDisk'

Spec == Init /\ [][Next]_<<status, onDisk>>
=============================================================================
