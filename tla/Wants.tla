------------------------------- MODULE Wants -------------------------------
(***************************************************************************)
(* The want row and the SQL statements that move it (db/queries/want.sql). *)
(*                                                                         *)
(* A want is the work item of the acquisition pipeline: one per movie, one *)
(* per in-scope episode.  Every statement is a compare-and-swap on its     *)
(* status, so each is modelled as a guard (CanX) and an effect (X) that is *)
(* the identity on a row the guard rejects.  The backoff columns           *)
(* (next_run_at, attempt_count, last_error) only decide when a pending     *)
(* want is claimed, which the model leaves open, so a row keeps its status *)
(* and its hold.  No variable is declared here.                            *)
(***************************************************************************)

WantStatus == {"pending", "searching", "grabbed", "downloading", "imported",
               "available", "failed", "canceled"}

Holds == {"none", "needs_pick", "proposed"}

WantRow == [status : WantStatus, hold : Holds]

NewWant == [status |-> "pending", hold |-> "none"]

TerminalWant == {"available", "failed", "canceled"}

\* Still acquirable: what a season pack may cover and a hold may park.
Claimable == {"pending", "searching"}

\* Carried by a download job.
InFlight == {"grabbed", "downloading"}

-----------------------------------------------------------------------------
Runnable(w) == w.status = "pending" /\ w.hold = "none"

ClaimWant(w) == [w EXCEPT !.status = "searching"]

Stale(w) == w.status = "searching" /\ w.hold = "none"

\* Bug: only the due time is reset.
ReclaimDueOnly(w) == w

ReclaimStale(w) == [w EXCEPT !.status = "pending"]

CanCancelWant(w) == w.status \notin TerminalWant

\* CancelWant leaves the hold in place.
CancelWant(w) ==
    IF CanCancelWant(w) THEN [w EXCEPT !.status = "canceled"] ELSE w

\* Bug: without its guard.
MirrorAlways(w, s) == [w EXCEPT !.status = s]

\* The terminal-sticky mirror of the download and import workers.
MirrorWantStatus(w, s) ==
    IF w.status \notin TerminalWant THEN [w EXCEPT !.status = s] ELSE w

Grabbed == [status |-> "grabbed", hold |-> "none"]

CanGrabWant(w) == w.status = "searching"

\* Bug: a pack takes over what another job carries.
CanGrabAnyForPack(w) == w.status \in Claimable \cup {"grabbed"}

CanGrabForPack(w) == w.status \in Claimable

CanGrabManual(w) == w.status \in Claimable \cup {"failed", "canceled"}

CanRelease(w) == w.status \in InFlight

ReleaseWantFromGrab(w) ==
    IF CanRelease(w) THEN [w EXCEPT !.status = "pending"] ELSE w

\* ScheduleWantRetry and RescheduleWantRecheck differ in their backoff only.
BackToPending(w) ==
    IF w.status = "searching" THEN [w EXCEPT !.status = "pending"] ELSE w

MarkWantFailed(w) ==
    IF w.status = "searching" THEN [w EXCEPT !.status = "failed"] ELSE w

CanRearm(w) == w.status \in {"failed", "canceled"}

\* RearmWant does not write the hold column.
RearmWant(w) == [w EXCEPT !.status = "pending"]

RetryWant(w) ==
    IF w.status \in {"pending", "failed", "canceled"} /\ w.hold = "none"
    THEN [w EXCEPT !.status = "pending"]
    ELSE w

\* Bug: the wants being searched are missed.
CanHoldPending(w) == w.status = "pending" /\ w.hold = "none"

CanHold(w) == w.status \in Claimable /\ w.hold = "none"

HoldForSegment(w) ==
    IF CanHold(w) THEN [w EXCEPT !.hold = "needs_pick"] ELSE w

ReleaseHeld(w) ==
    IF w.status \in Claimable /\ w.hold = "needs_pick"
    THEN [w EXCEPT !.hold = "none"]
    ELSE w

\* SetWantHold has no guard: it stamps a row whatever its status.
SetWantHold(w, h) == [w EXCEPT !.hold = h]

HoldProposed(w) ==
    IF CanHold(w) THEN [w EXCEPT !.hold = "proposed"] ELSE w

\* Guarded by the hold alone: the status is not looked at.
RearmProposed(w) ==
    IF w.hold = "proposed" THEN NewWant ELSE w
=============================================================================
