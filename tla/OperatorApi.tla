---------------------------- MODULE OperatorApi ----------------------------
(***************************************************************************)
(* What the HTTP API lets an operator do to a tracking, its wants, its     *)
(* proposals, its download jobs and its import tasks, while the workers    *)
(* run.  A handler that is one transaction is one action; cancelling wants *)
(* is not one: the want, then its jobs, want after want, so the request    *)
(* being served is a local record.  At most one is served at a time.       *)
(***************************************************************************)
EXTENDS Tables

UsrState == [pc : {"idle", "want", "jobs"},
             todo : SUBSET Wants,
             want : Wants \cup {NoWant},
             whole : BOOLEAN]       \* the tracking is left to be canceled

UsrIdle == [pc |-> "idle", todo |-> {}, want |-> NoWant, whole |-> FALSE]

-----------------------------------------------------------------------------
(***************************************************************************)
(* WantService.CancelWant and TrackingService.Cancel.                      *)
(***************************************************************************)
StartCancel(S, whole) ==
    usr' = [pc |-> "want", todo |-> S, want |-> NoWant, whole |-> whole]

RequestCancelWant(w) ==
    /\ usr.pc = "idle"
    /\ Request("cancel_want")
    /\ StartCancel({w}, FALSE)
    /\ UNCHANGED <<tracking, want, excl, prop, job, task, files, acq, dl, imp>>

RequestCancelTracking ==
    /\ usr.pc = "idle"
    /\ Request("cancel_tracking")
    /\ StartCancel({w \in Wants : want[w].status \notin TerminalWant},
                   tracking.state # "canceled")
    /\ UNCHANGED <<tracking, want, excl, prop, job, task, files, acq, dl, imp>>

\* The compare-and-swap, then the tracking; a want that ended in another way
\* is a conflict that gives up the rest of the request.
CancelNextWant(w) ==
    /\ usr.pc = "want" /\ w \in usr.todo
    /\ IF CanCancelWant(want[w])
       THEN /\ want' = [want EXCEPT ![w] = CancelWant(@)]
            /\ tracking' = [tracking EXCEPT !.state = "canceled"]
            /\ usr' = [usr EXCEPT !.pc = "jobs", !.todo = @ \ {w}, !.want = w]
       ELSE /\ usr' = IF want[w].status = "canceled"
                      THEN [usr EXCEPT !.todo = @ \ {w}] ELSE UsrIdle
            /\ UNCHANGED <<want, tracking>>
    /\ UNCHANGED <<excl, prop, job, task, files, acq, dl, imp, budget>>

CancelJobs(S) ==
    /\ job' = [j \in Jobs |-> IF j \in S THEN [job[j] EXCEPT !.status = "cancelled"]
                              ELSE job[j]]
    /\ task' = [t \in Tasks |->
                   IF task[t].job \in S /\ task[t].status = "pending"
                   THEN [task[t] EXCEPT !.status = "cancelled"] ELSE task[t]]

CancelJobsOfWant ==
    /\ usr.pc = "jobs"
    /\ CancelJobs(ActiveJobsOf(usr.want))
    /\ usr' = [usr EXCEPT !.pc = "want", !.want = NoWant]
    /\ UNCHANGED <<tracking, want, excl, prop, files, acq, dl, imp, budget>>

CancelDone ==
    /\ usr.pc = "want" /\ usr.todo = {}
    /\ usr' = UsrIdle
    /\ tracking' = IF usr.whole THEN [tracking EXCEPT !.state = "canceled"]
                   ELSE tracking
    /\ UNCHANGED <<want, excl, prop, job, task, files, acq, dl, imp, budget>>

-----------------------------------------------------------------------------
(***************************************************************************)
(* TrackingService.                                                        *)
(***************************************************************************)
ApplyAutonomy(row, old, new) ==
    IF old = new THEN row
    ELSE IF new = "manual" THEN HoldForSegment(row) ELSE ReleaseHeld(row)

SetAutonomy(a) ==
    /\ Request("autonomy")
    /\ a # tracking.autonomy
    /\ tracking' = [tracking EXCEPT !.autonomy = a]
    /\ want' = [w \in Wants |->
                   ApplyAutonomy(want[w], AutonomyFor(w), a[Segment[w]])]
    /\ UNCHANGED <<excl, prop, job, task, files, acq, dl, imp, usr>>

\* Re-arms what it may, then puts it back under the gate of a manual segment.
RetryTracking ==
    /\ Request("retry")
    /\ want' = [w \in Wants |->
                   IF AutonomyFor(w) = "manual" THEN HoldForSegment(RetryWant(want[w]))
                   ELSE RetryWant(want[w])]
    /\ tracking' = [tracking EXCEPT !.state = "active"]
    /\ UNCHANGED <<excl, prop, job, task, files, acq, dl, imp, usr>>

\* A re-request of a tracked movie.
RearmMovieWant(w) ==
    /\ MediaType = "movie"
    /\ CanRearm(want[w])
    /\ Request("rearm")
    /\ tracking' = [tracking EXCEPT !.state = "active"]
    /\ want' = [want EXCEPT ![w] =
                   IF AutonomyFor(w) = "manual"
                   THEN SetWantHold(RearmWant(@), "needs_pick") ELSE RearmWant(@)]
    /\ UNCHANGED <<excl, prop, job, task, files, acq, dl, imp, usr>>

-----------------------------------------------------------------------------
(***************************************************************************)
(* ProposalService.Approve and Decline.                                    *)
(***************************************************************************)
ApprovePack(p) ==
    LET claimed == {w \in p.wants : CanGrabForPack(want[w])} IN
    /\ claimed # {}
    /\ \E j \in Jobs : CreateDownloadJob(j, p.release, claimed)
    /\ want' = [w \in Wants |-> IF w \in claimed THEN Grabbed ELSE want[w]]

ApproveSingle(p) ==
    \E w \in p.wants :
       /\ CanGrabWant(want[w])
       /\ \E j \in Jobs : CreateDownloadJob(j, p.release, {w})
       /\ want' = [want EXCEPT ![w] = Grabbed]

\* Both refuse with a conflict, and change nothing, when no want can be grabbed.
Approve(p) ==
    /\ Request("approve")
    /\ IF p.release \in Packs THEN ApprovePack(p) ELSE ApproveSingle(p)
    /\ prop' = prop \ {p}
    /\ UNCHANGED <<tracking, excl, task, files, acq, dl, imp, usr>>

Decline(p) ==
    /\ Request("decline")
    /\ excl' = excl \cup (p.wants \X {p.release})
    /\ Update(p.wants, RearmProposed)
    /\ prop' = prop \ {p}
    /\ UNCHANGED <<tracking, job, task, files, acq, dl, imp, usr>>

-----------------------------------------------------------------------------
(***************************************************************************)
(* A release picked by hand: for a movie it takes the want over or is a    *)
(* conflict; for an episode it is downloaded whether it joins a want or    *)
(* not.                                                                    *)
(***************************************************************************)
GrabFor(r, S) ==
    /\ \E j \in Jobs : CreateDownloadJob(j, r, S)
    /\ want' = [v \in Wants |-> IF v \in S THEN Grabbed ELSE want[v]]

GrabMovie(w, r) ==
    /\ MediaType = "movie"
    /\ CanGrabManual(want[w])
    /\ GrabFor(r, {w})
    /\ tracking' = IF want[w].status = "canceled"
                   THEN [tracking EXCEPT !.state = "active"] ELSE tracking

GrabEpisode(w, r) ==
    /\ MediaType # "movie"
    /\ GrabFor(r, {v \in {w} : want[v].status \in Claimable})
    /\ UNCHANGED tracking

GrabManual(w, r) ==
    /\ Request("manual_grab")
    /\ Covers[r] = {w} /\ r \notin Packs
    /\ GrabMovie(w, r) \/ GrabEpisode(w, r)
    /\ UNCHANGED <<excl, prop, task, files, acq, dl, imp, usr>>

-----------------------------------------------------------------------------
(***************************************************************************)
(* DownloadJobsService and ImportTasksService.                             *)
(***************************************************************************)
CancelDownloadJob(j) ==
    /\ Request("cancel_job")
    /\ job[j].status \in ActiveJob
    /\ CancelJobs({j})
    /\ UNCHANGED <<tracking, want, excl, prop, files, acq, dl, imp, usr>>

\* The successor inherits the links; the unique index refuses it while another
\* job of the release is under it.
RetryDownload(j) ==
    /\ Request("retry_job")
    /\ job[j].status = "failed"
    /\ IndexedFor(job[j].release) = {}
    /\ \E k \in Jobs : CreateDownloadJob(k, job[j].release, job[j].wants)
    /\ UNCHANGED <<tracking, want, excl, prop, task, files, acq, dl, imp, usr>>

CancelImportTask(t) ==
    /\ Request("cancel_task")
    /\ task[t].status = "pending"
    /\ task' = [task EXCEPT ![t].status = "cancelled"]
    /\ UNCHANGED <<tracking, want, excl, prop, job, files, acq, dl, imp, usr>>

\* The new task carries no want.
Reimport(t) ==
    /\ Request("reimport")
    /\ task[t].status \in {"completed", "failed"}
    /\ \E u \in Tasks : CreateImportTask(u, task[t].job, task[t].episode, NoWant, TRUE)
    /\ UNCHANGED <<tracking, want, excl, prop, job, files, acq, dl, imp, usr>>

-----------------------------------------------------------------------------
ServeCancel ==
    \/ \E w \in Wants : CancelNextWant(w)
    \/ CancelJobsOfWant \/ CancelDone

\* What reactivates a terminal want on purpose.
Reactivate ==
    \/ RetryTracking
    \/ \E w \in Wants : RearmMovieWant(w) \/ \E r \in Releases : GrabManual(w, r)

UsrStep ==
    \/ \E w \in Wants : RequestCancelWant(w)
    \/ RequestCancelTracking
    \/ ServeCancel
    \/ Reactivate
    \/ \E a \in [Segments -> Dials] : SetAutonomy(a)
    \/ \E p \in prop : Approve(p) \/ Decline(p)
    \/ \E j \in Jobs : CancelDownloadJob(j) \/ RetryDownload(j)
    \/ \E t \in Tasks : CancelImportTask(t) \/ Reimport(t)
=============================================================================
