--------------------------- MODULE DownloadWorker ---------------------------
(***************************************************************************)
(* The download worker (jobs/download/worker.go): it hands created jobs to *)
(* the downloader, polls the ones in flight, and on their end spawns the   *)
(* import tasks or fails the job and recovers its wants.                   *)
(*                                                                         *)
(* A claim returns a snapshot of the job row that the whole handling uses, *)
(* while nothing marks the row as taken.  Every statement is a commit of   *)
(* its own; the loops over the wants of a job are one step per want and    *)
(* statement.  A batch is handled one job at a time and a job's handling   *)
(* reads no other job, so a claim takes one.                               *)
(***************************************************************************)
EXTENDS Tables

DlPc == {"idle", "process", "mirror", "spawn", "file", "uncover", "unlink",
         "fail", "recover", "release", "restamp"}

DlState == [pc : DlPc,
            job : Jobs \cup {NoJob},
            status : JobStatus,
            attempts : Nat,
            todo : SUBSET Wants,      \* what is left of the current loop
            uncovered : SUBSET Wants, \* linked wants no file matches
            linked : BOOLEAN,         \* the job had wants when it was listed
            made : BOOLEAN,           \* some import task was created
            want : Wants \cup {NoWant}]

DlIdle == [pc |-> "idle", job |-> NoJob, status |-> "created", attempts |-> 0,
           todo |-> {}, uncovered |-> {}, linked |-> FALSE, made |-> FALSE,
           want |-> NoWant]

Goto(pc) == dl' = [dl EXCEPT !.pc = pc]

-----------------------------------------------------------------------------
ClaimRunnableDownloadJobs(j) ==
    /\ dl.pc = "idle"
    /\ job[j].status \in ActiveJob
    /\ dl' = [DlIdle EXCEPT !.pc = "process", !.job = j,
                            !.status = job[j].status, !.attempts = job[j].attempts]
    /\ UNCHANGED <<tracking, want, excl, prop, job, task, files, acq, imp, usr, budget>>

\* Bug: a status the column's CHECK constraint does not know.
EnqueueAsQueued ==
    /\ dl.pc = "process" /\ dl.status = "created"
    /\ job' = [job EXCEPT ![dl.job].status = "queued"]
    /\ dl' = DlIdle
    /\ UNCHANGED <<tracking, want, excl, prop, task, files, acq, imp, usr, budget>>

SetEnqueued(row) ==
    [row EXCEPT !.status = "enqueued", !.attempts = row.attempts + 1]

\* client.Add succeeded; the write is unguarded but for the unique index, whose
\* violation is a Conflict, which is not retryable.
Enqueue ==
    /\ dl.pc = "process" /\ dl.status = "created"
    /\ IF IndexConflict(dl.job)
       THEN Goto("fail") /\ UNCHANGED job
       ELSE /\ job' = [job EXCEPT ![dl.job] = SetEnqueued(@)]
            /\ dl' = DlIdle
    /\ UNCHANGED <<tracking, want, excl, prop, task, files, acq, imp, usr, budget>>

DownloadJobTransitions ==
    [created     |-> {"enqueued", "failed", "cancelled"},
     enqueued    |-> {"downloading", "completed", "failed", "cancelled"},
     downloading |-> {"completed", "failed", "cancelled"},
     completed   |-> {},
     failed      |-> {},
     cancelled   |-> {}]

CanTransition(from, to) == to \in DownloadJobTransitions[from]

\* What the transition edge leads to.
AfterPoll(st) ==
    CASE st = "failed" -> "fail"
      [] st = "completed" -> "spawn"
      [] st = "downloading" /\ dl.status # "downloading" -> "mirror"
      [] OTHER -> "idle"

\* The downloader reports st: the transition is checked against the snapshot,
\* then the row is written, unguarded but for the index.
Poll(st) ==
    /\ dl.pc = "process" /\ dl.status \in {"enqueued", "downloading"}
    /\ st = dl.status \/ CanTransition(dl.status, st)
    /\ IF st \notin DeadJob /\ IndexConflict(dl.job)
       THEN Goto("fail") /\ UNCHANGED job
       ELSE /\ SetJobStatus(dl.job, st)
            /\ dl' = IF AfterPoll(st) = "idle" THEN DlIdle
                     ELSE [dl EXCEPT !.pc = AfterPoll(st),
                                     !.todo = IF AfterPoll(st) = "mirror"
                                              THEN job[dl.job].wants ELSE {}]
    /\ UNCHANGED <<tracking, want, excl, prop, task, files, acq, imp, usr>>

PollProgress == Poll("downloading") /\ UNCHANGED budget
PollCompleted == Poll("completed") /\ UNCHANGED budget
PollFailed == Fault("download") /\ Poll("failed")

\* Mirrors 'downloading' onto the wants of the job, one by one.
MirrorDownloading(w) ==
    /\ dl.pc = "mirror" /\ w \in dl.todo
    /\ MirrorWant(w, "downloading")
    /\ dl' = [dl EXCEPT !.todo = @ \ {w}]
    /\ UNCHANGED <<tracking, excl, prop, job, task, files, acq, imp, usr, budget>>

MirrorDone ==
    /\ dl.pc = "mirror" /\ dl.todo = {}
    /\ dl' = DlIdle
    /\ UNCHANGED <<tracking, want, excl, prop, job, task, files, acq, imp, usr, budget>>

-----------------------------------------------------------------------------
(***************************************************************************)
(* The row of a completed job is committed before its tasks are spawned.   *)
(* The files present decide which wants get a task, which are released and *)
(* which files are left over; a job without wants files every episode with *)
(* a NULL want.                                                            *)
(***************************************************************************)
LinkedTo(j) == job[j].wants

\* The files of the release that arrived: all of them, unless a fault.
Arrived(F) ==
    LET all == Covers[job[dl.job].release] IN
    \/ F = all /\ UNCHANGED budget
    \/ F # all /\ F # {} /\ Fault("missingfile")

\* Bug: every file of the release gets a task, linked want or not.
SpawnForEveryFile(F) ==
    /\ dl.pc = "spawn"
    /\ Arrived(F)
    /\ dl' = [dl EXCEPT !.pc = "file", !.todo = F, !.linked = TRUE]
    /\ UNCHANGED <<tracking, want, excl, prop, job, task, files, acq, imp, usr>>

SpawnImportTasks(F) ==
    /\ dl.pc = "spawn"
    /\ Arrived(F)
    /\ LET linked == LinkedTo(dl.job) IN
       dl' = [dl EXCEPT !.pc = "file",
                        !.todo = IF linked = {} THEN F ELSE F \cap linked,
                        !.linked = linked # {},
                        !.uncovered = linked \ F]
    /\ UNCHANGED <<tracking, want, excl, prop, job, task, files, acq, imp, usr>>

\* No file matched: not retryable.
SpawnNoFiles ==
    /\ dl.pc = "spawn"
    /\ Fault("nofile")
    /\ Goto("fail")
    /\ UNCHANGED <<tracking, want, excl, prop, job, task, files, acq, imp, usr>>

FileTask(e) ==
    /\ dl.pc = "file" /\ e \in dl.todo
    /\ \E t \in Tasks :
          CreateImportTask(t, dl.job, e, IF dl.linked THEN e ELSE NoWant, FALSE)
    /\ dl' = [dl EXCEPT !.todo = @ \ {e}, !.made = TRUE]
    /\ UNCHANGED <<tracking, want, excl, prop, job, files, acq, imp, usr, budget>>

FileDone ==
    /\ dl.pc = "file" /\ dl.todo = {}
    /\ Goto("uncover")
    /\ UNCHANGED <<tracking, want, excl, prop, job, task, files, acq, imp, usr, budget>>

ReleaseUncovered(w) ==
    /\ dl.pc = "uncover" /\ w \in dl.uncovered
    /\ want' = [want EXCEPT ![w] = ReleaseWantFromGrab(@)]
    /\ dl' = [dl EXCEPT !.pc = "unlink", !.want = w]
    /\ UNCHANGED <<tracking, excl, prop, job, task, files, acq, imp, usr, budget>>

\* Bug: the link of the released want stays.
UnlinkNone ==
    /\ dl.pc = "unlink"
    /\ dl' = [dl EXCEPT !.pc = "uncover", !.want = NoWant,
                        !.uncovered = @ \ {dl.want}]
    /\ UNCHANGED <<tracking, want, excl, prop, job, task, files, acq, imp, usr, budget>>

UnlinkUncovered ==
    /\ dl.pc = "unlink"
    /\ job' = [job EXCEPT ![dl.job].wants = @ \ {dl.want}]
    /\ dl' = [dl EXCEPT !.pc = "uncover", !.want = NoWant,
                        !.uncovered = @ \ {dl.want}]
    /\ UNCHANGED <<tracking, want, excl, prop, task, files, acq, imp, usr, budget>>

UncoverDone ==
    /\ dl.pc = "uncover" /\ dl.uncovered = {}
    /\ IF dl.made THEN dl' = DlIdle ELSE Goto("fail")
    /\ UNCHANGED <<tracking, want, excl, prop, job, task, files, acq, imp, usr, budget>>

-----------------------------------------------------------------------------
(***************************************************************************)
(* handleError.  The ceiling counts the attempts of the snapshot; the      *)
(* retry is written whatever the row has become, so a listing that failed  *)
(* after the row was completed schedules a retry no claim will pick up.    *)
(***************************************************************************)
RetryOrFailJob ==
    IF dl.attempts + 1 >= MaxAttempts
    THEN Goto("fail") /\ UNCHANGED job
    ELSE /\ job' = [job EXCEPT ![dl.job].attempts = @ + 1]
         /\ dl' = DlIdle

ClientError ==
    /\ dl.pc = "process"
    /\ \/ Fault("client") /\ RetryOrFailJob
       \/ Fault("badclient") /\ Goto("fail") /\ UNCHANGED job
    /\ UNCHANGED <<tracking, want, excl, prop, task, files, acq, imp, usr>>

ListError ==
    /\ dl.pc = "spawn"
    /\ Fault("list")
    /\ RetryOrFailJob
    /\ UNCHANGED <<tracking, want, excl, prop, task, files, acq, imp, usr>>

(***************************************************************************)
(* failJobAndRecoverWants: the job, then each linked want, which excludes  *)
(* the release before it goes back to pending.                             *)
(***************************************************************************)
FailJob ==
    /\ dl.pc = "fail"
    /\ SetJobStatus(dl.job, "failed")
    /\ dl' = [dl EXCEPT !.pc = "recover", !.todo = LinkedTo(dl.job)]
    /\ UNCHANGED <<tracking, want, excl, prop, task, files, acq, imp, usr, budget>>

ExcludeRelease(w) ==
    /\ dl.pc = "recover" /\ w \in dl.todo
    /\ excl' = excl \cup {<<w, job[dl.job].release>>}
    /\ dl' = [dl EXCEPT !.pc = "release", !.want = w, !.todo = @ \ {w}]
    /\ UNCHANGED <<tracking, want, prop, job, task, files, acq, imp, usr, budget>>

ReleaseFailed ==
    /\ dl.pc = "release"
    /\ want' = [want EXCEPT ![dl.want] = ReleaseWantFromGrab(@)]
    /\ Goto(IF CanRelease(want[dl.want]) THEN "restamp" ELSE "recover")
    /\ UNCHANGED <<tracking, excl, prop, job, task, files, acq, imp, usr, budget>>

RestampManualHold ==
    /\ dl.pc = "restamp"
    /\ want' = IF AutonomyFor(dl.want) = "manual"
               THEN [want EXCEPT ![dl.want] = SetWantHold(@, "needs_pick")]
               ELSE want
    /\ Goto("recover")
    /\ UNCHANGED <<tracking, excl, prop, job, task, files, acq, imp, usr, budget>>

RecoverDone ==
    /\ dl.pc = "recover" /\ dl.todo = {}
    /\ dl' = DlIdle
    /\ UNCHANGED <<tracking, want, excl, prop, job, task, files, acq, imp, usr, budget>>

-----------------------------------------------------------------------------
\* Everything the worker does of itself once it holds a job.
DlHandle ==
    \/ Enqueue
    \/ \E w \in Wants : MirrorDownloading(w) \/ FileTask(w) \/ ReleaseUncovered(w)
                        \/ ExcludeRelease(w)
    \/ MirrorDone \/ FileDone \/ UnlinkUncovered \/ UncoverDone
    \/ FailJob \/ ReleaseFailed \/ RestampManualHold \/ RecoverDone
    \/ \E F \in SUBSET Wants : SpawnImportTasks(F)

DlStep ==
    \/ \E j \in Jobs : ClaimRunnableDownloadJobs(j)
    \/ PollProgress \/ PollCompleted \/ PollFailed
    \/ SpawnNoFiles \/ ClientError \/ ListError
    \/ DlHandle
=============================================================================
