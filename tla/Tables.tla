------------------------------- MODULE Tables -------------------------------
(***************************************************************************)
(* The PostgreSQL tables the acquisition pipeline shares, for the wants of *)
(* one tracking: a movie, or the episodes of one season.  The tables are   *)
(* the only thing that survives a restart; each worker also has a local    *)
(* record, the rows it claimed and where it is with them, that a crash     *)
(* erases.                                                                 *)
(*                                                                         *)
(* A release stands for an (indexer_id, guid) pair, an episode for the     *)
(* want of that episode.  Ops and Faults say which operator requests and   *)
(* which failures an instance admits, MaxOps, MaxFaults and MaxCrashes how *)
(* many of them in one behaviour; MaxJobs and MaxTasks bound the two       *)
(* tables that grow.                                                       *)
(***************************************************************************)
EXTENDS Naturals, FiniteSets, Wants

CONSTANTS
    Wants,      \* the wants of the tracking
    NoWant,     \* a NULL want_id
    Releases,   \* what the indexers may return
    NoRelease,
    Packs,      \* the releases that are season or multi-episode packs
    Covers,     \* the episodes a release carries
    Better,     \* <<r, q>>: r is of strictly better quality than q
    Segment,    \* "backfill" or "ongoing", stamped on a want at creation
    Dest,       \* the library path of an episode imported from a release
    MediaType,  \* "movie" or "series"
    Dials,      \* the autonomies in use, a subset of Autonomies
    StartAutonomy, \* the autonomy the tracking is created with
    MaxJobs, MaxTasks,
    MaxAttempts,   \* the attempts ceiling of the workers
    Ops, MaxOps, Faults, MaxFaults, MaxCrashes

Segments == {"backfill", "ongoing"}
Autonomies == {"auto", "propose", "manual"}

ASSUME WantsAssumption ==
    /\ NoWant \notin Wants
    /\ NoRelease \notin Releases
    /\ Packs \subseteq Releases
    /\ Covers \in [Releases -> SUBSET Wants]
    /\ \A r \in Releases \ Packs : \E w \in Wants : Covers[r] = {w}
    /\ Better \subseteq Releases \X Releases
    /\ Segment \in [Wants -> Segments]
    /\ Dials \subseteq Autonomies
    /\ StartAutonomy \in [Segments -> Dials]
    /\ MediaType \in {"movie", "series"}

ASSUME BoundsAssumption ==
    /\ MaxJobs \in Nat /\ MaxTasks \in Nat /\ MaxAttempts \in Nat
    /\ MaxOps \in Nat /\ MaxFaults \in Nat /\ MaxCrashes \in Nat

Jobs == 1..MaxJobs
NoJob == 0
Tasks == 1..MaxTasks
NoTask == 0

VARIABLES
    tracking,   \* its state and the autonomy of each segment
    want,       \* the want table
    excl,       \* want_release_exclusion
    prop,       \* proposal, joined with proposal_want
    job,        \* download_job, joined with download_job_want
    task,       \* import_task
    disk,       \* the library paths that hold a file
    filed,      \* the library paths that have a live file row
    acq,        \* the acquisition worker
    dl,         \* the download worker
    imp,        \* the import worker
    usr,        \* a cancel request being served
    budget      \* what is left of MaxOps, MaxFaults and MaxCrashes

vars == <<tracking, want, excl, prop, job, task, disk, filed,
          acq, dl, imp, usr, budget>>

\* The variables grouped by what leaves them alone together.
files == <<disk, filed>>

-----------------------------------------------------------------------------
ActiveJob == {"created", "enqueued", "downloading"}
DeadJob == {"failed", "cancelled"}
JobStatus == ActiveJob \cup DeadJob \cup {"completed"}

JobRow == [status : JobStatus \cup {"absent"},
           release : Releases \cup {NoRelease},
           wants : SUBSET Wants,
           attempts : Nat]

NewJob(r, ws) ==
    [status |-> "created", release |-> r, wants |-> ws, attempts |-> 0]

NoJobRow ==
    [status |-> "absent", release |-> NoRelease, wants |-> {}, attempts |-> 0]

\* Rows are numbered in the order they are inserted.
FreshJob(j) ==
    /\ job[j].status = "absent"
    /\ \A i \in Jobs : i < j => job[i].status # "absent"

\* The rows under the partial unique index on (indexer_id, guid).
Indexed(j) == job[j].status \notin DeadJob \cup {"absent"}

IndexedFor(r) == {j \in Jobs : Indexed(j) /\ job[j].release = r}

\* A write that revives row j would break the index.
IndexConflict(j) == IndexedFor(job[j].release) \ {j} # {}

\* INSERT ... ON CONFLICT DO UPDATE ... RETURNING: the row under the index, a
\* completed one included, or a new one; then the links.  The find half of the
\* pack grab returns the same row whenever there is an active one.
CreateDownloadJob(j, r, ws) ==
    /\ IF IndexedFor(r) # {} THEN j \in IndexedFor(r) ELSE FreshJob(j)
    /\ job' = [job EXCEPT ![j] =
                  IF Indexed(j) THEN [job[j] EXCEPT !.wants = @ \cup ws]
                                ELSE NewJob(r, ws)]

RoomForJob(r) == IndexedFor(r) # {} \/ \E j \in Jobs : FreshJob(j)

ActiveJobsOf(w) ==
    {j \in Jobs : w \in job[j].wants /\ job[j].status \in ActiveJob}

SetJobStatus(j, s) == job' = [job EXCEPT ![j].status = s]

-----------------------------------------------------------------------------
TaskStatus == {"pending", "in_progress", "completed", "failed", "cancelled"}

TaskRow == [status : TaskStatus \cup {"absent"},
            job : Jobs \cup {NoJob},
            episode : Wants \cup {NoWant},
            want : Wants \cup {NoWant},
            reimport : BOOLEAN,
            attempts : Nat]

NoTaskRow ==
    [status |-> "absent", job |-> NoJob, episode |-> NoWant, want |-> NoWant,
     reimport |-> FALSE, attempts |-> 0]

NewTask(j, e, w, re) ==
    [status |-> "pending", job |-> j, episode |-> e, want |-> w,
     reimport |-> re, attempts |-> 0]

FreshTask(t) ==
    /\ task[t].status = "absent"
    /\ \A u \in Tasks : u < t => task[u].status # "absent"

CreateImportTask(t, j, e, w, re) ==
    /\ FreshTask(t)
    /\ task' = [task EXCEPT ![t] = NewTask(j, e, w, re)]

-----------------------------------------------------------------------------
Proposals == [release : Releases, wants : SUBSET Wants]

AutonomyFor(w) == tracking.autonomy[Segment[w]]

\* Rewrites the rows of S, leaving the others.
Update(S, Op(_)) ==
    want' = [w \in Wants |-> IF w \in S THEN Op(want[w]) ELSE want[w]]

\* jobutil.MirrorWant: nothing to do for a NULL want.
MirrorWant(x, s) ==
    want' = [w \in Wants |-> IF w = x THEN MirrorWantStatus(want[w], s) ELSE want[w]]

Fault(f) ==
    /\ f \in Faults
    /\ budget.faults > 0
    /\ budget' = [budget EXCEPT !.faults = @ - 1]

Request(o) ==
    /\ o \in Ops
    /\ budget.ops > 0
    /\ budget' = [budget EXCEPT !.ops = @ - 1]
=============================================================================
