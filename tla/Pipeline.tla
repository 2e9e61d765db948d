------------------------------ MODULE Pipeline ------------------------------
(***************************************************************************)
(* The acquisition pipeline: the three workers, the operator's requests    *)
(* and restarts of the process, interleaved over the shared tables.        *)
(***************************************************************************)
EXTENDS AcquisitionWorker, DownloadWorker, ImportWorker, OperatorApi

HoldForNewWant(w) ==
    IF StartAutonomy[Segment[w]] = "manual" THEN "needs_pick" ELSE "none"

Init ==
    /\ tracking = [state |-> "active", autonomy |-> StartAutonomy]
    /\ want = [w \in Wants |-> SetWantHold(NewWant, HoldForNewWant(w))]
    /\ excl = {}
    /\ prop = {}
    /\ job = [j \in Jobs |-> NoJobRow]
    /\ task = [t \in Tasks |-> NoTaskRow]
    /\ disk = {}
    /\ filed = {}
    /\ acq = AcqIdle
    /\ dl = DlIdle
    /\ imp = ImpIdle
    /\ usr = UsrIdle
    /\ budget = [ops |-> MaxOps, faults |-> MaxFaults, crashes |-> MaxCrashes]

\* The process stops anywhere and starts again: the tables are what is left.
Crash ==
    /\ budget.crashes > 0
    /\ budget' = [budget EXCEPT !.crashes = @ - 1]
    /\ acq' = AcqIdle
    /\ dl' = DlIdle
    /\ imp' = ImpIdle
    /\ usr' = UsrIdle
    /\ UNCHANGED <<tracking, want, excl, prop, job, task, files>>

Next == AcqStep \/ DlStep \/ ImpStep \/ UsrStep \/ Crash

Spec == Init /\ [][Next]_vars

(***************************************************************************)
(* Each worker loops on a ticker: it reaps and claims what is due, again   *)
(* and again, and handles what it claimed to the end.  A claim competes    *)
(* with the other rows for the place in the batch, and the rows are taken  *)
(* in the order they fell due, so it is strongly fair; so is the report    *)
(* of a download that is polled until it is complete.                      *)
(***************************************************************************)
AcqFairness ==
    /\ WF_vars(AcqHandle)
    /\ \A w \in Wants : SF_vars(Reap(w)) /\ SF_vars(ClaimRunnableWants({w}))

DlFairness ==
    /\ WF_vars(DlHandle)
    /\ \A j \in Jobs : /\ SF_vars(ClaimRunnableDownloadJobs(j))
                       /\ SF_vars(dl.job = j /\ PollCompleted)

ImpFairness ==
    /\ WF_vars(ImpHandle)
    /\ \A t \in Tasks : SF_vars(ClaimRunnableImportTasks(t))

SearchSpec == Spec /\ AcqFairness

\* The download and import workers run; the acquisition worker may not.
FairSpec == Spec /\ DlFairness /\ ImpFairness

-----------------------------------------------------------------------------
Budget == [ops : 0..MaxOps, faults : 0..MaxFaults, crashes : 0..MaxCrashes]

\* The type invariant: every table row, worker record and budget is of its type.
TypeOK ==
    /\ tracking \in [state : {"active", "canceled"},
                     autonomy : [Segments -> Dials]]
    /\ want \in [Wants -> WantRow]
    /\ excl \subseteq Wants \X Releases
    /\ prop \subseteq Proposals
    /\ job \in [Jobs -> JobRow]
    /\ task \in [Tasks -> TaskRow]
    /\ disk \subseteq {Dest[x] : x \in Wants \X Releases}
    /\ filed \subseteq {Dest[x] : x \in Wants \X Releases}
    /\ acq \in AcqState
    /\ dl \in DlState
    /\ imp \in ImpState
    /\ usr \in UsrState
    /\ budget \in Budget

(***************************************************************************)
(* What the workers rely on without checking it: a row refers to rows that *)
(* exist, and a worker's record to the rows it is at work on.              *)
(***************************************************************************)
JobNamed == \A j \in Jobs : job[j].status # "absent" => job[j].release \in Releases

TaskLinked ==
    \A t \in Tasks :
        task[t].status # "absent" =>
            /\ task[t].episode \in Wants
            /\ task[t].job \in Jobs
            /\ job[task[t].job].status # "absent"

AcqHolds ==
    /\ acq.pc # "tick" => acq.want \in Wants
    /\ acq.pc \in {"route", "grab", "propose"} => acq.release \in Releases

DlHolds ==
    /\ dl.pc # "idle" => dl.job \in Jobs /\ job[dl.job].status # "absent"
    /\ dl.pc \in {"unlink", "release", "restamp"} => dl.want \in Wants

UsrHolds == usr.pc = "jobs" => usr.want \in Wants

\* The import worker's task is in the status its step expects, whatever the
\* operator cancels meanwhile.
ImpHolds ==
    imp.pc # "idle" =>
        /\ imp.task \in Tasks
        /\ ThisTask.status = CASE imp.pc = "available" -> "completed"
                               [] imp.pc = "failwant" -> "failed"
                               [] OTHER -> "in_progress"

\* The foreign keys of the tables, and the workers' hold on what they claimed: the
\* row a step writes without a guard is still there, in the status it expects.
Linked == JobNamed /\ TaskLinked /\ AcqHolds /\ DlHolds /\ UsrHolds /\ ImpHolds

-----------------------------------------------------------------------------
(***************************************************************************)
(* Safety.  A property that the code keeps only under some dials, requests *)
(* or failures says so, and is checked in the runs that stay within them.  *)
(***************************************************************************)
HasFile(w) == \E r \in Releases : Dest[<<w, r>>] \in disk

\* A want is reported imported or available only once its file is in the
\* library: the import worker places the file before it commits, whatever is
\* retried, canceled, restarted or taken over meanwhile.
AvailableHasFile ==
    \A w \in Wants : want[w].status \in {"imported", "available"} => HasFile(w)

\* Database and disk agree between two imports: a live file row has
\* its file, though a re-import removes the old file before it places the new.
FiledOnDisk == imp.pc = "idle" => filed \subseteq disk

\* The steps of an import in order: while no re-import replaces a file, a task
\* carries its own episode's want, and is past placing only with its file placed.
FileFirst ==
    /\ \A t \in Tasks :
          task[t].status # "absent" =>
              ~task[t].reimport /\ task[t].want \in {NoWant, task[t].episode}
    /\ imp.pc \in {"commit", "available"} => DestOf(imp.task) \in disk

\* No want is downloaded twice at the same time: the season packs and singles
\* that converge on a want do not both end up with a live job.
OneActiveJobPerWant ==
    \A w \in Wants, i, j \in Jobs :
        i \in ActiveJobsOf(w) /\ j \in ActiveJobsOf(w) => i = j

\* No want is imported twice: of all the releases that a want was ever grabbed
\* for, one at most is imported on its behalf.
SingleImport ==
    \A w \in Wants, t, u \in Tasks :
        task[t].want = w /\ task[u].want = w => t = u

\* A want parked for the operator's decision has a proposal to decide on.
ProposedHasProposal ==
    \A w \in Wants :
        want[w].hold = "proposed" => \E p \in prop : w \in p.wants

\* A want is never attached to a job of a release it has excluded: the release
\* is excluded before the want goes back to pending, and a season pack leaves
\* out the siblings that excluded it.
NoExcludedGrab ==
    [][\A j \in Jobs : \A w \in job'[j].wants \ job[j].wants :
          <<w, job'[j].release>> \notin excl]_vars

\* While its segment is manual a want is never claimed for a search, whatever
\* dial turns, retries, re-arms, cancels and failed downloads came before; only
\* the want a failed job has just released may be, until its hold is restored.
ManualClaimedInWindow ==
    [][\A w \in Wants :
          want[w].status = "pending" /\ want'[w].status = "searching"
          => AutonomyFor(w) # "manual" \/ (dl.pc = "restamp" /\ dl.want = w)]_vars

Revived ==
    \E w \in Wants :
        want[w].status \in TerminalWant /\ want'[w].status # want[w].status

\* An ended want stays ended unless the operator reactivates it: no late step
\* of a worker brings back a want that was canceled under it.
TerminalSticky == [][Revived => Reactivate]_vars

TaskMove ==
    \A t \in Tasks :
        task[t].status # "absent" /\ task'[t].status # task[t].status
        => task'[t].status \in ImportTaskTransitions[task[t].status]

\* An import task moves only along the state machine of machine.go, though the
\* worker's writes of it are unguarded and a cancel may come at any time.
TaskMachine == [][TaskMove]_vars

-----------------------------------------------------------------------------
\* The pipeline implements the life cycle a want is documented to have.
Lifecycle == INSTANCE WantLifecycle
    WITH status <- [w \in Wants |-> want[w].status],
         onDisk <- {w \in Wants : HasFile(w)}

LifecycleSpec == Lifecycle!Spec

-----------------------------------------------------------------------------
(***************************************************************************)
(* Liveness.                                                               *)
(***************************************************************************)
\* A grabbed want does not stay in flight for ever: its file arrives, or its
\* job fails and gives it back, or it ends.
InFlightResolves ==
    \A w \in Wants :
        want[w].status \in InFlight ~> want[w].status \notin InFlight

\* A claimed want is handled or, after a restart, reclaimed.
SearchingResolves ==
    \A w \in Wants : Stale(want[w]) ~> ~Stale(want[w])
=============================================================================
