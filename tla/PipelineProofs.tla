--------------------------- MODULE PipelineProofs ---------------------------
(***************************************************************************)
(* Theorems about Pipeline, for every tracking, every set of releases and  *)
(* every bound.                                                            *)
(*                                                                         *)
(* The inductive invariant is IInv: the types of the tables, and Linked,   *)
(* what the workers rely on without checking it.  A step changes a few     *)
(* tables; JobStep and TaskStep say what every step that writes those two  *)
(* tables keeps, so that a worker that holds a row still finds it.  The    *)
(* second half is about what becomes of a want.                            *)
(***************************************************************************)
EXTENDS Pipeline, TLAPS

IInv == TypeOK /\ Linked

\* A job row stays, with its release; a new one has a release.
JobStep ==
    /\ job' \in [Jobs -> JobRow]
    /\ JobNamed'
    /\ \A j \in Jobs : job[j].status # "absent" =>
          job'[j].status # "absent" /\ job'[j].release = job[j].release

\* An import task stays, with what it says; a new one has a job and an episode.
TaskStep ==
    /\ task' \in [Tasks -> TaskRow]
    /\ \A t \in Tasks : task'[t].status # "absent" =>
          /\ task'[t].episode \in Wants
          /\ task'[t].job \in Jobs
          /\ job'[task'[t].job].status # "absent"
    /\ \A t \in Tasks : task[t].status # "absent" =>
          /\ task'[t].status # "absent"
          /\ task'[t].job = task[t].job /\ task'[t].episode = task[t].episode
          /\ task'[t].want = task[t].want /\ task'[t].reimport = task[t].reimport

\* What is shown of every step.
StepOK == IInv' /\ JobStep /\ TaskStep /\ TaskMove

-----------------------------------------------------------------------------
(***************************************************************************)
(* The statements on the tables.                                           *)
(***************************************************************************)
\* The writes of a want row keep its type.
LEMMA WantWrites ==
    ASSUME NEW w \in WantRow
    PROVE  /\ ClaimWant(w) \in WantRow /\ ReclaimStale(w) \in WantRow
           /\ CancelWant(w) \in WantRow /\ ReleaseWantFromGrab(w) \in WantRow
           /\ BackToPending(w) \in WantRow /\ MarkWantFailed(w) \in WantRow
           /\ RearmWant(w) \in WantRow /\ RetryWant(w) \in WantRow
           /\ HoldForSegment(w) \in WantRow /\ ReleaseHeld(w) \in WantRow
           /\ HoldProposed(w) \in WantRow /\ RearmProposed(w) \in WantRow
           /\ Grabbed \in WantRow
           /\ \A s \in WantStatus : MirrorWantStatus(w, s) \in WantRow
           /\ \A h \in Holds : SetWantHold(w, h) \in WantRow
  BY DEF WantRow, WantStatus, Holds, ClaimWant, ReclaimStale, CancelWant,
         ReleaseWantFromGrab, BackToPending, MarkWantFailed, RearmWant, RetryWant,
         HoldForSegment, ReleaseHeld, HoldProposed, RearmProposed, Grabbed, NewWant,
         MirrorWantStatus, SetWantHold

\* A grab by hand, of a movie or of an episode: at most its want is grabbed, and
\* only one it may take over.
LEMMA GrabbedByHand ==
    ASSUME NEW w \in Wants, NEW r \in Releases, GrabManual(w, r)
    PROVE  /\ \E j \in Jobs, S \in SUBSET {w} :
                  /\ CreateDownloadJob(j, r, S)
                  /\ \A v \in S : CanGrabManual(want[v])
                  /\ want' = [v \in Wants |-> IF v \in S THEN Grabbed ELSE want[v]]
           /\ tracking' \in {tracking, [tracking EXCEPT !.state = "active"]}
           /\ Covers[r] = {w}
           /\ Request("manual_grab")
           /\ UNCHANGED <<excl, prop, task, files, acq, dl, imp, usr>>
<1>1. CASE GrabMovie(w, r)
  BY <1>1 DEF GrabManual, GrabMovie, GrabFor
<1>2. CASE GrabEpisode(w, r)
  <2> DEFINE S == {v \in {w} : want[v].status \in Claimable}
  <2>1. S \in SUBSET {w} /\ \A v \in S : CanGrabManual(want[v])
    BY DEF CanGrabManual
  <2>2. PICK j \in Jobs : CreateDownloadJob(j, r, S)
    BY <1>2 DEF GrabEpisode, GrabFor
  <2>3. /\ want' = [v \in Wants |-> IF v \in S THEN Grabbed ELSE want[v]]
        /\ UNCHANGED tracking
    BY <1>2 DEF GrabEpisode, GrabFor
  <2> QED BY <2>1, <2>2, <2>3 DEF GrabManual
<1> QED BY <1>1, <1>2 DEF GrabManual

\* Inserting a job, or joining the one of its release, is a JobStep.
LEMMA CreateJobStep ==
    ASSUME job \in [Jobs -> JobRow], JobNamed,
           NEW j \in Jobs, NEW r \in Releases, NEW ws \in SUBSET Wants,
           CreateDownloadJob(j, r, ws)
    PROVE  JobStep
<1>1. CASE Indexed(j)
  <2>1. job' = [job EXCEPT ![j] = [job[j] EXCEPT !.wants = @ \cup ws]]
    BY <1>1 DEF CreateDownloadJob
  <2> QED BY <1>1, <2>1 DEF JobStep, JobNamed, JobRow
<1>2. CASE ~Indexed(j)
  <2>1. job' = [job EXCEPT ![j] = NewJob(r, ws)]
    BY <1>2 DEF CreateDownloadJob
  <2>2. job[j].status = "absent"
    BY <1>2 DEF CreateDownloadJob, IndexedFor, FreshJob
  <2> QED BY <2>1, <2>2 DEF JobStep, JobNamed, NewJob, JobRow, JobStatus, ActiveJob
<1> QED BY <1>1, <1>2

\* A write of the status of present jobs is a JobStep.
LEMMA JobStatusStep ==
    ASSUME job \in [Jobs -> JobRow], JobNamed,
           NEW S \in SUBSET Jobs, NEW s \in JobStatus,
           \A j \in S : job[j].status # "absent",
           job' = [j \in Jobs |-> IF j \in S THEN [job[j] EXCEPT !.status = s] ELSE job[j]]
    PROVE  JobStep
  BY DEF JobStep, JobNamed, JobRow, JobStatus, ActiveJob, DeadJob

\* Inserting an import task for an existing job is a TaskStep.
LEMMA CreateTaskStep ==
    ASSUME task \in [Tasks -> TaskRow], TaskLinked, UNCHANGED job,
           NEW t \in Tasks, NEW j \in Jobs, job[j].status # "absent",
           NEW e \in Wants, NEW w \in Wants \cup {NoWant}, NEW re \in BOOLEAN,
           CreateImportTask(t, j, e, w, re)
    PROVE  TaskStep
  BY DEF TaskStep, TaskLinked, CreateImportTask, FreshTask, NewTask, TaskRow, TaskStatus

\* Setting the status of tasks that are there is a TaskStep.
LEMMA TaskStatusStep ==
    ASSUME task \in [Tasks -> TaskRow], TaskLinked, JobStep,
           NEW S \in SUBSET Tasks, NEW s \in TaskStatus,
           \A t \in S : task[t].status # "absent",
           task' = [t \in Tasks |-> IF t \in S THEN [task[t] EXCEPT !.status = s] ELSE task[t]]
    PROVE  TaskStep
  BY DEF TaskStep, JobStep, TaskLinked, TaskRow, TaskStatus

\* Steps that leave a table alone.
LEMMA Unwritten ==
    ASSUME IInv
    PROVE  /\ UNCHANGED job => JobStep
           /\ UNCHANGED task /\ JobStep => TaskStep
  BY DEF IInv, TypeOK, Linked, JobNamed, TaskLinked, JobStep, TaskStep

-----------------------------------------------------------------------------
(***************************************************************************)
(* The acquisition worker keeps IInv.                                      *)
(***************************************************************************)
LEMMA AcqFrame ==
    ASSUME IInv,
           want' \in [Wants -> WantRow], prop' \subseteq Proposals, JobStep,
           acq' \in AcqState, AcqHolds', budget' \in Budget,
           UNCHANGED <<tracking, excl, task, files, dl, imp, usr>>
    PROVE  StepOK
<1>1. TypeOK'
  BY DEF IInv, TypeOK, JobStep, files
<1>2. JobNamed' /\ TaskLinked'
  BY DEF IInv, Linked, TypeOK, JobStep, TaskLinked
<1>3. DlHolds' /\ UsrHolds' /\ ImpHolds'
  BY DEF IInv, Linked, JobStep, DlHolds, UsrHolds, ImpHolds, ThisTask
<1>5. TaskStep /\ TaskMove
  BY Unwritten DEF TaskMove
<1> QED BY <1>1, <1>2, <1>3, <1>5 DEF IInv, Linked, StepOK

\* A worker that is done with its want has a record of the right type.
LEMMA AcqNextOK ==
    ASSUME IInv, acq' = AcqNext
    PROVE  acq' \in AcqState /\ AcqHolds'
  BY DEF IInv, TypeOK, AcqNext, AcqState, AcqPc, AcqHolds

\* So has one that starts a want of its batch.
LEMMA StartWantOK ==
    ASSUME IInv, NEW w \in Wants, NEW pc \in AcqPc, NEW r \in Releases \cup {NoRelease},
           NEW S \in SUBSET Wants, pc \in {"route", "grab", "propose"} => r \in Releases,
           StartWant(w, pc, r, S)
    PROVE  acq' \in AcqState /\ AcqHolds'
  BY DEF IInv, TypeOK, StartWant, AcqState, AcqPc, AcqHolds

\* Every step of the acquisition worker.
LEMMA AcqInductive ==
    ASSUME IInv, AcqStep
    PROVE  StepOK
<1> USE Unwritten
<1>1. ASSUME NEW w \in Wants, Reap(w)
      PROVE  StepOK
  <2>1. want' \in [Wants -> WantRow]
    BY <1>1, WantWrites DEF IInv, TypeOK, Reap, Update
  <2> QED BY <1>1, <2>1, AcqFrame DEF Reap, IInv, TypeOK, Linked, AcqHolds
<1>2. ASSUME NEW S \in SUBSET Wants, ClaimRunnableWants(S)
      PROVE  StepOK
  <2>1. want' \in [Wants -> WantRow]
    BY <1>2, WantWrites DEF IInv, TypeOK, ClaimRunnableWants, Update
  <2>2. acq' \in AcqState /\ AcqHolds'
    BY <1>2 DEF IInv, TypeOK, Linked, ClaimRunnableWants, AcqState, AcqHolds
  <2> QED BY <1>2, <2>1, <2>2, AcqFrame DEF ClaimRunnableWants, IInv, TypeOK
<1>3. ASSUME NEW w \in Wants, SkipCovered(w)
      PROVE  StepOK
  <2>1. acq' \in AcqState /\ AcqHolds'
    BY <1>3 DEF IInv, TypeOK, Linked, SkipCovered, AcqState, AcqHolds
  <2> QED BY <1>3, <2>1, AcqFrame DEF SkipCovered, IInv, TypeOK
<1>4. ASSUME NEW w \in Wants, Search(w)
      PROVE  StepOK
  <2>1. PICK s \in (Eligible(w) \ Packs) \cup {NoRelease},
             p \in (Eligible(w) \cap Packs) \cup {NoRelease} :
          IF ChoosePick(s, p) = NoRelease
          THEN StartWant(w, "recheck", NoRelease, {})
          ELSE StartWant(w, "route", ChoosePick(s, p),
                         IF ChoosePick(s, p) \in Packs
                         THEN CoveredWants(ChoosePick(s, p)) ELSE {w})
    BY <1>4 DEF Search
  <2>2. ChoosePick(s, p) \in Releases \cup {NoRelease}
    BY DEF ChoosePick, Eligible
  <2>3. CoveredWants(ChoosePick(s, p)) \in SUBSET Wants
    BY DEF CoveredWants, SeasonSiblings
  <2>4. acq' \in AcqState /\ AcqHolds'
    <3>1. CASE ChoosePick(s, p) = NoRelease
      BY <2>1, <3>1, StartWantOK DEF AcqPc
    <3>2. CASE ChoosePick(s, p) # NoRelease
      BY <2>1, <2>2, <2>3, <3>2, StartWantOK DEF AcqPc
    <3> QED BY <3>1, <3>2
  <2> QED BY <1>4, <2>4, AcqFrame DEF Search, IInv, TypeOK
<1>5. ASSUME NEW w \in Wants, SearchError(w)
      PROVE  StepOK
  <2>1. acq' \in AcqState /\ AcqHolds'
    BY <1>5, StartWantOK DEF SearchError, AcqPc
  <2>2. budget' \in Budget
    BY <1>5, BoundsAssumption DEF SearchError, Fault, IInv, TypeOK, Budget
  <2> QED BY <1>5, <2>1, <2>2, AcqFrame DEF SearchError, IInv, TypeOK
<1>6. ASSUME Route
      PROVE  StepOK
  <2>1. acq' \in AcqState /\ AcqHolds'
    BY <1>6 DEF IInv, TypeOK, Linked, Route, AcqState, AcqPc, AcqHolds
  <2> QED BY <1>6, <2>1, AcqFrame DEF Route, IInv, TypeOK
<1>7. ASSUME GrabSingle
      PROVE  StepOK
  <2>1. CASE CanGrabWant(want[acq.want])
    <3>1. JobStep
      BY <1>7, <2>1, CreateJobStep DEF GrabSingle, IInv, TypeOK, Linked, AcqHolds
    <3>2. want' \in [Wants -> WantRow]
      BY <1>7, <2>1, WantWrites DEF GrabSingle, IInv, TypeOK, Linked, AcqHolds
    <3>3. acq' \in AcqState /\ AcqHolds'
      BY <1>7, <2>1, AcqNextOK DEF GrabSingle
    <3> QED BY <1>7, <3>1, <3>2, <3>3, AcqFrame DEF GrabSingle, IInv, TypeOK
  <2>2. CASE ~CanGrabWant(want[acq.want])
    <3>1. acq' \in AcqState /\ AcqHolds'
      BY <1>7, <2>2 DEF GrabSingle, IInv, TypeOK, Linked, AcqState, AcqPc, AcqHolds
    <3> QED BY <1>7, <2>2, <3>1, AcqFrame DEF GrabSingle, IInv, TypeOK
  <2> QED BY <2>1, <2>2
<1>8. ASSUME GrabPack
      PROVE  StepOK
  <2> DEFINE claimed == ClaimedBy(acq.covered)
  <2>1. claimed \in SUBSET Wants
    BY DEF IInv, TypeOK, AcqState, ClaimedBy
  <2>2. JobStep
    BY <1>8, <2>1, CreateJobStep DEF GrabPack, IInv, TypeOK, Linked, AcqHolds
  <2>3. want' \in [Wants -> WantRow]
    BY <1>8, WantWrites DEF GrabPack, IInv, TypeOK
  <2>4. acq' \in AcqState /\ AcqHolds'
    <3>1. CASE acq.want \in claimed
      BY <1>8, <3>1, AcqNextOK DEF GrabPack
    <3>2. CASE acq.want \notin claimed
      BY <1>8, <3>2 DEF GrabPack, IInv, TypeOK, Linked, AcqState, AcqPc, AcqHolds
    <3> QED BY <3>1, <3>2
  <2> QED BY <1>8, <2>2, <2>3, <2>4, AcqFrame DEF GrabPack, IInv, TypeOK
<1>9. ASSUME ProposeOrSupersede
      PROVE  StepOK
  <2>1. Picked \in Proposals
    BY <1>9 DEF ProposeOrSupersede, Picked, Proposals, IInv, TypeOK, Linked, AcqState, AcqHolds
  <2>2. want' \in [Wants -> WantRow] /\ prop' \subseteq Proposals
    <3>1. CASE CreateProposal
      <4>1. want' \in [Wants -> WantRow]
        BY <3>1, WantWrites DEF CreateProposal, Update, IInv, TypeOK
      <4>2. \A H \in SUBSET Wants : [release |-> acq.release, wants |-> H] \in Proposals
        BY <1>9 DEF ProposeOrSupersede, Proposals, IInv, Linked, AcqHolds
      <4>3. {w \in acq.covered : CanHold(want[w])} \in SUBSET Wants
        BY DEF IInv, TypeOK, AcqState
      <4> QED BY <3>1, <4>1, <4>2, <4>3 DEF CreateProposal, IInv, TypeOK
    <3>2. ASSUME NEW p \in OpenProposals(acq.want), Supersede(p)
          PROVE  want' \in [Wants -> WantRow] /\ prop' \subseteq Proposals
      BY <2>1, <3>2, WantWrites DEF Supersede, IInv, TypeOK
    <3>3. CASE UNCHANGED <<want, prop>>
      BY <3>3 DEF IInv, TypeOK
    <3> QED BY <1>9, <3>1, <3>2, <3>3 DEF ProposeOrSupersede
  <2>3. acq' \in AcqState /\ AcqHolds'
    BY <1>9, AcqNextOK DEF ProposeOrSupersede
  <2> QED BY <1>9, <2>2, <2>3, AcqFrame DEF ProposeOrSupersede, IInv, TypeOK
<1>10. ASSUME Reschedule \/ FailWant
       PROVE  StepOK
  <2>1. want' \in [Wants -> WantRow]
    BY <1>10, WantWrites DEF Reschedule, FailWant, Update, IInv, TypeOK
  <2>2. acq' \in AcqState /\ AcqHolds'
    BY <1>10, AcqNextOK DEF Reschedule, FailWant
  <2> QED BY <1>10, <2>1, <2>2, AcqFrame DEF Reschedule, FailWant, IInv, TypeOK
<1> QED BY <1>1, <1>2, <1>3, <1>4, <1>5, <1>6, <1>7, <1>8, <1>9, <1>10
        DEF AcqStep, AcqHandle

-----------------------------------------------------------------------------
(***************************************************************************)
(* The download worker keeps IInv.                                         *)
(***************************************************************************)
\* A present job in the hands of the worker is what DlHolds asks for.
DlOK == dl' \in DlState /\ DlHolds'

\* A step of the download worker that writes neither tasks nor the record
\* of another process keeps the invariant, if its own record stays good.
LEMMA DlFrame ==
    ASSUME IInv,
           want' \in [Wants -> WantRow], excl' \subseteq Wants \X Releases,
           JobStep, TaskStep,
           \A t \in Tasks : task[t].status # "absent" => task'[t].status = task[t].status,
           DlOK, budget' \in Budget,
           UNCHANGED <<tracking, prop, files, acq, imp, usr>>
    PROVE  StepOK
<1>1. TypeOK'
  BY DEF IInv, TypeOK, JobStep, TaskStep, DlOK, files
<1>2. JobNamed' /\ TaskLinked'
  BY DEF JobStep, TaskStep, TaskLinked
<1>3. ImpHolds'
  BY DEF IInv, TypeOK, Linked, ImpHolds, ThisTask
<1>4. AcqHolds' /\ UsrHolds' /\ DlHolds'
  BY DEF IInv, Linked, AcqHolds, UsrHolds, DlOK
<1>5. TaskMove
  BY DEF TaskMove, ImportTaskTransitions
<1> QED BY <1>1, <1>2, <1>3, <1>4, <1>5 DEF IInv, Linked, StepOK

\* The worker moves on with its job, or lets go of it.
LEMMA DlGoto ==
    ASSUME IInv, JobStep, NEW pc \in DlPc, pc \notin {"unlink", "release", "restamp"},
           dl.pc # "idle", Goto(pc)
    PROVE  DlOK
  BY DEF IInv, TypeOK, Linked, JobStep, Goto, DlState, DlHolds, DlOK

\* The download worker may always drop what it has in hand.
LEMMA DlLetGo ==
    ASSUME dl' = DlIdle
    PROVE  DlOK
  BY DEF DlIdle, DlState, DlPc, JobStatus, ActiveJob, DlHolds, DlOK

\* The job in hand is rewritten: its status, its attempts or its wants.
LEMMA JobInHand ==
    ASSUME IInv, dl.pc # "idle",
           NEW row \in JobRow, row.status # "absent", row.release = job[dl.job].release,
           job' = [job EXCEPT ![dl.job] = row]
    PROVE  JobStep
  BY DEF IInv, TypeOK, Linked, DlHolds, JobNamed, JobStep

\* Writing the status of the job in hand is a JobStep.
LEMMA JobStatusInHand ==
    ASSUME IInv, dl.pc # "idle", NEW s \in JobStatus, SetJobStatus(dl.job, s)
    PROVE  JobStep
<1> DEFINE row == [job[dl.job] EXCEPT !.status = s]
<1>1. job[dl.job] \in JobRow
  BY DEF IInv, TypeOK, Linked, DlHolds
<1>2. row \in JobRow /\ row.status # "absent" /\ row.release = job[dl.job].release
  BY <1>1 DEF JobRow, JobStatus, ActiveJob, DeadJob
<1>3. job' = [job EXCEPT ![dl.job] = row]
  BY DEF SetJobStatus
<1> QED BY <1>2, <1>3, JobInHand

\* So is counting one more attempt of it.
LEMMA JobAttemptInHand ==
    ASSUME IInv, dl.pc # "idle", job' = [job EXCEPT ![dl.job].attempts = @ + 1]
    PROVE  JobStep
<1> DEFINE row == [job[dl.job] EXCEPT !.attempts = @ + 1]
<1>1. job[dl.job] \in JobRow /\ job[dl.job].status # "absent"
  BY DEF IInv, TypeOK, Linked, DlHolds
<1>2. row \in JobRow /\ row.status # "absent" /\ row.release = job[dl.job].release
  BY <1>1 DEF JobRow
<1> QED BY <1>2, JobInHand

\* A fault is taken from the budget.
LEMMA FaultBudget ==
    ASSUME IInv, NEW f, Fault(f)
    PROVE  budget' \in Budget
  BY BoundsAssumption DEF IInv, TypeOK, Fault, Budget

\* So is a request.
LEMMA RequestBudget ==
    ASSUME IInv, NEW o, Request(o)
    PROVE  budget' \in Budget
  BY BoundsAssumption DEF IInv, TypeOK, Request, Budget

\* A failed step of a job either counts an attempt or starts to fail the job.
LEMMA RetryOrFailJobOK ==
    ASSUME IInv, dl.pc # "idle", RetryOrFailJob
    PROVE  JobStep /\ DlOK
<1>1. CASE dl.attempts + 1 >= MaxAttempts
  BY <1>1, DlGoto, Unwritten DEF RetryOrFailJob, DlPc
<1>2. CASE ~(dl.attempts + 1 >= MaxAttempts)
  BY <1>2, JobAttemptInHand, DlLetGo DEF RetryOrFailJob
<1> QED BY <1>1, <1>2

\* What a poll reports is written to the job in hand.
LEMMA PollOK ==
    ASSUME IInv, NEW st \in {"downloading", "completed", "failed"}, Poll(st)
    PROVE  JobStep /\ DlOK
<1>1. dl.pc # "idle"
  BY DEF Poll
<1>2. CASE st \notin DeadJob /\ IndexConflict(dl.job)
  BY <1>1, <1>2, DlGoto, Unwritten DEF Poll, DlPc
<1>3. CASE ~(st \notin DeadJob /\ IndexConflict(dl.job))
  <2>2. JobStep
    BY <1>1, <1>3, JobStatusInHand DEF Poll, JobStatus, ActiveJob, DeadJob
  <2>3. AfterPoll(st) \in {"fail", "spawn", "mirror", "idle"}
    BY DEF AfterPoll
  <2>4. CASE AfterPoll(st) = "idle"
    BY <1>3, <2>2, <2>4, DlLetGo DEF Poll
  <2>5. CASE AfterPoll(st) # "idle"
    <3>1. job[dl.job].wants \in SUBSET Wants
      BY <1>1 DEF IInv, TypeOK, Linked, DlHolds, JobRow
    <3>2. PICK S \in SUBSET Wants : dl' = [dl EXCEPT !.pc = AfterPoll(st), !.todo = S]
      BY <1>3, <2>5, <3>1 DEF Poll
    <3> QED BY <1>1, <2>2, <2>3, <3>2
            DEF IInv, TypeOK, Linked, JobStep, DlState, DlPc, DlHolds, DlOK
  <2> QED BY <2>4, <2>5
<1> QED BY <1>2, <1>3

\* Marking a job row enqueued keeps its type and its release.
LEMMA SetEnqueuedOK ==
    ASSUME NEW row \in JobRow
    PROVE  /\ SetEnqueued(row) \in JobRow
           /\ SetEnqueued(row).status # "absent"
           /\ SetEnqueued(row).release = row.release
<1> DEFINE marked == [row EXCEPT !.status = "enqueued"]
<1>1. marked \in JobRow /\ marked.status = "enqueued" /\ marked.release = row.release
  BY DEF JobRow, JobStatus, ActiveJob
<1>2. SetEnqueued(row) = [marked EXCEPT !.attempts = @ + 1]
  BY DEF SetEnqueued, JobRow
<1> HIDE DEF marked
<1> QED BY <1>1, <1>2 DEF JobRow

\* Every step of the download worker.
LEMMA DlInductive ==
    ASSUME IInv, DlStep
    PROVE  StepOK
<1> USE Unwritten
<1>1. ASSUME NEW j \in Jobs, ClaimRunnableDownloadJobs(j)
      PROVE  StepOK
  <2>1. DlOK
    BY <1>1 DEF IInv, TypeOK, ClaimRunnableDownloadJobs, DlOK, DlIdle, DlState, DlPc, DlHolds,
                JobRow, JobStatus, ActiveJob
  <2> QED BY <1>1, <2>1, DlFrame DEF ClaimRunnableDownloadJobs, IInv, TypeOK
<1>2. ASSUME Enqueue
      PROVE  StepOK
  <2>1. CASE IndexConflict(dl.job)
    <3>1. DlOK
      BY <1>2, <2>1, DlGoto DEF Enqueue, DlPc
    <3> QED BY <1>2, <2>1, <3>1, DlFrame DEF Enqueue, IInv, TypeOK
  <2>2. CASE ~IndexConflict(dl.job)
    <3> DEFINE row == SetEnqueued(job[dl.job])
    <3>1. job[dl.job] \in JobRow
      BY <1>2 DEF Enqueue, IInv, TypeOK, Linked, DlHolds
    <3>2. row \in JobRow /\ row.status # "absent" /\ row.release = job[dl.job].release
      BY <3>1, SetEnqueuedOK
    <3>3. job' = [job EXCEPT ![dl.job] = row]
      BY <1>2, <2>2 DEF Enqueue
    <3>4. JobStep
      BY <1>2, <3>2, <3>3, JobInHand DEF Enqueue
    <3>5. DlOK
      BY <1>2, <2>2, DlLetGo DEF Enqueue
    <3> QED BY <1>2, <3>4, <3>5, DlFrame DEF Enqueue, IInv, TypeOK
  <2> QED BY <2>1, <2>2
<1>3. ASSUME PollProgress \/ PollCompleted \/ PollFailed
      PROVE  StepOK
  <2>1. PICK st \in {"downloading", "completed", "failed"} : Poll(st)
    BY <1>3 DEF PollProgress, PollCompleted, PollFailed
  <2>2. budget' \in Budget
    BY <1>3, FaultBudget DEF PollProgress, PollCompleted, PollFailed, IInv, TypeOK
  <2> QED BY <2>1, <2>2, PollOK, DlFrame DEF Poll, IInv, TypeOK
<1>4. ASSUME NEW w \in Wants, MirrorDownloading(w)
      PROVE  StepOK
  <2>1. want' \in [Wants -> WantRow]
    BY <1>4, WantWrites DEF MirrorDownloading, MirrorWant, IInv, TypeOK, WantStatus
  <2>2. DlOK
    BY <1>4 DEF MirrorDownloading, IInv, TypeOK, Linked, DlState, DlHolds, DlOK
  <2> QED BY <1>4, <2>1, <2>2, DlFrame DEF MirrorDownloading, IInv, TypeOK
<1>5. ASSUME MirrorDone \/ RecoverDone
      PROVE  StepOK
  BY <1>5, DlLetGo, DlFrame DEF MirrorDone, RecoverDone, IInv, TypeOK
<1>6. ASSUME NEW F \in SUBSET Wants, SpawnImportTasks(F)
      PROVE  StepOK
  <2>1. LinkedTo(dl.job) \in SUBSET Wants
    BY <1>6 DEF SpawnImportTasks, LinkedTo, IInv, TypeOK, Linked, DlHolds, JobRow
  <2>2. DlOK
    BY <1>6, <2>1 DEF SpawnImportTasks, IInv, TypeOK, Linked, DlState, DlPc, DlHolds, DlOK
  <2>3. budget' \in Budget
    BY <1>6, FaultBudget DEF SpawnImportTasks, Arrived, IInv, TypeOK
  <2> QED BY <1>6, <2>2, <2>3, DlFrame DEF SpawnImportTasks, IInv, TypeOK
<1>7. ASSUME SpawnNoFiles
      PROVE  StepOK
  <2>1. DlOK
    BY <1>7, DlGoto DEF SpawnNoFiles, DlPc
  <2> QED BY <1>7, <2>1, FaultBudget, DlFrame DEF SpawnNoFiles, IInv, TypeOK
<1>8. ASSUME NEW e \in Wants, FileTask(e)
      PROVE  StepOK
  <2>1. PICK t \in Tasks :
          CreateImportTask(t, dl.job, e, IF dl.linked THEN e ELSE NoWant, FALSE)
    BY <1>8 DEF FileTask
  <2>2. TaskStep
    BY <1>8, <2>1, CreateTaskStep DEF FileTask, IInv, TypeOK, Linked, DlHolds
  <2>3. \A u \in Tasks : task[u].status # "absent" => task'[u].status = task[u].status
    BY <2>1 DEF CreateImportTask, FreshTask, IInv, TypeOK
  <2>4. DlOK
    BY <1>8 DEF FileTask, IInv, TypeOK, Linked, DlState, DlHolds, DlOK
  <2> QED BY <1>8, <2>2, <2>3, <2>4, DlFrame DEF FileTask, IInv, TypeOK
<1>9. ASSUME FileDone
      PROVE  StepOK
  <2>1. DlOK
    BY <1>9, DlGoto DEF FileDone, DlPc
  <2> QED BY <1>9, <2>1, DlFrame DEF FileDone, IInv, TypeOK
<1>10. ASSUME NEW w \in Wants, ReleaseUncovered(w)
       PROVE  StepOK
  <2>1. want' \in [Wants -> WantRow]
    BY <1>10, WantWrites DEF ReleaseUncovered, IInv, TypeOK
  <2>2. DlOK
    BY <1>10 DEF ReleaseUncovered, IInv, TypeOK, Linked, DlState, DlPc, DlHolds, DlOK
  <2> QED BY <1>10, <2>1, <2>2, DlFrame DEF ReleaseUncovered, IInv, TypeOK
<1>11. ASSUME UnlinkUncovered
       PROVE  StepOK
  <2> DEFINE row == [job[dl.job] EXCEPT !.wants = @ \ {dl.want}]
  <2>1. job[dl.job] \in JobRow /\ job[dl.job].status # "absent"
    BY <1>11 DEF UnlinkUncovered, IInv, TypeOK, Linked, DlHolds
  <2>2. row \in JobRow /\ row.status # "absent" /\ row.release = job[dl.job].release
    BY <2>1 DEF JobRow
  <2>3. JobStep
    BY <1>11, <2>2, JobInHand DEF UnlinkUncovered
  <2>4. DlOK
    BY <1>11, <2>3 DEF UnlinkUncovered, IInv, TypeOK, Linked, JobStep, DlState, DlPc, DlHolds, DlOK
  <2> QED BY <1>11, <2>3, <2>4, DlFrame DEF UnlinkUncovered, IInv, TypeOK
<1>12. ASSUME UncoverDone
       PROVE  StepOK
  <2>1. DlOK
    BY <1>12, DlGoto, DlLetGo DEF UncoverDone, DlPc
  <2> QED BY <1>12, <2>1, DlFrame DEF UncoverDone, IInv, TypeOK
<1>13. ASSUME ClientError
       PROVE  StepOK
  <2>1. JobStep /\ DlOK
    BY <1>13, RetryOrFailJobOK, DlGoto DEF ClientError, DlPc
  <2> QED BY <1>13, <2>1, FaultBudget, DlFrame DEF ClientError, IInv, TypeOK
<1>14. ASSUME ListError
       PROVE  StepOK
  <2>1. JobStep /\ DlOK
    BY <1>14, RetryOrFailJobOK DEF ListError
  <2> QED BY <1>14, <2>1, FaultBudget, DlFrame DEF ListError, IInv, TypeOK
<1>15. ASSUME FailJob
       PROVE  StepOK
  <2>1. JobStep
    BY <1>15, JobStatusInHand DEF FailJob, JobStatus, DeadJob
  <2>2. LinkedTo(dl.job) \in SUBSET Wants
    BY <1>15 DEF FailJob, LinkedTo, IInv, TypeOK, Linked, DlHolds, JobRow
  <2>3. DlOK
    BY <1>15, <2>1, <2>2 DEF FailJob, IInv, TypeOK, Linked, JobStep, DlState, DlPc, DlHolds, DlOK
  <2> QED BY <1>15, <2>1, <2>3, DlFrame DEF FailJob, IInv, TypeOK
<1>16. ASSUME NEW w \in Wants, ExcludeRelease(w)
       PROVE  StepOK
  <2>1. excl' \subseteq Wants \X Releases
    BY <1>16 DEF ExcludeRelease, IInv, TypeOK, Linked, DlHolds, JobNamed
  <2>2. DlOK
    BY <1>16 DEF ExcludeRelease, IInv, TypeOK, Linked, DlState, DlPc, DlHolds, DlOK
  <2> QED BY <1>16, <2>1, <2>2, DlFrame DEF ExcludeRelease, IInv, TypeOK
<1>17. ASSUME ReleaseFailed
       PROVE  StepOK
  <2>1. want' \in [Wants -> WantRow]
    BY <1>17, WantWrites DEF ReleaseFailed, IInv, TypeOK, Linked, DlHolds
  <2>2. DlOK
    BY <1>17 DEF ReleaseFailed, Goto, IInv, TypeOK, Linked, DlState, DlPc, DlHolds, DlOK
  <2> QED BY <1>17, <2>1, <2>2, DlFrame DEF ReleaseFailed, IInv, TypeOK
<1>18. ASSUME RestampManualHold
       PROVE  StepOK
  <2>1. want' \in [Wants -> WantRow]
    BY <1>18, WantWrites DEF RestampManualHold, IInv, TypeOK, Linked, DlHolds, Holds
  <2>2. DlOK
    BY <1>18, DlGoto DEF RestampManualHold, DlPc
  <2> QED BY <1>18, <2>1, <2>2, DlFrame DEF RestampManualHold, IInv, TypeOK
<1> QED BY <1>1, <1>2, <1>3, <1>4, <1>5, <1>6, <1>7, <1>8, <1>9, <1>10, <1>11, <1>12,
           <1>13, <1>14, <1>15, <1>16, <1>17, <1>18 DEF DlStep, DlHandle
-----------------------------------------------------------------------------
(***************************************************************************)
(* The import worker keeps IInv.                                           *)
(***************************************************************************)
Library == {Dest[x] : x \in Wants \X Releases}

\* What is left to show of a step of the import worker.
LEMMA ImpFrame ==
    ASSUME IInv,
           want' \in [Wants -> WantRow], TaskStep,
           disk' \subseteq Library, filed' \subseteq Library,
           imp' \in ImpState, ImpHolds', budget' \in Budget, TaskMove,
           UNCHANGED <<tracking, excl, prop, job, acq, dl, usr>>
    PROVE  StepOK
<1>1. TypeOK'
  BY DEF IInv, TypeOK, TaskStep, Library
<1>2. JobNamed' /\ TaskLinked'
  BY DEF IInv, Linked, JobNamed, TaskStep, TaskLinked
<1>3. AcqHolds' /\ UsrHolds' /\ DlHolds'
  BY DEF IInv, Linked, AcqHolds, UsrHolds, DlHolds
<1>5. JobStep
  BY Unwritten
<1> QED BY <1>1, <1>2, <1>3, <1>5 DEF IInv, Linked, StepOK

\* The task in hand exists, and its destination is a library path.
LEMMA TaskInHand ==
    ASSUME IInv, imp.pc # "idle"
    PROVE  /\ imp.task \in Tasks
           /\ task[imp.task] \in TaskRow
           /\ task[imp.task].status # "absent"
           /\ DestOf(imp.task) \in Library
<1>1. imp.task \in Tasks /\ task[imp.task] \in TaskRow /\ task[imp.task].status # "absent"
  BY DEF IInv, TypeOK, Linked, ImpHolds, ThisTask
<1>2. <<task[imp.task].episode, job[task[imp.task].job].release>> \in Wants \X Releases
  BY <1>1 DEF IInv, Linked, TaskLinked, JobNamed
<1> QED BY <1>1, <1>2 DEF DestOf, Library

\* The status of one task is written.
LEMMA TaskStatusWrite ==
    ASSUME IInv, JobStep, NEW t \in Tasks, NEW s \in TaskStatus, task[t].status # "absent",
           task' = [task EXCEPT ![t].status = s]
    PROVE  TaskStep /\ task'[t].status = s
<1>1. task' = [u \in Tasks |-> IF u \in {t} THEN [task[u] EXCEPT !.status = s] ELSE task[u]]
  BY DEF IInv, TypeOK
<1>2. task \in [Tasks -> TaskRow] /\ TaskLinked /\ {t} \in SUBSET Tasks
  BY DEF IInv, TypeOK, Linked
<1>3. \A u \in {t} : task[u].status # "absent"
  OBVIOUS
<1>4. TaskStep
  BY <1>1, <1>2, <1>3, TaskStatusStep
<1> QED BY <1>4 DEF IInv, TypeOK, TaskRow

\* The worker moves on with its task, whose status is the one the step expects.
LEMMA ImpGotoOK ==
    ASSUME IInv, imp.pc # "idle", NEW pc \in ImpPc, ImpGoto(pc),
           task'[imp.task].status = CASE pc = "available" -> "completed"
                                      [] pc = "failwant" -> "failed"
                                      [] OTHER -> "in_progress"
    PROVE  imp' \in ImpState /\ ImpHolds'
<1>1. imp' \in ImpState /\ imp'.pc = pc /\ imp'.task = imp.task
  BY DEF IInv, TypeOK, ImpGoto, ImpState
<1> QED BY <1>1, TaskInHand DEF ImpHolds, ThisTask

\* The worker lets go of its task.
LEMMA ImpLetGo ==
    ASSUME imp' = ImpIdle
    PROVE  imp' \in ImpState /\ ImpHolds'
  BY DEF ImpIdle, ImpState, ImpPc, ImpHolds

\* Mirroring a status onto the want of a task keeps the type of the table.
LEMMA MirrorWantOK ==
    ASSUME IInv, NEW x, NEW s \in WantStatus, MirrorWant(x, s)
    PROVE  want' \in [Wants -> WantRow]
  BY WantWrites DEF IInv, TypeOK, MirrorWant

\* One task moves along the state machine, or none does.
LEMMA TaskMoves ==
    ASSUME IInv
    PROVE  /\ UNCHANGED task => TaskMove
           /\ \A t \in Tasks, s \in TaskStatus :
                 task' = [task EXCEPT ![t].status = s] /\ s \in ImportTaskTransitions[task[t].status]
                 => TaskMove
  BY DEF IInv, TypeOK, TaskMove, TaskRow

\* The status the worker expects of its task allows the write it makes.
LEMMA TaskAdvances ==
    ASSUME IInv, imp.pc \in {"place", "link", "commit", "fail"},
           NEW s \in {"completed", "failed"}, task' = [task EXCEPT ![imp.task].status = s]
    PROVE  TaskMove
<1>1. imp.task \in Tasks /\ task[imp.task].status = "in_progress"
  BY DEF IInv, Linked, ImpHolds, ThisTask
<1>2. s \in TaskStatus /\ s \in ImportTaskTransitions[task[imp.task].status]
  BY <1>1 DEF TaskStatus, ImportTaskTransitions
<1> QED BY <1>1, <1>2, TaskMoves

\* Every step of the import worker.
LEMMA ImpInductive ==
    ASSUME IInv, ImpStep
    PROVE  StepOK
<1> USE Unwritten, TaskMoves
<1>0. disk \subseteq Library /\ filed \subseteq Library /\ want \in [Wants -> WantRow]
      /\ budget \in Budget
  BY DEF IInv, TypeOK, Library
<1>1. ASSUME NEW t \in Tasks, ClaimRunnableImportTasks(t)
      PROVE  StepOK
  <2>1. TaskStep /\ task'[t].status = "in_progress"
    BY <1>1, TaskStatusWrite DEF ClaimRunnableImportTasks, TaskStatus
  <2>3. TaskMove
    <3>1. /\ task' = [task EXCEPT ![t].status = "in_progress"]
          /\ "in_progress" \in ImportTaskTransitions[task[t].status]
      BY <1>1 DEF ClaimRunnableImportTasks, ImportTaskTransitions
    <3> QED BY <3>1 DEF TaskStatus
  <2>2. imp' \in ImpState /\ ImpHolds'
    BY <1>1, <2>1 DEF ClaimRunnableImportTasks, ImpState, ImpPc, ImpHolds, ThisTask
  <2> QED BY <1>0, <1>1, <2>1, <2>2, <2>3, ImpFrame DEF ClaimRunnableImportTasks, files
<1>2. ASSUME DestinationExists \/ RemoveOld \/ Place
      PROVE  StepOK
  <2>1. task'[imp.task].status = "in_progress"
    BY <1>2 DEF DestinationExists, RemoveOld, Place, IInv, Linked, ImpHolds, ThisTask
  <2>2. imp' \in ImpState /\ ImpHolds'
    BY <1>2, <2>1, ImpGotoOK DEF DestinationExists, RemoveOld, Place, ImpPc
  <2>3. disk' \subseteq Library
    BY <1>0, <1>2, TaskInHand DEF DestinationExists, RemoveOld, Place, files
  <2> QED BY <1>0, <1>2, <2>2, <2>3, ImpFrame DEF DestinationExists, RemoveOld, Place, files
<1>3. ASSUME Commit
      PROVE  StepOK
  <2>1. CASE DestOf(imp.task) \in filed
    <3>1. imp' \in ImpState /\ ImpHolds'
      BY <1>3, <2>1, ImpGotoOK DEF Commit, IInv, Linked, ImpHolds, ThisTask, ImpPc
    <3> QED BY <1>0, <1>3, <2>1, <3>1, ImpFrame DEF Commit
  <2>2. CASE DestOf(imp.task) \notin filed
    <3>1. TaskStep /\ task'[imp.task].status = "completed"
      BY <1>3, <2>2, TaskInHand, TaskStatusWrite DEF Commit, TaskStatus
    <3>5. TaskMove
      BY <1>3, <2>2, TaskAdvances DEF Commit
    <3>2. imp' \in ImpState /\ ImpHolds'
      BY <1>3, <2>2, <3>1, ImpGotoOK DEF Commit, ImpPc
    <3>3. want' \in [Wants -> WantRow]
      BY <1>3, <2>2, MirrorWantOK DEF Commit, WantStatus
    <3>4. filed' \subseteq Library
      BY <1>0, <1>3, <2>2, TaskInHand DEF Commit
    <3> QED BY <1>0, <1>3, <3>1, <3>2, <3>3, <3>4, <3>5, ImpFrame DEF Commit
  <2> QED BY <2>1, <2>2
<1>4. ASSUME MirrorAvailable \/ MirrorFailed
      PROVE  StepOK
  <2>1. want' \in [Wants -> WantRow]
    BY <1>4, MirrorWantOK DEF MirrorAvailable, MirrorFailed, WantStatus
  <2> QED BY <1>0, <1>4, <2>1, ImpLetGo, ImpFrame DEF MirrorAvailable, MirrorFailed, files
<1>5. ASSUME ImportError
      PROVE  StepOK
  <2>1. imp.pc # "idle" /\ task[imp.task].status = "in_progress" /\ budget' \in Budget
    BY <1>5, FaultBudget DEF ImportError, IInv, Linked, ImpHolds, ThisTask
  <2>2. CASE ImpGoto("fail") /\ UNCHANGED task
    <3>1. imp' \in ImpState /\ ImpHolds'
      BY <2>1, <2>2, ImpGotoOK DEF ImpPc
    <3> QED BY <1>0, <1>5, <2>1, <2>2, <3>1, ImpFrame DEF ImportError, files
  <2>3. CASE task' = [task EXCEPT ![imp.task].attempts = @ + 1] /\ imp' = ImpIdle
    <3>1. TaskStep
      BY <1>5, <2>3, TaskInHand DEF TaskStep, IInv, TypeOK, Linked, TaskLinked, TaskRow, ImportError
    <3>2. TaskMove
      BY <1>5, <2>3, TaskInHand DEF TaskMove, IInv, TypeOK, TaskRow, ImportError
    <3> QED BY <1>0, <1>5, <2>1, <2>3, <3>1, <3>2, ImpLetGo, ImpFrame DEF ImportError, files
  <2> QED BY <1>5, <2>2, <2>3 DEF ImportError
<1>6. ASSUME SetImportTaskFailed
      PROVE  StepOK
  <2>1. TaskStep /\ task'[imp.task].status = "failed"
    BY <1>6, TaskInHand, TaskStatusWrite DEF SetImportTaskFailed, TaskStatus
  <2>3. TaskMove
    BY <1>6, TaskAdvances DEF SetImportTaskFailed
  <2>2. imp' \in ImpState /\ ImpHolds'
    BY <1>6, <2>1, ImpGotoOK DEF SetImportTaskFailed, ImpPc
  <2> QED BY <1>0, <1>6, <2>1, <2>2, <2>3, ImpFrame DEF SetImportTaskFailed, files
<1> QED BY <1>1, <1>2, <1>3, <1>4, <1>5, <1>6 DEF ImpStep, ImpHandle

-----------------------------------------------------------------------------
(***************************************************************************)
(* The operator's requests keep IInv.                                      *)
(***************************************************************************)
\* A task is left as it is, or canceled before it is claimed.
CancelOnly(t) ==
    \/ task'[t].status = task[t].status
    \/ task[t].status = "pending" /\ task'[t].status = "cancelled"

\* What is left to show of a request: the worker's records are not touched, and
\* the task the import worker holds keeps its status.
LEMMA UsrFrame ==
    ASSUME IInv,
           tracking' \in [state : {"active", "canceled"}, autonomy : [Segments -> Dials]],
           want' \in [Wants -> WantRow], excl' \subseteq Wants \X Releases,
           prop' \subseteq Proposals, JobStep, TaskStep,
           \A t \in Tasks : task[t].status # "absent" => CancelOnly(t),
           usr' \in UsrState, UsrHolds', budget' \in Budget,
           UNCHANGED <<files, acq, dl, imp>>
    PROVE  StepOK
<1>1. TypeOK'
  BY DEF IInv, TypeOK, JobStep, TaskStep, files
<1>2. JobNamed' /\ TaskLinked'
  BY DEF JobStep, TaskStep, TaskLinked
<1>3. AcqHolds' /\ DlHolds'
  BY DEF IInv, Linked, JobStep, AcqHolds, DlHolds
<1>4. ImpHolds'
  BY DEF IInv, TypeOK, Linked, ImpHolds, ThisTask, CancelOnly
<1>5. TaskMove
  BY DEF TaskMove, ImportTaskTransitions, CancelOnly
<1> QED BY <1>1, <1>2, <1>3, <1>4, <1>5 DEF IInv, Linked, StepOK

\* The type of every table, in the form the steps cite it.
LEMMA Types ==
    ASSUME IInv
    PROVE  /\ tracking \in [state : {"active", "canceled"}, autonomy : [Segments -> Dials]]
           /\ want \in [Wants -> WantRow] /\ excl \subseteq Wants \X Releases
           /\ prop \subseteq Proposals /\ job \in [Jobs -> JobRow] /\ JobNamed
           /\ task \in [Tasks -> TaskRow] /\ TaskLinked
           /\ usr \in UsrState /\ UsrHolds /\ budget \in Budget
  BY DEF IInv, TypeOK, Linked

\* Canceling jobs cancels their pending tasks and no other.
LEMMA CancelJobsOK ==
    ASSUME IInv, NEW S \in SUBSET Jobs, \A j \in S : job[j].status # "absent", CancelJobs(S)
    PROVE  /\ JobStep /\ TaskStep
           /\ \A t \in Tasks : CancelOnly(t)
<1>1. JobStep
  BY Types, JobStatusStep DEF CancelJobs, JobStatus, DeadJob
<1> DEFINE T == {t \in Tasks : task[t].job \in S /\ task[t].status = "pending"}
<1>2. task' = [t \in Tasks |-> IF t \in T THEN [task[t] EXCEPT !.status = "cancelled"] ELSE task[t]]
  BY DEF CancelJobs
<1>3. T \in SUBSET Tasks /\ \A t \in T : task[t].status # "absent"
  OBVIOUS
<1>4. TaskStep
  BY <1>1, <1>2, <1>3, Types, TaskStatusStep DEF TaskStatus
<1> QED BY <1>1, <1>2, <1>4 DEF CancelOnly

\* A request served in one step leaves the cancel request being served alone.
LEMMA UsrKept ==
    ASSUME IInv, UNCHANGED usr
    PROVE  usr' \in UsrState /\ UsrHolds'
  BY Types DEF UsrHolds

\* Every request of the operator, and every step of a cancel.
LEMMA UsrInductive ==
    ASSUME IInv, UsrStep
    PROVE  StepOK
<1> USE Unwritten, Types
<1>1. ASSUME NEW w \in Wants, RequestCancelWant(w)
      PROVE  StepOK
  <2>1. usr' \in UsrState /\ UsrHolds'
    BY <1>1 DEF RequestCancelWant, StartCancel, UsrState, UsrHolds
  <2>9. budget' \in Budget
    BY <1>1, RequestBudget DEF RequestCancelWant
  <2> QED BY <1>1, <2>1, <2>9, UsrKept, UsrFrame DEF RequestCancelWant, files, CancelOnly
<1>2. ASSUME RequestCancelTracking
      PROVE  StepOK
  <2>1. usr' \in UsrState /\ UsrHolds'
    BY <1>2 DEF RequestCancelTracking, StartCancel, UsrState, UsrHolds
  <2>9. budget' \in Budget
    BY <1>2, RequestBudget DEF RequestCancelTracking
  <2> QED BY <1>2, <2>1, <2>9, UsrKept, UsrFrame DEF RequestCancelTracking, files, CancelOnly
<1>3. ASSUME NEW w \in Wants, CancelNextWant(w)
      PROVE  StepOK
  <2>1. usr' \in UsrState /\ UsrHolds'
    <3>1. \/ usr' = [usr EXCEPT !.pc = "jobs", !.todo = @ \ {w}, !.want = w]
          \/ usr' = [usr EXCEPT !.todo = @ \ {w}] /\ usr.pc = "want"
          \/ usr' = UsrIdle
      BY <1>3 DEF CancelNextWant
    <3>2. usr \in UsrState /\ usr.todo \ {w} \in SUBSET Wants
      BY DEF UsrState
    <3>3. CASE usr' = [usr EXCEPT !.pc = "jobs", !.todo = @ \ {w}, !.want = w]
      BY <3>2, <3>3 DEF UsrState, UsrHolds
    <3>4. CASE usr' = [usr EXCEPT !.todo = @ \ {w}] /\ usr.pc = "want"
      BY <3>2, <3>4 DEF UsrState, UsrHolds
    <3>5. CASE usr' = UsrIdle
      BY <3>5 DEF UsrState, UsrIdle, UsrHolds
    <3> QED BY <3>1, <3>3, <3>4, <3>5
  <2>2. want' \in [Wants -> WantRow]
    BY <1>3, WantWrites DEF CancelNextWant
  <2>3. tracking' \in [state : {"active", "canceled"}, autonomy : [Segments -> Dials]]
    BY <1>3 DEF CancelNextWant
  <2> QED BY <1>3, <2>1, <2>2, <2>3, UsrFrame DEF CancelNextWant, files, CancelOnly
<1>4. ASSUME CancelJobsOfWant
      PROVE  StepOK
  <2>1. /\ ActiveJobsOf(usr.want) \in SUBSET Jobs
        /\ \A j \in ActiveJobsOf(usr.want) : job[j].status # "absent"
    BY DEF ActiveJobsOf, ActiveJob
  <2>2. /\ JobStep /\ TaskStep
        /\ \A t \in Tasks : CancelOnly(t)
    BY <1>4, <2>1, CancelJobsOK DEF CancelJobsOfWant
  <2>3. usr' \in UsrState /\ UsrHolds'
    BY <1>4 DEF CancelJobsOfWant, UsrState, UsrHolds
  <2> QED BY <1>4, <2>2, <2>3, UsrFrame DEF CancelJobsOfWant, files, CancelOnly
<1>5. ASSUME CancelDone
      PROVE  StepOK
  <2>1. usr' \in UsrState /\ UsrHolds'
    BY <1>5 DEF CancelDone, UsrIdle, UsrState, UsrHolds
  <2>2. tracking' \in [state : {"active", "canceled"}, autonomy : [Segments -> Dials]]
    BY <1>5 DEF CancelDone
  <2> QED BY <1>5, <2>1, <2>2, UsrFrame DEF CancelDone, files, CancelOnly
<1>6. ASSUME NEW a \in [Segments -> Dials], SetAutonomy(a)
      PROVE  StepOK
  <2>1. want' \in [Wants -> WantRow]
    BY <1>6, WantWrites DEF SetAutonomy, ApplyAutonomy
  <2>2. tracking' \in [state : {"active", "canceled"}, autonomy : [Segments -> Dials]]
    BY <1>6 DEF SetAutonomy
  <2>9. budget' \in Budget
    BY <1>6, RequestBudget DEF SetAutonomy
  <2> QED BY <1>6, <2>1, <2>2, <2>9, UsrKept, UsrFrame DEF SetAutonomy, files, CancelOnly
<1>7. ASSUME RetryTracking
      PROVE  StepOK
  <2>1. want' \in [Wants -> WantRow]
    BY <1>7, WantWrites DEF RetryTracking
  <2>2. tracking' \in [state : {"active", "canceled"}, autonomy : [Segments -> Dials]]
    BY <1>7 DEF RetryTracking
  <2>9. budget' \in Budget
    BY <1>7, RequestBudget DEF RetryTracking
  <2> QED BY <1>7, <2>1, <2>2, <2>9, UsrKept, UsrFrame DEF RetryTracking, files, CancelOnly
<1>8. ASSUME NEW w \in Wants, RearmMovieWant(w)
      PROVE  StepOK
  <2>1. want' \in [Wants -> WantRow]
    BY <1>8, WantWrites DEF RearmMovieWant, Holds
  <2>2. tracking' \in [state : {"active", "canceled"}, autonomy : [Segments -> Dials]]
    BY <1>8 DEF RearmMovieWant
  <2>9. budget' \in Budget
    BY <1>8, RequestBudget DEF RearmMovieWant
  <2> QED BY <1>8, <2>1, <2>2, <2>9, UsrKept, UsrFrame DEF RearmMovieWant, files, CancelOnly
<1>9. ASSUME NEW w \in Wants, NEW r \in Releases, GrabManual(w, r)
      PROVE  StepOK
  <2>1. want' \in [Wants -> WantRow]
    BY <1>9, WantWrites, GrabbedByHand
  <2>2. tracking' \in [state : {"active", "canceled"}, autonomy : [Segments -> Dials]]
    BY <1>9, GrabbedByHand
  <2>3. JobStep
    BY <1>9, CreateJobStep, GrabbedByHand
  <2>9. budget' \in Budget
    BY <1>9, RequestBudget, GrabbedByHand
  <2> QED BY <1>9, <2>1, <2>2, <2>3, <2>9, UsrKept, UsrFrame, GrabbedByHand DEF files, CancelOnly
<1>10. ASSUME NEW p \in prop, Approve(p)
       PROVE  StepOK
  <2>1. p.release \in Releases /\ p.wants \in SUBSET Wants
    BY DEF Proposals
  <2>2. CASE ApprovePack(p)
    <3>1. {w \in p.wants : CanGrabForPack(want[w])} \in SUBSET Wants
      BY <2>1
    <3>2. JobStep
      BY <2>1, <2>2, <3>1, CreateJobStep DEF ApprovePack
    <3>3. want' \in [Wants -> WantRow]
      BY <2>2, WantWrites DEF ApprovePack
    <3>9. budget' \in Budget
      BY <1>10, RequestBudget DEF Approve
    <3> QED BY <1>10, <3>2, <3>3, <3>9, UsrKept, UsrFrame DEF Approve, files, CancelOnly
  <2>3. CASE ApproveSingle(p)
    <3>1. JobStep
      BY <2>1, <2>3, CreateJobStep DEF ApproveSingle
    <3>2. want' \in [Wants -> WantRow]
      BY <2>3, WantWrites DEF ApproveSingle
    <3>9. budget' \in Budget
      BY <1>10, RequestBudget DEF Approve
    <3> QED BY <1>10, <3>1, <3>2, <3>9, UsrKept, UsrFrame DEF Approve, files, CancelOnly
  <2> QED BY <1>10, <2>2, <2>3 DEF Approve
<1>11. ASSUME NEW p \in prop, Decline(p)
       PROVE  StepOK
  <2>1. excl' \subseteq Wants \X Releases
    BY <1>11 DEF Decline, Proposals
  <2>2. want' \in [Wants -> WantRow]
    BY <1>11, WantWrites DEF Decline, Update
  <2>9. budget' \in Budget
    BY <1>11, RequestBudget DEF Decline
  <2> QED BY <1>11, <2>1, <2>2, <2>9, UsrKept, UsrFrame DEF Decline, files, CancelOnly
<1>12. ASSUME NEW j \in Jobs, CancelDownloadJob(j)
       PROVE  StepOK
  <2>1. {j} \in SUBSET Jobs /\ \A i \in {j} : job[i].status # "absent"
    BY <1>12 DEF CancelDownloadJob, ActiveJob
  <2>2. /\ JobStep /\ TaskStep
        /\ \A t \in Tasks : CancelOnly(t)
    BY <1>12, <2>1, CancelJobsOK DEF CancelDownloadJob
  <2>9. budget' \in Budget
    BY <1>12, RequestBudget DEF CancelDownloadJob
  <2> QED BY <1>12, <2>2, <2>9, UsrKept, UsrFrame DEF CancelDownloadJob, files, CancelOnly
<1>13. ASSUME NEW j \in Jobs, RetryDownload(j)
       PROVE  StepOK
  <2>1. job[j].release \in Releases /\ job[j].wants \in SUBSET Wants
    BY <1>13 DEF RetryDownload, JobNamed, JobRow
  <2>2. JobStep
    BY <1>13, <2>1, CreateJobStep DEF RetryDownload
  <2>9. budget' \in Budget
    BY <1>13, RequestBudget DEF RetryDownload
  <2> QED BY <1>13, <2>2, <2>9, UsrKept, UsrFrame DEF RetryDownload, files, CancelOnly
<1>14. ASSUME NEW t \in Tasks, CancelImportTask(t)
       PROVE  StepOK
  <2>1. TaskStep
    BY <1>14, TaskStatusWrite DEF CancelImportTask, TaskStatus
  <2>2. \A u \in Tasks : CancelOnly(u)
    BY <1>14 DEF CancelOnly, CancelImportTask
  <2>9. budget' \in Budget
    BY <1>14, RequestBudget DEF CancelImportTask
  <2> QED BY <1>14, <2>1, <2>2, <2>9, UsrKept, UsrFrame DEF CancelImportTask, files, CancelOnly
<1>15. ASSUME NEW t \in Tasks, Reimport(t)
       PROVE  StepOK
  <2>1. PICK u \in Tasks : CreateImportTask(u, task[t].job, task[t].episode, NoWant, TRUE)
    BY <1>15 DEF Reimport
  <2>2. /\ task[t].job \in Jobs /\ job[task[t].job].status # "absent"
        /\ task[t].episode \in Wants
    BY <1>15 DEF Reimport, TaskLinked
  <2>3. TaskStep
    BY <1>15, <2>1, <2>2, CreateTaskStep DEF Reimport
  <2>4. \A v \in Tasks : task[v].status # "absent" => task'[v].status = task[v].status
    BY <2>1 DEF CreateImportTask, FreshTask
  <2>9. budget' \in Budget
    BY <1>15, RequestBudget DEF Reimport
  <2> QED BY <1>15, <2>3, <2>4, <2>9, UsrKept, UsrFrame DEF Reimport, files, CancelOnly
<1> QED BY <1>1, <1>2, <1>3, <1>4, <1>5, <1>6, <1>7, <1>8, <1>9, <1>10, <1>11, <1>12,
           <1>13, <1>14, <1>15 DEF UsrStep, ServeCancel, Reactivate

-----------------------------------------------------------------------------
\* The empty tables and the new wants are of their types and refer to nothing.
LEMMA InitOK ==
    ASSUME Init
    PROVE  IInv
<1>1. tracking \in [state : {"active", "canceled"}, autonomy : [Segments -> Dials]]
  BY WantsAssumption DEF Init
<1>2. want \in [Wants -> WantRow]
  BY DEF Init, SetWantHold, NewWant, HoldForNewWant, WantRow, WantStatus, Holds
<1>3. job \in [Jobs -> JobRow] /\ task \in [Tasks -> TaskRow]
  BY DEF Init, NoJobRow, NoTaskRow, JobRow, TaskRow
<1>4. acq \in AcqState /\ dl \in DlState /\ imp \in ImpState /\ usr \in UsrState
  BY DEF Init, AcqIdle, AcqState, AcqPc, DlIdle, DlState, DlPc, JobStatus, ActiveJob,
         ImpIdle, ImpState, ImpPc, UsrIdle, UsrState
<1>5. budget \in Budget
  BY BoundsAssumption DEF Init, Budget
<1>6. TypeOK
  BY <1>1, <1>2, <1>3, <1>4, <1>5 DEF Init, TypeOK
<1>7. JobNamed /\ TaskLinked
  BY DEF Init, JobNamed, TaskLinked, NoJobRow, NoTaskRow
<1>8. AcqHolds /\ DlHolds /\ UsrHolds /\ ImpHolds
  BY DEF Init, AcqHolds, DlHolds, UsrHolds, ImpHolds, AcqIdle, DlIdle, UsrIdle, ImpIdle
<1> QED BY <1>6, <1>7, <1>8 DEF IInv, Linked

\* A restart keeps the tables and empties the workers' records.
LEMMA CrashOK ==
    ASSUME IInv, Crash
    PROVE  StepOK
<1>1. acq' \in AcqState /\ dl' \in DlState /\ imp' \in ImpState /\ usr' \in UsrState
  BY DEF Crash, AcqIdle, AcqState, AcqPc, DlIdle, DlState, DlPc, JobStatus, ActiveJob,
         ImpIdle, ImpState, ImpPc, UsrIdle, UsrState
<1>2. budget' \in Budget
  BY BoundsAssumption DEF Crash, IInv, TypeOK, Budget
<1>3. TypeOK'
  BY <1>1, <1>2 DEF Crash, IInv, TypeOK, files
<1>4. JobNamed' /\ TaskLinked'
  BY DEF Crash, IInv, Linked, JobNamed, TaskLinked
<1>5. AcqHolds' /\ DlHolds' /\ UsrHolds' /\ ImpHolds'
  BY DEF Crash, AcqHolds, DlHolds, UsrHolds, ImpHolds, AcqIdle, DlIdle, UsrIdle, ImpIdle
<1>6. JobStep /\ TaskStep /\ TaskMove
  BY Unwritten DEF Crash, TaskMove
<1> QED BY <1>3, <1>4, <1>5, <1>6 DEF IInv, Linked, StepOK

\* Every step, of any process, keeps the invariant and the rows.
LEMMA StepKeeps ==
    ASSUME IInv, Next
    PROVE  StepOK
  BY AcqInductive, DlInductive, ImpInductive, UsrInductive, CrashOK DEF Next

\* A stuttering step moves no task and keeps the invariant.
LEMMA StutterKeeps ==
    ASSUME IInv, UNCHANGED vars
    PROVE  IInv' /\ TaskMove
<1>1. TypeOK'
  BY DEF vars, IInv, TypeOK, files
<1>2. Linked'
  BY DEF vars, IInv, Linked, JobNamed, TaskLinked, AcqHolds, DlHolds, UsrHolds, ImpHolds, ThisTask
<1> QED BY <1>1, <1>2 DEF IInv, vars, TaskMove

\* IInv is an invariant of the pipeline.
LEMMA Inductive == Spec => []IInv
<1>1. IInv /\ [Next]_vars => IInv'
  BY StepKeeps, StutterKeeps DEF StepOK
<1> QED BY InitOK, <1>1, PTL DEF Spec

\* Every row of every table, and the record of every worker, keeps its type.
THEOREM TypeCorrect == Spec => []TypeOK
<1>1. IInv => TypeOK
  BY DEF IInv
<1> QED BY Inductive, <1>1, PTL

\* No foreign key dangles, and the row a worker has claimed is still there, in the
\* status its next step expects, whatever the operator and the other workers did
\* since: what the unguarded writes of the workers rely on.
THEOREM NothingDangles == Spec => []Linked
<1>1. IInv => Linked
  BY DEF IInv
<1> QED BY Inductive, <1>1, PTL

\* An import task moves only along the state machine of machine.go: a task that is
\* being imported is never canceled, and a finished one never moves again.
THEOREM TaskMachineHolds == Spec => TaskMachine
<1>1. IInv /\ [Next]_vars => [TaskMove]_vars
  BY StepKeeps DEF StepOK
<1> QED BY Inductive, <1>1, PTL DEF Spec, TaskMachine

-----------------------------------------------------------------------------
(***************************************************************************)
(* What becomes of a want, in five parts: it is imported or available only *)
(* with its file in the library; database and disk agree; once ended it    *)
(* stays ended; the pipeline implements WantLifecycle; and a want of a     *)
(* manual segment is not claimed for a search.                             *)
(***************************************************************************)

(***************************************************************************)
(* A want is imported or available only with its file in the library, for  *)
(* every instance in which no re-import replaces a file.                   *)
(*                                                                         *)
(* The property is not inductive: the import worker mirrors the status two *)
(* steps after it has placed the file, onto the want its task names.  So   *)
(* the invariant, FInv, adds FileFirst: past placing, the file of the task *)
(* is there, and the want of a task is that of its episode.                *)
(***************************************************************************)
FInv == FileFirst /\ AvailableHasFile

Filed == {"imported", "available"}

\* A step reports no want imported or available that was not.
ReportsNone == \A w \in Wants : want'[w].status \in Filed => want[w].status \in Filed

\* A step makes only import tasks of the download worker's kind.
PlainTasks ==
    \A t \in Tasks :
        task[t].status = "absent" /\ task'[t].status # "absent" =>
            ~task'[t].reimport /\ task'[t].want \in {NoWant, task'[t].episode}

-----------------------------------------------------------------------------
\* Of the writes of a want row only the mirror can report it imported or available.
LEMMA WantReports ==
    ASSUME NEW w \in WantRow
    PROVE  /\ ClaimWant(w).status \in Filed => w.status \in Filed
           /\ ReclaimStale(w).status \in Filed => w.status \in Filed
           /\ CancelWant(w).status \in Filed => w.status \in Filed
           /\ ReleaseWantFromGrab(w).status \in Filed => w.status \in Filed
           /\ BackToPending(w).status \in Filed => w.status \in Filed
           /\ MarkWantFailed(w).status \in Filed => w.status \in Filed
           /\ RearmWant(w).status \in Filed => w.status \in Filed
           /\ RetryWant(w).status \in Filed => w.status \in Filed
           /\ HoldForSegment(w).status \in Filed => w.status \in Filed
           /\ ReleaseHeld(w).status \in Filed => w.status \in Filed
           /\ HoldProposed(w).status \in Filed => w.status \in Filed
           /\ RearmProposed(w).status \in Filed => w.status \in Filed
           /\ Grabbed.status \notin Filed
           /\ \A h \in Holds : SetWantHold(w, h).status \in Filed => w.status \in Filed
           /\ \A s \in WantStatus : MirrorWantStatus(w, s).status \in Filed => w.status \in Filed \/ s \in Filed
  BY DEF WantRow, Filed, ClaimWant, ReclaimStale, CancelWant, ReleaseWantFromGrab,
         BackToPending, MarkWantFailed, RearmWant, RetryWant, HoldForSegment, CanHold,
         ReleaseHeld, HoldProposed, RearmProposed, Grabbed, NewWant, SetWantHold,
         MirrorWantStatus

\* A mirror of a status that is neither reports none.
LEMMA MirrorReports ==
    ASSUME IInv, NEW x, NEW s \in WantStatus \ Filed, MirrorWant(x, s)
    PROVE  ReportsNone
  BY WantReports DEF IInv, TypeOK, MirrorWant, ReportsNone

\* A task that is there keeps its destination.
LEMMA DestKept ==
    ASSUME IInv, JobStep, TaskStep, NEW t \in Tasks, task[t].status # "absent"
    PROVE  DestOf(t)' = DestOf(t)
  BY DEF IInv, Linked, TaskLinked, JobStep, TaskStep, DestOf

\* What the steps of the other processes have in common.
LEMMA OthersKeep ==
    ASSUME IInv, FInv, JobStep, TaskStep, ReportsNone, PlainTasks, UNCHANGED disk,
           UNCHANGED imp \/ imp' = ImpIdle
    PROVE  FInv'
<1>1. AvailableHasFile'
  BY DEF FInv, AvailableHasFile, HasFile, ReportsNone, Filed
<1>2. \A t \in Tasks : task'[t].status # "absent" =>
         ~task'[t].reimport /\ task'[t].want \in {NoWant, task'[t].episode}
  BY DEF FInv, FileFirst, TaskStep, PlainTasks
<1>3. ASSUME imp'.pc \in {"commit", "available"}
      PROVE  (DestOf(imp.task) \in disk)'
  <2>1. UNCHANGED imp
    BY <1>3 DEF ImpIdle
  <2>2. DestOf(imp.task) \in disk /\ imp.task \in Tasks /\ task[imp.task].status # "absent"
    BY <1>3, <2>1, TaskInHand DEF FInv, FileFirst
  <2> QED BY <2>1, <2>2, DestKept DEF DestOf
<1> QED BY <1>1, <1>2, <1>3 DEF FInv, FileFirst

-----------------------------------------------------------------------------
\* The acquisition worker neither touches files nor reports a want available.
LEMMA AcqFiles ==
    ASSUME IInv, AcqStep
    PROVE  ReportsNone /\ UNCHANGED <<task, disk, imp>>
<1>1. want \in [Wants -> WantRow]
  BY DEF IInv, TypeOK
<1>2. ASSUME NEW w \in Wants, Reap(w)
      PROVE  ReportsNone /\ UNCHANGED <<task, disk, imp>>
  BY <1>1, <1>2, WantReports DEF Reap, Update, ReportsNone, files
<1>3. ASSUME NEW S \in SUBSET Wants, ClaimRunnableWants(S)
      PROVE  ReportsNone /\ UNCHANGED <<task, disk, imp>>
  BY <1>1, <1>3, WantReports DEF ClaimRunnableWants, Update, ReportsNone, files
<1>4. ASSUME NEW w \in Wants, SkipCovered(w) \/ Search(w) \/ SearchError(w)
      PROVE  ReportsNone /\ UNCHANGED <<task, disk, imp>>
  BY <1>4 DEF SkipCovered, Search, SearchError, ReportsNone, files
<1>5. ASSUME Route
      PROVE  ReportsNone /\ UNCHANGED <<task, disk, imp>>
  BY <1>5 DEF Route, ReportsNone, files
<1>6. ASSUME GrabSingle
      PROVE  ReportsNone /\ UNCHANGED <<task, disk, imp>>
  BY <1>1, <1>6 DEF GrabSingle, Grabbed, Filed, ReportsNone, files
<1>7. ASSUME GrabPack
      PROVE  ReportsNone /\ UNCHANGED <<task, disk, imp>>
  BY <1>1, <1>7 DEF GrabPack, Grabbed, Filed, ReportsNone, files
<1>8. ASSUME ProposeOrSupersede
      PROVE  ReportsNone /\ UNCHANGED <<task, disk, imp>>
  <2>1. ASSUME CreateProposal
        PROVE  ReportsNone
    BY <1>1, <2>1, WantReports DEF CreateProposal, Update, ReportsNone
  <2>2. ASSUME NEW p \in OpenProposals(acq.want), Supersede(p)
        PROVE  ReportsNone
    BY <1>1, <2>2, WantReports DEF Supersede, ReportsNone
  <2>3. UNCHANGED want => ReportsNone
    BY DEF ReportsNone
  <2> QED BY <1>8, <2>1, <2>2, <2>3 DEF ProposeOrSupersede, files
<1>9. ASSUME Reschedule \/ FailWant
      PROVE  ReportsNone /\ UNCHANGED <<task, disk, imp>>
  BY <1>1, <1>9, WantReports DEF Reschedule, FailWant, Update, ReportsNone, files
<1> QED BY <1>2, <1>3, <1>4, <1>5, <1>6, <1>7, <1>8, <1>9 DEF AcqStep, AcqHandle

\* The download worker creates import tasks for the wants their episodes are.
LEMMA DlFiles ==
    ASSUME IInv, DlStep
    PROVE  ReportsNone /\ PlainTasks /\ UNCHANGED <<disk, imp>>
<1>1. want \in [Wants -> WantRow]
  BY DEF IInv, TypeOK
<1>2. ASSUME NEW w \in Wants, MirrorDownloading(w)
      PROVE  ReportsNone /\ UNCHANGED <<task, disk, imp>>
  BY <1>2, MirrorReports DEF MirrorDownloading, WantStatus, Filed, files
<1>3. ASSUME ReleaseFailed \/ RestampManualHold \/ \E w \in Wants : ReleaseUncovered(w)
      PROVE  ReportsNone /\ UNCHANGED <<task, disk, imp>>
  <2>1. ReleaseFailed => ReportsNone
    BY <1>1, WantReports DEF ReleaseFailed, ReportsNone
  <2>2. RestampManualHold => ReportsNone
    BY <1>1, WantReports DEF RestampManualHold, ReportsNone, Holds
  <2>3. \A w \in Wants : ReleaseUncovered(w) => ReportsNone
    BY <1>1, WantReports DEF ReleaseUncovered, ReportsNone
  <2> QED BY <1>3, <2>1, <2>2, <2>3 DEF ReleaseFailed, RestampManualHold, ReleaseUncovered, files
<1>4. ASSUME NEW w \in Wants, FileTask(w)
      PROVE  ReportsNone /\ PlainTasks /\ UNCHANGED <<disk, imp>>
  BY <1>4 DEF FileTask, CreateImportTask, NewTask, ReportsNone, PlainTasks, IInv, TypeOK, files
<1>5. ASSUME NEW j \in Jobs, ClaimRunnableDownloadJobs(j)
      PROVE  UNCHANGED <<want, task, disk, imp>>
  BY <1>5 DEF ClaimRunnableDownloadJobs, files
<1>6. ASSUME \/ \E F \in SUBSET Wants : SpawnImportTasks(F)
             \/ \E w \in Wants : ExcludeRelease(w)
      PROVE  UNCHANGED <<want, task, disk, imp>>
  BY <1>6 DEF SpawnImportTasks, ExcludeRelease, files
<1>7. ASSUME PollProgress \/ PollCompleted \/ PollFailed \/ Enqueue \/ ClientError \/ ListError
             \/ SpawnNoFiles
      PROVE  UNCHANGED <<want, task, disk, imp>>
  BY <1>7 DEF PollProgress, PollCompleted, PollFailed, Poll, Enqueue, ClientError, ListError,
              SpawnNoFiles, files
<1>8. ASSUME MirrorDone \/ FileDone \/ UnlinkUncovered \/ UncoverDone \/ FailJob \/ RecoverDone
      PROVE  UNCHANGED <<want, task, disk, imp>>
  BY <1>8 DEF MirrorDone, FileDone, UnlinkUncovered, UncoverDone, FailJob, RecoverDone, files
<1>9. /\ UNCHANGED want => ReportsNone
      /\ UNCHANGED task => PlainTasks
  BY DEF ReportsNone, PlainTasks
<1> QED BY <1>2, <1>3, <1>4, <1>5, <1>6, <1>7, <1>8, <1>9 DEF DlStep, DlHandle

\* No request but a re-import creates a task or touches a file.
LEMMA UsrFiles ==
    ASSUME IInv, UsrStep, "reimport" \notin Ops
    PROVE  ReportsNone /\ PlainTasks /\ UNCHANGED <<disk, imp>>
<1>1. want \in [Wants -> WantRow]
  BY DEF IInv, TypeOK
<1>2. /\ UNCHANGED want => ReportsNone
      /\ UNCHANGED task => PlainTasks
  BY DEF ReportsNone, PlainTasks
<1>3. ASSUME RequestCancelTracking \/ CancelDone \/ \E w \in Wants : RequestCancelWant(w)
      PROVE  UNCHANGED <<want, task, disk, imp>>
  BY <1>3 DEF RequestCancelTracking, CancelDone, RequestCancelWant, files
<1>4. ASSUME NEW w \in Wants, CancelNextWant(w)
      PROVE  ReportsNone /\ UNCHANGED <<task, disk, imp>>
  BY <1>1, <1>4, WantReports DEF CancelNextWant, ReportsNone, files
<1>5. ASSUME CancelJobsOfWant \/ \E j \in Jobs : CancelDownloadJob(j)
      PROVE  PlainTasks /\ UNCHANGED <<want, disk, imp>>
  BY <1>5 DEF CancelJobsOfWant, CancelDownloadJob, CancelJobs, PlainTasks, files
<1>6. ASSUME NEW a \in [Segments -> Dials], SetAutonomy(a)
      PROVE  ReportsNone /\ UNCHANGED <<task, disk, imp>>
  BY <1>1, <1>6, WantReports DEF SetAutonomy, ApplyAutonomy, ReportsNone, files
<1>7. ASSUME RetryTracking
      PROVE  ReportsNone /\ UNCHANGED <<task, disk, imp>>
  BY <1>1, <1>7, WantWrites, WantReports DEF RetryTracking, ReportsNone, files
<1>8. ASSUME NEW w \in Wants, RearmMovieWant(w)
      PROVE  ReportsNone /\ UNCHANGED <<task, disk, imp>>
  BY <1>1, <1>8, WantWrites, WantReports DEF RearmMovieWant, ReportsNone, Holds, files
<1>9. ASSUME NEW w \in Wants, NEW r \in Releases, GrabManual(w, r)
      PROVE  ReportsNone /\ UNCHANGED <<task, disk, imp>>
  BY <1>1, <1>9, GrabbedByHand DEF Grabbed, Filed, ReportsNone, files
<1>10. ASSUME NEW p \in prop, Approve(p)
       PROVE  ReportsNone /\ UNCHANGED <<task, disk, imp>>
  <2>1. ApprovePack(p) => ReportsNone
    BY <1>1 DEF ApprovePack, Grabbed, Filed, ReportsNone
  <2>2. ApproveSingle(p) => ReportsNone
    BY <1>1 DEF ApproveSingle, Grabbed, Filed, ReportsNone
  <2> QED BY <1>10, <2>1, <2>2 DEF Approve, files
<1>11. ASSUME NEW p \in prop, Decline(p)
       PROVE  ReportsNone /\ UNCHANGED <<task, disk, imp>>
  BY <1>1, <1>11, WantReports DEF Decline, Update, ReportsNone, files
<1>12. ASSUME \/ \E j \in Jobs : RetryDownload(j)
              \/ \E t \in Tasks : CancelImportTask(t)
       PROVE  PlainTasks /\ UNCHANGED <<want, disk, imp>>
  BY <1>12 DEF RetryDownload, CancelImportTask, PlainTasks, IInv, TypeOK, files
<1>13. ASSUME NEW t \in Tasks, Reimport(t)
       PROVE  FALSE
  BY <1>13 DEF Reimport, Request
<1> QED BY <1>2, <1>3, <1>4, <1>5, <1>6, <1>7, <1>8, <1>9, <1>10, <1>11, <1>12, <1>13
        DEF UsrStep, ServeCancel, Reactivate

-----------------------------------------------------------------------------
(***************************************************************************)
(* The import worker: it places before it reports, and never removes.      *)
(***************************************************************************)
\* The task in hand is of the download worker's kind, and its destination is the
\* library path of its episode.
LEMMA PlainTaskInHand ==
    ASSUME IInv, FInv, imp.pc # "idle"
    PROVE  /\ ~ThisTask.reimport
           /\ \A w \in Wants : w = ThisTask.want /\ DestOf(imp.task) \in disk => HasFile(w)
<1>1. /\ imp.task \in Tasks /\ task[imp.task].status # "absent"
      /\ job[task[imp.task].job].release \in Releases
  BY TaskInHand DEF IInv, Linked, TaskLinked, JobNamed
<1>2. ~ThisTask.reimport /\ ThisTask.want \in {NoWant, ThisTask.episode}
  BY <1>1 DEF FInv, FileFirst, ThisTask
<1> QED BY <1>1, <1>2, WantsAssumption DEF HasFile, DestOf, ThisTask

\* A mirror onto the want of the task in hand, once its file is placed.
LEMMA MirrorPlaced ==
    ASSUME IInv, FInv, imp.pc # "idle", DestOf(imp.task) \in disk, UNCHANGED disk,
           NEW s \in WantStatus, MirrorWant(ThisTask.want, s)
    PROVE  AvailableHasFile'
<1>1. ASSUME NEW w \in Wants, want'[w].status \in Filed
      PROVE  HasFile(w)
  <2>1. CASE w = ThisTask.want
    BY <2>1, PlainTaskInHand
  <2>2. CASE w # ThisTask.want
    BY <1>1, <2>2 DEF MirrorWant, Filed, FInv, AvailableHasFile
  <2> QED BY <2>1, <2>2
<1> QED BY <1>1 DEF AvailableHasFile, HasFile, Filed

\* The other half of FInv over a step of the import worker.
LEMMA ImpFileFirst ==
    ASSUME IInv, FInv, ImpStep
    PROVE  FileFirst'
<1>1. StepOK
  BY ImpInductive
<1>2. \A t \in Tasks : task[t].status = "absent" => task'[t].status = "absent"
  BY TaskInHand
  DEF ImpStep, ImpHandle, ClaimRunnableImportTasks, DestinationExists, RemoveOld, Place, Commit,
      MirrorAvailable, ImportError, SetImportTaskFailed, MirrorFailed, IInv, TypeOK
<1>3. \A t \in Tasks : task'[t].status # "absent" =>
         ~task'[t].reimport /\ task'[t].want \in {NoWant, task'[t].episode}
  BY <1>1, <1>2 DEF FInv, FileFirst, StepOK, TaskStep
<1>4. ASSUME imp'.pc \in {"commit", "available"}
      PROVE  (DestOf(imp.task) \in disk)'
  <2>1. (Place \/ Commit) /\ imp.pc # "idle" /\ imp'.task = imp.task
    BY <1>4 DEF ImpStep, ImpHandle, ImpGoto, ClaimRunnableImportTasks, DestinationExists,
                RemoveOld, Place, Commit, MirrorAvailable, ImportError, SetImportTaskFailed,
                MirrorFailed, ImpIdle, IInv, TypeOK, ImpState
  <2>2. DestOf(imp.task)' = DestOf(imp.task)
    BY <1>1, <2>1, TaskInHand, DestKept DEF StepOK, DestOf
  <2>3. DestOf(imp.task) \in disk'
    BY <2>1 DEF Place, Commit, FInv, FileFirst
  <2> QED BY <2>2, <2>3
<1> QED BY <1>3, <1>4 DEF FileFirst

\* The import worker places the file before it reports the want.
LEMMA ImpFiles ==
    ASSUME IInv, FInv, ImpStep
    PROVE  FInv'
<1>1. SUFFICES AvailableHasFile'
  BY ImpFileFirst DEF FInv
<1>2. ASSUME UNCHANGED want, disk \subseteq disk'
      PROVE  AvailableHasFile'
  BY <1>2 DEF FInv, AvailableHasFile, HasFile
<1>3. ASSUME ReportsNone, disk \subseteq disk'
      PROVE  AvailableHasFile'
  BY <1>3 DEF FInv, AvailableHasFile, HasFile, ReportsNone, Filed
<1>4. CASE \/ \E t \in Tasks : ClaimRunnableImportTasks(t)
           \/ ImportError \/ DestinationExists \/ Place \/ SetImportTaskFailed
  BY <1>2, <1>4 DEF ClaimRunnableImportTasks, ImportError, DestinationExists, Place,
                    SetImportTaskFailed, files
<1>5. CASE RemoveOld
  BY <1>5, PlainTaskInHand DEF RemoveOld
<1>6. CASE MirrorFailed
  <2>1. ReportsNone
    BY <1>6, MirrorReports DEF MirrorFailed, WantStatus, Filed
  <2> QED BY <1>3, <1>6, <2>1 DEF MirrorFailed, files
<1>7. CASE Commit
  <2>1. CASE DestOf(imp.task) \in filed
    BY <1>2, <1>7, <2>1 DEF Commit
  <2>2. CASE DestOf(imp.task) \notin filed
    BY <1>7, <2>2, MirrorPlaced DEF Commit, FInv, FileFirst, WantStatus
  <2> QED BY <2>1, <2>2
<1>8. CASE MirrorAvailable
  BY <1>8, MirrorPlaced DEF MirrorAvailable, FInv, FileFirst, WantStatus, files
<1> QED BY <1>4, <1>5, <1>6, <1>7, <1>8 DEF ImpStep, ImpHandle

-----------------------------------------------------------------------------
\* FInv is preserved along with IInv.
LEMMA FilesStep ==
    ASSUME IInv, FInv, Next, "reimport" \notin Ops
    PROVE  FInv'
<1>1. StepOK
  BY StepKeeps
<1>2. UNCHANGED task => PlainTasks
  BY DEF PlainTasks
<1>3. CASE AcqStep
  BY <1>1, <1>2, <1>3, AcqFiles, OthersKeep DEF StepOK
<1>4. CASE DlStep
  BY <1>1, <1>4, DlFiles, OthersKeep DEF StepOK
<1>5. CASE ImpStep
  BY <1>5, ImpFiles
<1>6. CASE UsrStep
  BY <1>1, <1>6, UsrFiles, OthersKeep DEF StepOK
<1>7. CASE Crash
  BY <1>1, <1>2, <1>7, OthersKeep DEF StepOK, Crash, ReportsNone, files
<1> QED BY <1>3, <1>4, <1>5, <1>6, <1>7 DEF Next

\* FInv is an invariant when no re-import is requested.
LEMMA FilesInductive ==
    ASSUME "reimport" \notin Ops
    PROVE  Spec => []FInv
<1>1. Init => FInv
  BY DEF Init, FInv, FileFirst, AvailableHasFile, NoTaskRow, ImpIdle, SetWantHold, NewWant
<1>2. IInv /\ FInv /\ [Next]_vars => FInv'
  <2>1. ASSUME IInv, FInv, UNCHANGED vars
        PROVE  FInv'
    BY <2>1 DEF vars, FInv, FileFirst, AvailableHasFile, HasFile, DestOf
  <2> QED BY <2>1, FilesStep
<1> QED BY Inductive, <1>1, <1>2, PTL DEF Spec

\* Whatever the workers retry, the operator cancels and a restart forgets, a want is
\* imported or available only when its file is in the library, provided no re-import
\* is requested: a re-import removes the file it replaces.
THEOREM AvailableFiled ==
    ASSUME "reimport" \notin Ops
    PROVE  Spec => []AvailableHasFile
<1>1. FInv => AvailableHasFile
  BY DEF FInv
<1> QED BY FilesInductive, <1>1, PTL

-----------------------------------------------------------------------------
(***************************************************************************)
(* Database and disk agree between two imports, for every instance in      *)
(* which no write of an import fails half way and the process does not     *)
(* stop.  The invariant says where they disagree within one: a re-import   *)
(* has removed the old file and not yet placed the new one.                *)
(***************************************************************************)
Replacing ==
    /\ \A d \in filed : d \in disk \/ (imp.pc = "link" /\ d = DestOf(imp.task))
    /\ imp.pc = "commit" => DestOf(imp.task) \in disk

\* No other process touches the library.
LEMMA LibraryKept ==
    ASSUME AcqStep \/ DlStep \/ UsrStep
    PROVE  UNCHANGED <<disk, filed, imp>>
<1>1. AcqStep => UNCHANGED <<disk, filed, imp>>
  BY DEF AcqStep, Reap, SearchError, ClaimRunnableWants, AcqHandle, SkipCovered, Search,
         Route, GrabSingle, GrabPack, ProposeOrSupersede, Reschedule, FailWant, files
<1>2. DlStep => UNCHANGED <<disk, filed, imp>>
  BY DEF DlStep, DlHandle, ClaimRunnableDownloadJobs, PollProgress, PollCompleted,
         PollFailed, Poll, SpawnNoFiles, ClientError, ListError, Enqueue,
         MirrorDownloading, FileTask, ReleaseUncovered, ExcludeRelease, MirrorDone,
         FileDone, UnlinkUncovered, UncoverDone, FailJob, ReleaseFailed,
         RestampManualHold, RecoverDone, SpawnImportTasks, files
<1>3. UsrStep => UNCHANGED <<disk, filed, imp>>
  BY DEF UsrStep, ServeCancel, RequestCancelWant, RequestCancelTracking,
         CancelNextWant, CancelJobsOfWant, CancelDone, Reactivate, RetryTracking,
         RearmMovieWant, GrabManual, SetAutonomy, Approve, Decline, CancelDownloadJob,
         RetryDownload, CancelImportTask, Reimport, files
<1> QED BY <1>1, <1>2, <1>3

\* The import worker, which places what it has removed.
LEMMA ImpReplaces ==
    ASSUME IInv, Replacing, ImpStep, "import" \notin Faults
    PROVE  Replacing'
<1>1. StepOK /\ imp \in ImpState
  BY ImpInductive DEF IInv, TypeOK
<1>2. imp.pc # "idle" /\ imp'.task = imp.task => DestOf(imp.task)' = DestOf(imp.task)
  BY <1>1, TaskInHand, DestKept DEF StepOK, DestOf
<1>3. CASE \E t \in Tasks : ClaimRunnableImportTasks(t)
  BY <1>3 DEF ClaimRunnableImportTasks, files, Replacing
<1>4. CASE ImportError
  <2>1. imp.pc = "place" /\ imp'.pc = "fail" /\ UNCHANGED files
    BY <1>1, <1>4 DEF ImportError, ImpGoto, Fault, ImpState
  <2> QED BY <2>1 DEF Replacing, files
<1>5. CASE DestinationExists \/ SetImportTaskFailed
  <2>1. imp.pc \in {"place", "fail"} /\ imp'.pc \in {"fail", "failwant"} /\ UNCHANGED files
    BY <1>1, <1>5 DEF DestinationExists, SetImportTaskFailed, ImpGoto, ImpState
  <2> QED BY <2>1 DEF Replacing, files
<1>6. CASE RemoveOld
  <2>1. /\ imp.pc = "place" /\ disk' = disk \ {DestOf(imp.task)} /\ UNCHANGED filed
        /\ imp'.pc = "link" /\ imp'.task = imp.task
    BY <1>1, <1>6 DEF RemoveOld, ImpGoto, ImpState
  <2> QED BY <1>2, <2>1 DEF Replacing
<1>7. CASE Place
  <2>1. /\ imp.pc \in {"place", "link"} /\ disk' = disk \cup {DestOf(imp.task)}
        /\ imp'.pc = "commit" /\ imp'.task = imp.task /\ UNCHANGED filed
    BY <1>1, <1>7 DEF Place, ImpGoto, ImpState
  <2> QED BY <1>2, <2>1 DEF Replacing
<1>8. CASE Commit
  <2>1. /\ imp.pc = "commit" /\ imp'.pc \in {"fail", "available"} /\ UNCHANGED disk
        /\ filed' \subseteq filed \cup {DestOf(imp.task)}
    BY <1>1, <1>8 DEF Commit, ImpGoto, ImpState
  <2> QED BY <2>1 DEF Replacing
<1>9. CASE MirrorAvailable \/ MirrorFailed
  <2>1. imp.pc \in {"available", "failwant"} /\ imp'.pc = "idle" /\ UNCHANGED files
    BY <1>9 DEF MirrorAvailable, MirrorFailed, ImpIdle
  <2> QED BY <2>1 DEF Replacing, files
<1> QED BY <1>3, <1>4, <1>5, <1>6, <1>7, <1>8, <1>9 DEF ImpStep, ImpHandle

\* Every live file row has its file between two imports, whatever is re-imported,
\* canceled, retried or taken over, provided no write of an import fails half way and
\* the process does not stop: either would leave a re-import between the removal of the
\* old file and the placing of the new one.
THEOREM FiledStaysOnDisk ==
    ASSUME "import" \notin Faults, MaxCrashes = 0
    PROVE  Spec => []FiledOnDisk
<1>1. Init => Replacing
  BY DEF Init, ImpIdle, Replacing
<1>2. IInv /\ Replacing /\ [Next]_vars => Replacing'
  <2>1. ASSUME IInv, Replacing, AcqStep \/ DlStep \/ UsrStep
        PROVE  Replacing'
    <3>1. UNCHANGED <<disk, filed, imp>> /\ StepOK
      BY <2>1, LibraryKept, StepKeeps DEF Next
    <3>2. imp.pc # "idle" => DestOf(imp.task)' = DestOf(imp.task)
      BY <2>1, <3>1, TaskInHand, DestKept DEF StepOK, DestOf
    <3> QED BY <2>1, <3>1, <3>2 DEF Replacing
  <2>2. ~(IInv /\ Crash)
    BY DEF Crash, IInv, TypeOK, Budget
  <2>3. ASSUME IInv, Replacing, UNCHANGED vars
        PROVE  Replacing'
    BY <2>3 DEF vars, Replacing, DestOf
  <2> QED BY <2>1, <2>2, <2>3, ImpReplaces DEF Next
<1>3. Replacing => FiledOnDisk
  BY DEF Replacing, FiledOnDisk
<1> QED BY Inductive, <1>1, <1>2, <1>3, PTL DEF Spec

-----------------------------------------------------------------------------
(***************************************************************************)
(* An ended want stays ended, for every instance whose dials leave out     *)
(* "propose".                                                              *)
(*                                                                         *)
(* Every statement on a want but one looks at its status before it moves   *)
(* it.  The one is RearmProposedWant, which looks at the hold: so what has *)
(* to be invariant is that nothing calls it, NothingProposed.              *)
(***************************************************************************)
NothingProposed == prop = {} /\ acq.pc # "propose"

-----------------------------------------------------------------------------
\* The statements the workers and the requests that reactivate nothing may run on
\* an ended want leave its status alone.
LEMMA EndedKept ==
    ASSUME NEW w \in WantRow, w.status \in TerminalWant
    PROVE  /\ ~Stale(w) /\ ~Runnable(w) /\ ~CanGrabWant(w) /\ ~CanGrabForPack(w)
           /\ CancelWant(w).status = w.status
           /\ ReleaseWantFromGrab(w).status = w.status
           /\ BackToPending(w).status = w.status
           /\ MarkWantFailed(w).status = w.status
           /\ HoldForSegment(w).status = w.status
           /\ ReleaseHeld(w).status = w.status
           /\ HoldProposed(w).status = w.status
           /\ \A s \in WantStatus : MirrorWantStatus(w, s).status = w.status
           /\ \A h \in Holds : SetWantHold(w, h).status = w.status
  BY DEF WantRow, TerminalWant, Claimable, InFlight, Stale, Runnable, CanGrabWant,
         CanGrabForPack, CancelWant, CanCancelWant, ReleaseWantFromGrab, CanRelease,
         BackToPending, MarkWantFailed, HoldForSegment, CanHold, ReleaseHeld,
         HoldProposed, MirrorWantStatus, SetWantHold

\* A mirror onto whatever want leaves the ended ones alone.
LEMMA MirrorSticky ==
    ASSUME IInv, NEW x, NEW s \in WantStatus, MirrorWant(x, s)
    PROVE  ~Revived
  BY EndedKept DEF IInv, TypeOK, MirrorWant, Revived

\* The acquisition worker, which proposes nothing.
LEMMA AcqSticky ==
    ASSUME IInv, NothingProposed, AcqStep, "propose" \notin Dials
    PROVE  ~Revived /\ NothingProposed'
<1>1. want \in [Wants -> WantRow] /\ tracking.autonomy \in [Segments -> Dials]
  BY DEF IInv, TypeOK
<1>2. ASSUME NEW w \in Wants, Reap(w)
      PROVE  ~Revived /\ UNCHANGED <<prop, acq>>
  BY <1>1, <1>2, EndedKept DEF Reap, Update, Revived
<1>3. ASSUME NEW S \in SUBSET Wants, ClaimRunnableWants(S)
      PROVE  ~Revived /\ UNCHANGED prop /\ acq'.pc = acq.pc
  BY <1>1, <1>3, EndedKept DEF ClaimRunnableWants, Update, Revived, IInv, TypeOK, AcqState
<1>4. ASSUME NEW w \in Wants, SkipCovered(w) \/ Search(w) \/ SearchError(w)
      PROVE  UNCHANGED <<want, prop>> /\ acq'.pc # "propose"
  BY <1>4 DEF SkipCovered, Search, SearchError, StartWant, IInv, TypeOK, AcqState
<1>5. ASSUME Route
      PROVE  UNCHANGED <<want, prop>> /\ acq'.pc # "propose"
  <2>1. AutonomyFor(acq.want) # "propose"
    BY <1>1, <1>5, WantsAssumption
    DEF Route, IInv, Linked, AcqHolds, AutonomyFor
  <2> QED BY <1>5, <2>1 DEF Route, IInv, TypeOK, AcqState
<1>6. ASSUME GrabSingle
      PROVE  ~Revived /\ UNCHANGED prop /\ acq'.pc # "propose"
  <2>1. acq.want \in Wants
    BY <1>6 DEF GrabSingle, IInv, Linked, AcqHolds
  <2> QED BY <1>1, <1>6, <2>1, EndedKept
          DEF GrabSingle, Revived, AcqNext, IInv, TypeOK, AcqState
<1>7. ASSUME GrabPack
      PROVE  ~Revived /\ UNCHANGED prop /\ acq'.pc # "propose"
  BY <1>1, <1>7, EndedKept
  DEF GrabPack, ClaimedBy, Revived, AcqNext, IInv, TypeOK, AcqState
<1>8. ASSUME ProposeOrSupersede
      PROVE  FALSE
  BY <1>8 DEF ProposeOrSupersede, NothingProposed
<1>9. ASSUME Reschedule \/ FailWant
      PROVE  ~Revived /\ UNCHANGED prop /\ acq'.pc # "propose"
  <2>1. Reschedule => ~Revived
    BY <1>1, EndedKept DEF Reschedule, Update, Revived
  <2>2. FailWant => ~Revived
    BY <1>1, EndedKept DEF FailWant, Update, Revived
  <2>3. UNCHANGED prop /\ acq' = AcqNext
    BY <1>9 DEF Reschedule, FailWant
  <2> QED BY <1>9, <2>1, <2>2, <2>3 DEF AcqNext, IInv, TypeOK, AcqState
<1>10. UNCHANGED want => ~Revived
  BY DEF Revived
<1> QED BY <1>2, <1>3, <1>4, <1>5, <1>6, <1>7, <1>8, <1>9, <1>10
        DEF AcqStep, AcqHandle, NothingProposed

\* The download worker releases, restamps and mirrors.
LEMMA DlSticky ==
    ASSUME IInv, DlStep
    PROVE  ~Revived /\ UNCHANGED <<prop, acq>>
<1>1. want \in [Wants -> WantRow]
  BY DEF IInv, TypeOK
<1>2. ASSUME NEW w \in Wants, MirrorDownloading(w)
      PROVE  ~Revived /\ UNCHANGED <<prop, acq>>
  BY <1>2, MirrorSticky DEF MirrorDownloading, WantStatus
<1>3. ASSUME ReleaseFailed \/ RestampManualHold \/ \E w \in Wants : ReleaseUncovered(w)
      PROVE  ~Revived /\ UNCHANGED <<prop, acq>>
  <2>1. ReleaseFailed => ~Revived
    BY <1>1, EndedKept DEF ReleaseFailed, Revived
  <2>2. RestampManualHold => ~Revived
    BY <1>1, EndedKept DEF RestampManualHold, Revived, Holds
  <2>3. \A w \in Wants : ReleaseUncovered(w) => ~Revived
    BY <1>1, EndedKept DEF ReleaseUncovered, Revived
  <2> QED BY <1>3, <2>1, <2>2, <2>3 DEF ReleaseFailed, RestampManualHold, ReleaseUncovered
<1>4. ASSUME \/ \E j \in Jobs : ClaimRunnableDownloadJobs(j)
             \/ \E F \in SUBSET Wants : SpawnImportTasks(F)
             \/ \E w \in Wants : ExcludeRelease(w) \/ FileTask(w)
      PROVE  UNCHANGED <<want, prop, acq>>
  BY <1>4 DEF ClaimRunnableDownloadJobs, SpawnImportTasks, ExcludeRelease, FileTask
<1>5. ASSUME PollProgress \/ PollCompleted \/ PollFailed \/ Enqueue \/ ClientError \/ ListError
             \/ SpawnNoFiles
      PROVE  UNCHANGED <<want, prop, acq>>
  BY <1>5 DEF PollProgress, PollCompleted, PollFailed, Poll, Enqueue, ClientError, ListError,
              SpawnNoFiles
<1>6. ASSUME MirrorDone \/ FileDone \/ UnlinkUncovered \/ UncoverDone \/ FailJob \/ RecoverDone
      PROVE  UNCHANGED <<want, prop, acq>>
  BY <1>6 DEF MirrorDone, FileDone, UnlinkUncovered, UncoverDone, FailJob, RecoverDone
<1>7. UNCHANGED want => ~Revived
  BY DEF Revived
<1> QED BY <1>2, <1>3, <1>4, <1>5, <1>6, <1>7 DEF DlStep, DlHandle

\* The import worker only mirrors.
LEMMA ImpSticky ==
    ASSUME IInv, ImpStep
    PROVE  ~Revived /\ UNCHANGED <<prop, acq>>
<1>1. ASSUME UNCHANGED want
      PROVE  ~Revived
  BY <1>1 DEF Revived
<1>2. CASE Commit
  <2>1. UNCHANGED want \/ MirrorWant(ThisTask.want, "imported")
    BY <1>2 DEF Commit
  <2> QED BY <1>1, <1>2, <2>1, MirrorSticky DEF Commit, WantStatus
<1>3. CASE MirrorAvailable \/ MirrorFailed
  BY <1>3, MirrorSticky DEF MirrorAvailable, MirrorFailed, WantStatus
<1>4. CASE \/ \E t \in Tasks : ClaimRunnableImportTasks(t)
           \/ ImportError \/ DestinationExists \/ RemoveOld \/ Place \/ SetImportTaskFailed
  BY <1>1, <1>4 DEF ClaimRunnableImportTasks, ImportError, DestinationExists, RemoveOld, Place,
                    SetImportTaskFailed
<1> QED BY <1>2, <1>3, <1>4 DEF ImpStep, ImpHandle

\* Of the requests only those that reactivate on purpose revive a want: without
\* proposals there is nothing to approve or to decline.
LEMMA UsrSticky ==
    ASSUME IInv, NothingProposed, UsrStep
    PROVE  (Revived => Reactivate) /\ UNCHANGED <<prop, acq>>
<1>1. want \in [Wants -> WantRow]
  BY DEF IInv, TypeOK
<1>2. UNCHANGED want => ~Revived
  BY DEF Revived
<1>3. ASSUME Reactivate
      PROVE  UNCHANGED <<prop, acq>>
  BY <1>3 DEF Reactivate, RetryTracking, RearmMovieWant, GrabManual
<1>4. ASSUME NEW w \in Wants, CancelNextWant(w)
      PROVE  ~Revived /\ UNCHANGED <<prop, acq>>
  BY <1>1, <1>4, EndedKept DEF CancelNextWant, Revived
<1>5. ASSUME NEW a \in [Segments -> Dials], SetAutonomy(a)
      PROVE  ~Revived /\ UNCHANGED <<prop, acq>>
  BY <1>1, <1>5, EndedKept DEF SetAutonomy, ApplyAutonomy, Revived
<1>6. ASSUME \/ RequestCancelTracking \/ CancelDone \/ CancelJobsOfWant
             \/ \E w \in Wants : RequestCancelWant(w)
             \/ \E j \in Jobs : CancelDownloadJob(j) \/ RetryDownload(j)
             \/ \E t \in Tasks : CancelImportTask(t) \/ Reimport(t)
      PROVE  UNCHANGED <<want, prop, acq>>
  BY <1>6 DEF RequestCancelTracking, CancelDone, CancelJobsOfWant, RequestCancelWant,
              CancelDownloadJob, RetryDownload, CancelImportTask, Reimport
<1> QED BY <1>2, <1>3, <1>4, <1>5, <1>6 DEF UsrStep, ServeCancel, NothingProposed

-----------------------------------------------------------------------------
\* A step keeps what there is to know, and revives no want but on request.
LEMMA StickyStep ==
    ASSUME IInv, NothingProposed, Next, "propose" \notin Dials
    PROVE  (Revived => Reactivate) /\ NothingProposed'
<1>1. UNCHANGED <<prop, acq>> => NothingProposed'
  BY DEF NothingProposed
<1>2. CASE Crash
  BY <1>2 DEF Crash, AcqIdle, NothingProposed, Revived
<1> QED BY <1>1, <1>2, AcqSticky, DlSticky, ImpSticky, UsrSticky DEF Next

\* Where no dial says "propose" nothing is ever proposed.
LEMMA ProposesNothing ==
    ASSUME "propose" \notin Dials
    PROVE  Spec => []NothingProposed
<1>1. Init => NothingProposed
  BY DEF Init, NothingProposed, AcqIdle
<1>2. UNCHANGED vars /\ NothingProposed => NothingProposed'
  BY DEF vars, NothingProposed
<1>3. IInv /\ NothingProposed /\ [Next]_vars => NothingProposed'
  BY <1>2, StickyStep
<1> QED BY <1>1, <1>3, Inductive, PTL DEF Spec

\* Whatever the workers have in hand when a want ends, whatever they retry and a
\* restart forgets, only a retry of the tracking, a re-request or a manual grab
\* brings it back, provided no dial says "propose".
THEOREM EndedStaysEnded ==
    ASSUME "propose" \notin Dials
    PROVE  Spec => TerminalSticky
<1>1. IInv /\ NothingProposed /\ [Next]_vars => [Revived => Reactivate]_vars
  BY StickyStep
<1> QED BY <1>1, ProposesNothing, Inductive, PTL DEF Spec, TerminalSticky

-----------------------------------------------------------------------------
(***************************************************************************)
(* Pipeline implements WantLifecycle, for every instance without proposals *)
(* and re-imports.                                                         *)
(*                                                                         *)
(* The mapping reads the status column and, for onDisk, the wants that     *)
(* have a file.  A step of the pipeline maps to a step of the life cycle   *)
(* when each want moves to a successor of its status (MovesOK) and no file *)
(* goes away; FInv gives the import worker's mirrors their file.           *)
(***************************************************************************)
MovesTo(w, s) == s \in Lifecycle!Successors(want[w].status, HasFile(w))

MovesOK == \A w \in Wants : MovesTo(w, want'[w].status)

\* What the mirrors of a want without its file may write.
Unfiled == {"downloading", "failed"}

-----------------------------------------------------------------------------
\* Each statement on a want moves its status to a successor, file or not.
LEMMA WriteMoves ==
    ASSUME NEW w \in WantRow, NEW f
    PROVE  LET To(s) == s \in Lifecycle!Successors(w.status, f) IN
           /\ To(w.status)
           /\ Runnable(w) => To(ClaimWant(w).status)
           /\ Stale(w) => To(ReclaimStale(w).status)
           /\ CanGrabWant(w) \/ CanGrabForPack(w) \/ CanGrabManual(w) => To(Grabbed.status)
           /\ To(CancelWant(w).status)
           /\ To(ReleaseWantFromGrab(w).status)
           /\ To(BackToPending(w).status)
           /\ To(MarkWantFailed(w).status)
           /\ CanRearm(w) => To(RearmWant(w).status)
           /\ To(RetryWant(w).status)
           /\ To(ReleaseHeld(w).status)
           /\ \A s \in Unfiled : To(MirrorWantStatus(w, s).status)
           /\ f => \A s \in Filed : To(MirrorWantStatus(w, s).status)
  BY DEF WantRow, WantStatus, Lifecycle!Successors, Lifecycle!Ended, TerminalWant, Claimable,
         InFlight, Runnable, ClaimWant, Stale, ReclaimStale, CanGrabWant, CanGrabForPack,
         CanGrabManual, Grabbed, CancelWant, CanCancelWant, ReleaseWantFromGrab, CanRelease,
         BackToPending, MarkWantFailed, CanRearm, RearmWant, RetryWant, ReleaseHeld,
         MirrorWantStatus, Unfiled, Filed

\* A hold moves no status.
LEMMA HoldMoves ==
    ASSUME NEW w \in WantRow
    PROVE  /\ HoldForSegment(w).status = w.status /\ HoldForSegment(w) \in WantRow
           /\ \A h \in Holds : SetWantHold(w, h).status = w.status
  BY WantWrites DEF WantRow, HoldForSegment, CanHold, SetWantHold

\* A step that writes no want moves none.
LEMMA StillMoves ==
    ASSUME IInv, UNCHANGED want
    PROVE  MovesOK
  BY WriteMoves DEF IInv, TypeOK, MovesOK, MovesTo

\* A mirror of a status that needs no file.
LEMMA MirrorMoves ==
    ASSUME IInv, NEW x, NEW s \in Unfiled, MirrorWant(x, s)
    PROVE  MovesOK
  BY WriteMoves DEF IInv, TypeOK, MirrorWant, MovesOK, MovesTo

\* A mirror onto the want of the task in hand, once its file is placed.
LEMMA MirrorFiledMoves ==
    ASSUME IInv, FInv, imp.pc # "idle", DestOf(imp.task) \in disk, NEW s \in Filed,
           MirrorWant(ThisTask.want, s)
    PROVE  MovesOK
<1>1. \A w \in Wants : w = ThisTask.want => HasFile(w)
  BY PlainTaskInHand
<1> QED BY <1>1, WriteMoves DEF IInv, TypeOK, MirrorWant, MovesOK, MovesTo

-----------------------------------------------------------------------------
\* The acquisition worker claims, reclaims, grabs and reschedules.
LEMMA AcqMoves ==
    ASSUME IInv, NothingProposed, AcqStep
    PROVE  MovesOK
<1>1. want \in [Wants -> WantRow]
  BY DEF IInv, TypeOK
<1>2. ASSUME NEW w \in Wants, Reap(w)
      PROVE  MovesOK
  BY <1>1, <1>2, WriteMoves DEF Reap, Update, MovesOK, MovesTo
<1>3. ASSUME NEW S \in SUBSET Wants, ClaimRunnableWants(S)
      PROVE  MovesOK
  BY <1>1, <1>3, WriteMoves DEF ClaimRunnableWants, Update, MovesOK, MovesTo
<1>4. ASSUME Route \/ \E w \in Wants : SkipCovered(w) \/ Search(w) \/ SearchError(w)
      PROVE  MovesOK
  BY <1>4, StillMoves DEF Route, SkipCovered, Search, SearchError
<1>5. ASSUME GrabSingle
      PROVE  MovesOK
  BY <1>1, <1>5, WriteMoves DEF GrabSingle, MovesOK, MovesTo
<1>6. ASSUME GrabPack
      PROVE  MovesOK
  BY <1>1, <1>6, WriteMoves DEF GrabPack, ClaimedBy, MovesOK, MovesTo
<1>7. ASSUME ProposeOrSupersede
      PROVE  FALSE
  BY <1>7 DEF ProposeOrSupersede, NothingProposed
<1>8. ASSUME Reschedule
      PROVE  MovesOK
  BY <1>1, <1>8, WriteMoves DEF Reschedule, Update, MovesOK, MovesTo
<1>9. ASSUME FailWant
      PROVE  MovesOK
  BY <1>1, <1>9, WriteMoves DEF FailWant, Update, MovesOK, MovesTo
<1> QED BY <1>2, <1>3, <1>4, <1>5, <1>6, <1>7, <1>8, <1>9 DEF AcqStep, AcqHandle

\* The download worker mirrors 'downloading' and releases.
LEMMA DlMoves ==
    ASSUME IInv, DlStep
    PROVE  MovesOK
<1>1. want \in [Wants -> WantRow]
  BY DEF IInv, TypeOK
<1>2. ASSUME NEW w \in Wants, MirrorDownloading(w)
      PROVE  MovesOK
  BY <1>2, MirrorMoves DEF MirrorDownloading, Unfiled
<1>3. ASSUME ReleaseFailed \/ \E w \in Wants : ReleaseUncovered(w)
      PROVE  MovesOK
  BY <1>1, <1>3, WriteMoves DEF ReleaseFailed, ReleaseUncovered, MovesOK, MovesTo
<1>4. ASSUME RestampManualHold
      PROVE  MovesOK
  BY <1>1, <1>4, WriteMoves, HoldMoves DEF RestampManualHold, Holds, MovesOK, MovesTo
<1>5. ASSUME \/ \E j \in Jobs : ClaimRunnableDownloadJobs(j)
             \/ \E F \in SUBSET Wants : SpawnImportTasks(F)
             \/ \E w \in Wants : ExcludeRelease(w) \/ FileTask(w)
      PROVE  UNCHANGED want
  BY <1>5 DEF ClaimRunnableDownloadJobs, SpawnImportTasks, ExcludeRelease, FileTask
<1>6. ASSUME PollProgress \/ PollCompleted \/ PollFailed \/ Enqueue \/ ClientError \/ ListError
             \/ SpawnNoFiles
      PROVE  UNCHANGED want
  BY <1>6 DEF PollProgress, PollCompleted, PollFailed, Poll, Enqueue, ClientError, ListError,
              SpawnNoFiles
<1>7. ASSUME MirrorDone \/ FileDone \/ UnlinkUncovered \/ UncoverDone \/ FailJob \/ RecoverDone
      PROVE  UNCHANGED want
  BY <1>7 DEF MirrorDone, FileDone, UnlinkUncovered, UncoverDone, FailJob, RecoverDone
<1> QED BY <1>2, <1>3, <1>4, <1>5, <1>6, <1>7, StillMoves DEF DlStep, DlHandle

\* The import worker mirrors 'imported' and 'available' with the file placed.
LEMMA ImpMoves ==
    ASSUME IInv, FInv, ImpStep
    PROVE  MovesOK
<1>1. CASE Commit
  <2>1. CASE UNCHANGED want
    BY <2>1, StillMoves
  <2>2. CASE MirrorWant(ThisTask.want, "imported")
    BY <1>1, <2>2, MirrorFiledMoves DEF Commit, FInv, FileFirst, Filed
  <2> QED BY <1>1, <2>1, <2>2 DEF Commit
<1>2. CASE MirrorAvailable
  BY <1>2, MirrorFiledMoves DEF MirrorAvailable, FInv, FileFirst, Filed
<1>3. CASE MirrorFailed
  BY <1>3, MirrorMoves DEF MirrorFailed, Unfiled
<1>4. CASE \/ \E t \in Tasks : ClaimRunnableImportTasks(t)
           \/ ImportError \/ DestinationExists \/ RemoveOld \/ Place \/ SetImportTaskFailed
  BY <1>4, StillMoves DEF ClaimRunnableImportTasks, ImportError, DestinationExists, RemoveOld,
                          Place, SetImportTaskFailed
<1> QED BY <1>1, <1>2, <1>3, <1>4 DEF ImpStep, ImpHandle

\* The operator's requests.
LEMMA UsrMoves ==
    ASSUME IInv, NothingProposed, UsrStep
    PROVE  MovesOK
<1>1. want \in [Wants -> WantRow]
  BY DEF IInv, TypeOK
<1>2. ASSUME NEW w \in Wants, CancelNextWant(w)
      PROVE  MovesOK
  BY <1>1, <1>2, WriteMoves DEF CancelNextWant, MovesOK, MovesTo
<1>3. ASSUME NEW a \in [Segments -> Dials], SetAutonomy(a)
      PROVE  MovesOK
  BY <1>1, <1>3, WriteMoves, HoldMoves DEF SetAutonomy, ApplyAutonomy, MovesOK, MovesTo
<1>4. ASSUME RetryTracking
      PROVE  MovesOK
  BY <1>1, <1>4, WriteMoves, WantWrites, HoldMoves DEF RetryTracking, MovesOK, MovesTo
<1>5. ASSUME NEW w \in Wants, RearmMovieWant(w)
      PROVE  MovesOK
  <2>1. want'[w].status = RearmWant(want[w]).status /\ CanRearm(want[w])
    BY <1>1, <1>5, WantWrites, HoldMoves DEF RearmMovieWant, Holds
  <2>2. \A v \in Wants \ {w} : want'[v] = want[v]
    BY <1>5 DEF RearmMovieWant
  <2> QED BY <1>1, <2>1, <2>2, WriteMoves DEF MovesOK, MovesTo
<1>6. ASSUME NEW w \in Wants, NEW r \in Releases, GrabManual(w, r)
      PROVE  MovesOK
  <2>1. PICK S \in SUBSET {w} :
            /\ \A v \in S : CanGrabManual(want[v])
            /\ want' = [v \in Wants |-> IF v \in S THEN Grabbed ELSE want[v]]
    BY <1>6, GrabbedByHand
  <2>2. ASSUME NEW v \in Wants
        PROVE  MovesTo(v, want'[v].status)
    BY <1>1, <2>1, WriteMoves DEF MovesTo
  <2> QED BY <2>2 DEF MovesOK
<1>7. ASSUME \/ RequestCancelTracking \/ CancelDone \/ CancelJobsOfWant
             \/ \E w \in Wants : RequestCancelWant(w)
             \/ \E j \in Jobs : CancelDownloadJob(j) \/ RetryDownload(j)
             \/ \E t \in Tasks : CancelImportTask(t) \/ Reimport(t)
      PROVE  UNCHANGED want
  BY <1>7 DEF RequestCancelTracking, CancelDone, CancelJobsOfWant, RequestCancelWant,
              CancelDownloadJob, RetryDownload, CancelImportTask, Reimport
<1> QED BY <1>2, <1>3, <1>4, <1>5, <1>6, <1>7, StillMoves
        DEF UsrStep, ServeCancel, Reactivate, NothingProposed

-----------------------------------------------------------------------------
\* Without re-imports no step takes a file away.
LEMMA FilesStay ==
    ASSUME IInv, FInv, Next, "reimport" \notin Ops
    PROVE  disk \subseteq disk'
<1>1. CASE AcqStep
  BY <1>1, AcqFiles
<1>2. CASE DlStep
  BY <1>2, DlFiles
<1>3. CASE ImpStep
  <2>1. CASE RemoveOld
    BY <2>1, PlainTaskInHand DEF RemoveOld
  <2> QED BY <1>3, <2>1
          DEF ImpStep, ImpHandle, ClaimRunnableImportTasks, DestinationExists, Place, Commit,
              MirrorAvailable, ImportError, SetImportTaskFailed, MirrorFailed, files
<1>4. CASE UsrStep
  BY <1>4, UsrFiles
<1>5. CASE Crash
  BY <1>5 DEF Crash, files
<1> QED BY <1>1, <1>2, <1>3, <1>4, <1>5 DEF Next

\* Every step of the pipeline maps to a step of the life cycle.
LEMMA StepMaps ==
    ASSUME IInv, FInv, NothingProposed, Next, "reimport" \notin Ops
    PROVE  Lifecycle!Next
<1>1. MovesOK
  BY AcqMoves, DlMoves, ImpMoves, UsrMoves, StillMoves DEF Next, Crash
<1>2. disk \subseteq disk'
  BY FilesStay
<1>3. \A w \in Wants :
         [v \in Wants |-> want[v].status]'[w]
         \in Lifecycle!Successors([v \in Wants |-> want[v].status][w],
                                  w \in {v \in Wants : HasFile(v)})
  BY <1>1 DEF MovesOK, MovesTo, HasFile, Lifecycle!Successors
<1>4. {w \in Wants : HasFile(w)} \subseteq {w \in Wants : HasFile(w)}'
  BY <1>2 DEF HasFile
<1> QED BY <1>3, <1>4 DEF Lifecycle!Next

\* A want goes through the life cycle of WantLifecycle, whatever the workers, the
\* operator, failures and restarts do, when nothing is proposed or imported again: it is
\* grabbed only while nothing carries it, reported only with its file, and final once
\* available.
THEOREM PipelineImplementsLifecycle ==
    ASSUME "propose" \notin Dials, "reimport" \notin Ops
    PROVE  Spec => LifecycleSpec
<1>1. Init => Lifecycle!Init
  BY DEF Init, Lifecycle!Init, SetWantHold, NewWant, HasFile
<1>2. IInv /\ FInv /\ NothingProposed /\ [Next]_vars
      => [Lifecycle!Next]_<<[w \in Wants |-> want[w].status], {w \in Wants : HasFile(w)}>>
  <2>1. UNCHANGED vars
        => UNCHANGED <<[w \in Wants |-> want[w].status], {w \in Wants : HasFile(w)}>>
    BY DEF vars, HasFile
  <2> QED BY <2>1, StepMaps
<1>3. Spec => []FInv
  BY FilesInductive
<1>4. Spec => []NothingProposed
  BY ProposesNothing
<1> QED BY <1>1, <1>2, <1>3, <1>4, Inductive, PTL DEF Spec, LifecycleSpec, Lifecycle!Spec

-----------------------------------------------------------------------------
(***************************************************************************)
(* A want of a manual segment is not claimed, for every instance in which  *)
(* nothing is proposed, every file of a pack arrives and the process does  *)
(* not stop.                                                               *)
(*                                                                         *)
(* A claim looks at the hold alone, so the invariant is ManualHeld: who    *)
(* makes a want of a manual segment claimable has put the hold on it, and  *)
(* the download worker does it one step late.  The worker does not when it *)
(* releases a want no file of the pack matched, so the invariant adds that *)
(* there is none: a job carries only wants its release covers.             *)
(***************************************************************************)
Open(w) == w.status \in Claimable /\ w.hold = "none"

ManualHeld ==
    \A w \in Wants :
        Open(want[w]) /\ AutonomyFor(w) = "manual" => dl.pc = "restamp" /\ dl.want = w

JobsCovered ==
    \A j \in Jobs : job[j].status # "absent" => job[j].wants \subseteq Covers[job[j].release]

PickCovers ==
    acq.pc \in {"route", "grab"} =>
        acq.want \in Covers[acq.release] /\ acq.covered \subseteq Covers[acq.release]

AllMatched == JobsCovered /\ PickCovers /\ dl.uncovered = {}

\* A step opens no want to a claim.
OpensNone == \A w \in Wants : Open(want'[w]) => Open(want[w])

\* The statements on a want that open none; a release does.
LEMMA OpensNot ==
    ASSUME NEW w \in WantRow
    PROVE  /\ Open(ReclaimStale(w)) => w.hold = "none"
           /\ Open(ClaimWant(w)) => w.hold = "none"
           /\ ~Open(Grabbed)
           /\ Open(CancelWant(w)) => Open(w)
           /\ Open(BackToPending(w)) => Open(w)
           /\ Open(MarkWantFailed(w)) => Open(w)
           /\ ~Open(HoldForSegment(w))
           /\ ~Open(SetWantHold(w, "needs_pick"))
           /\ Open(ReleaseWantFromGrab(w)) => Open(w) \/ CanRelease(w)
           /\ \A s \in WantStatus \ Claimable : Open(MirrorWantStatus(w, s)) => Open(w)
  BY DEF WantRow, Open, Claimable, ReclaimStale, ClaimWant, Grabbed, CancelWant, CanCancelWant,
         BackToPending, MarkWantFailed, HoldForSegment, CanHold, SetWantHold,
         ReleaseWantFromGrab, CanRelease, MirrorWantStatus

LEMMA MirrorOpens ==
    ASSUME IInv, NEW x, NEW s \in WantStatus \ Claimable, MirrorWant(x, s)
    PROVE  OpensNone
  BY OpensNot DEF IInv, TypeOK, MirrorWant, OpensNone

\* A grab of wants the release covers keeps JobsCovered.
LEMMA GrabCovered ==
    ASSUME IInv, JobsCovered, NEW j \in Jobs, NEW r \in Releases, NEW G \in SUBSET Covers[r],
           CreateDownloadJob(j, r, G)
    PROVE  JobsCovered'
<1>1. job \in [Jobs -> JobRow]
  BY DEF IInv, TypeOK
<1>2. CASE Indexed(j)
  <2>1. job[j].release = r /\ job[j].status # "absent"
    BY <1>2 DEF CreateDownloadJob, IndexedFor, FreshJob, Indexed
  <2>2. job' = [job EXCEPT ![j] = [job[j] EXCEPT !.wants = @ \cup G]]
    BY <1>2 DEF CreateDownloadJob
  <2> QED BY <1>1, <2>1, <2>2 DEF JobsCovered, JobRow
<1>3. CASE ~Indexed(j)
  BY <1>1, <1>3 DEF CreateDownloadJob, JobsCovered, NewJob
<1> QED BY <1>2, <1>3

\* The acquisition worker.
LEMMA AcqOpens ==
    ASSUME IInv, NothingProposed, JobsCovered, PickCovers, AcqStep
    PROVE  OpensNone /\ JobsCovered' /\ PickCovers'
<1>1. want \in [Wants -> WantRow] /\ acq \in AcqState
  BY DEF IInv, TypeOK
<1>2. UNCHANGED want => OpensNone
  BY DEF OpensNone
<1>3. UNCHANGED job => JobsCovered'
  BY DEF JobsCovered
<1>4. acq' = AcqNext => PickCovers'
  BY <1>1 DEF AcqNext, AcqState, PickCovers
<1>5. ASSUME NEW w \in Wants, Reap(w)
      PROVE  OpensNone /\ JobsCovered' /\ PickCovers'
  BY <1>1, <1>3, <1>5, OpensNot DEF Reap, Update, OpensNone, Open, Stale, Claimable, PickCovers
<1>6. ASSUME NEW S \in SUBSET Wants, ClaimRunnableWants(S)
      PROVE  OpensNone /\ JobsCovered' /\ PickCovers'
  <2>1. OpensNone
    BY <1>1, <1>6, OpensNot DEF ClaimRunnableWants, Update, OpensNone, Open, Runnable, Claimable
  <2>2. PickCovers'
    BY <1>1, <1>6 DEF ClaimRunnableWants, BetweenTicks, AcqState, PickCovers
  <2> QED BY <1>3, <1>6, <2>1, <2>2 DEF ClaimRunnableWants
<1>7. ASSUME NEW w \in Wants, SkipCovered(w) \/ SearchError(w)
      PROVE  OpensNone /\ JobsCovered' /\ PickCovers'
  BY <1>1, <1>2, <1>3, <1>7 DEF SkipCovered, SearchError, StartWant, AcqState, PickCovers
<1>8. ASSUME NEW w \in Wants, Search(w)
      PROVE  OpensNone /\ JobsCovered' /\ PickCovers'
  <2>1. PICK s \in (Eligible(w) \ Packs) \cup {NoRelease},
             p \in (Eligible(w) \cap Packs) \cup {NoRelease} :
           LET r == ChoosePick(s, p) IN
           IF r = NoRelease
           THEN StartWant(w, "recheck", NoRelease, {})
           ELSE StartWant(w, "route", r, IF r \in Packs THEN CoveredWants(r) ELSE {w})
    BY <1>8 DEF Search
  <2> DEFINE r == ChoosePick(s, p)
             S == IF r \in Packs THEN CoveredWants(r) ELSE {w}
  <2>2. r = NoRelease => PickCovers'
    BY <1>1, <2>1 DEF StartWant, AcqState, PickCovers
  <2>3. ASSUME r # NoRelease
        PROVE  PickCovers'
    <3>1. r \in Eligible(w)
      BY <2>3 DEF ChoosePick
    <3>2. w \in Covers[r] /\ S \subseteq Covers[r]
      BY <3>1 DEF Eligible, CoveredWants
    <3>3. acq'.want = w /\ acq'.release = r /\ acq'.covered = S
      BY <1>1, <2>1, <2>3 DEF StartWant, AcqState
    <3> QED BY <3>2, <3>3 DEF PickCovers
  <2> QED BY <1>2, <1>3, <1>8, <2>2, <2>3 DEF Search
<1>9. CASE Route
  BY <1>1, <1>2, <1>3, <1>9 DEF Route, AcqState, PickCovers
<1>10. CASE GrabSingle
  <2>1. OpensNone
    BY <1>1, <1>10, OpensNot DEF GrabSingle, OpensNone
  <2>2. PickCovers'
    BY <1>1, <1>4, <1>10 DEF GrabSingle, AcqState, PickCovers
  <2>3. JobsCovered'
    <3>1. CASE UNCHANGED job
      BY <1>3, <3>1
    <3>2. CASE \E j \in Jobs : CreateDownloadJob(j, acq.release, {acq.want})
      <4>1. acq.release \in Releases /\ {acq.want} \in SUBSET Covers[acq.release]
        BY <1>10 DEF GrabSingle, IInv, Linked, AcqHolds, PickCovers
      <4> QED BY <3>2, <4>1, GrabCovered
    <3> QED BY <1>10, <3>1, <3>2 DEF GrabSingle
  <2> QED BY <2>1, <2>2, <2>3
<1>11. CASE GrabPack
  <2>1. PICK j \in Jobs : CreateDownloadJob(j, acq.release, ClaimedBy(acq.covered))
    BY <1>11 DEF GrabPack
  <2>2. acq.release \in Releases /\ ClaimedBy(acq.covered) \in SUBSET Covers[acq.release]
    BY <1>11 DEF GrabPack, ClaimedBy, IInv, Linked, AcqHolds, PickCovers
  <2>3. JobsCovered'
    BY <2>1, <2>2, GrabCovered
  <2>4. OpensNone
    BY <1>1, <1>11, OpensNot DEF GrabPack, OpensNone
  <2>5. PickCovers'
    BY <1>1, <1>4, <1>11 DEF GrabPack, AcqState, PickCovers
  <2> QED BY <2>3, <2>4, <2>5
<1>12. CASE Reschedule \/ FailWant
  <2>1. Reschedule => OpensNone
    BY <1>1, OpensNot DEF Reschedule, Update, OpensNone
  <2>2. FailWant => OpensNone
    BY <1>1, OpensNot DEF FailWant, Update, OpensNone
  <2> QED BY <1>3, <1>4, <1>12, <2>1, <2>2 DEF Reschedule, FailWant
<1>13. ~ProposeOrSupersede
  BY DEF ProposeOrSupersede, NothingProposed
<1> QED BY <1>5, <1>6, <1>7, <1>8, <1>9, <1>10, <1>11, <1>12, <1>13 DEF AcqStep, AcqHandle

\* The download worker releases the wants of a failed job, no others.
LEMMA DlOpens ==
    ASSUME IInv, JobsCovered, dl.uncovered = {}, ManualHeld, DlStep, "missingfile" \notin Faults
    PROVE  ManualHeld' /\ JobsCovered' /\ dl'.uncovered = {}
<1>1. /\ want \in [Wants -> WantRow] /\ dl \in DlState /\ job \in [Jobs -> JobRow]
      /\ dl.pc # "idle" => dl.job \in Jobs /\ job[dl.job].status # "absent"
      /\ dl.pc \in {"release", "restamp"} => dl.want \in Wants
      /\ UNCHANGED tracking
  BY DEF IInv, TypeOK, Linked, DlHolds, DlStep, DlHandle, ClaimRunnableDownloadJobs,
         PollProgress, PollCompleted, PollFailed, Poll, SpawnNoFiles, ClientError, ListError,
         Enqueue, MirrorDownloading, FileTask, ReleaseUncovered, ExcludeRelease, MirrorDone,
         FileDone, UnlinkUncovered, UncoverDone, FailJob, ReleaseFailed, RestampManualHold,
         RecoverDone, SpawnImportTasks
<1>2. OpensNone /\ dl.pc # "restamp" => ManualHeld'
  BY <1>1 DEF OpensNone, ManualHeld, AutonomyFor
<1>3. UNCHANGED want => OpensNone
  BY DEF OpensNone
<1>4. /\ UNCHANGED job => JobsCovered'
      /\ \A s : SetJobStatus(dl.job, s) /\ dl.pc # "idle" => JobsCovered'
      /\ dl.pc # "idle" /\ job' = [job EXCEPT ![dl.job] = SetEnqueued(@)] => JobsCovered'
      /\ dl.pc # "idle" /\ job' = [job EXCEPT ![dl.job].attempts = @ + 1] => JobsCovered'
  <2>1. UNCHANGED job => JobsCovered'
    BY DEF JobsCovered
  <2>2. ASSUME dl.pc # "idle",
               \/ \E s : SetJobStatus(dl.job, s)
               \/ job' = [job EXCEPT ![dl.job] = SetEnqueued(@)]
               \/ job' = [job EXCEPT ![dl.job].attempts = @ + 1]
        PROVE  JobsCovered'
    <3>1. \A j \in Jobs : /\ job'[j].wants = job[j].wants /\ job'[j].release = job[j].release
                          /\ job'[j].status # "absent" => job[j].status # "absent"
      <4>1. CASE \E s : SetJobStatus(dl.job, s)
        BY <1>1, <2>2, <4>1 DEF SetJobStatus, JobRow
      <4>2. CASE job' = [job EXCEPT ![dl.job] = SetEnqueued(@)]
        BY <1>1, <2>2, <4>2 DEF SetEnqueued, JobRow
      <4>3. CASE job' = [job EXCEPT ![dl.job].attempts = @ + 1]
        BY <1>1, <2>2, <4>3 DEF JobRow
      <4> QED BY <2>2, <4>1, <4>2, <4>3
    <3> QED BY <3>1 DEF JobsCovered
  <2> QED BY <2>1, <2>2
<1>5. dl' = DlIdle => dl'.uncovered = {}
  BY DEF DlIdle
<1>6. ASSUME NEW w \in Wants, MirrorDownloading(w) \/ FileTask(w) \/ ExcludeRelease(w)
      PROVE  ManualHeld' /\ JobsCovered' /\ dl'.uncovered = {}
  <2>1. OpensNone
    BY <1>3, <1>6, MirrorOpens
    DEF MirrorDownloading, FileTask, ExcludeRelease, WantStatus, Claimable
  <2>2. UNCHANGED job /\ dl'.uncovered = {} /\ dl.pc # "restamp"
    BY <1>1, <1>6 DEF MirrorDownloading, FileTask, ExcludeRelease, DlState
  <2> QED BY <1>2, <1>4, <2>1, <2>2
<1>7. CASE \E j \in Jobs : ClaimRunnableDownloadJobs(j)
  <2>1. UNCHANGED <<want, job>> /\ dl'.uncovered = {} /\ dl.pc # "restamp"
    BY <1>7 DEF ClaimRunnableDownloadJobs, DlIdle
  <2> QED BY <1>2, <1>3, <1>4, <2>1
<1>8. CASE Enqueue \/ ClientError \/ ListError \/ SpawnNoFiles
  <2>1. /\ dl.pc \in {"process", "spawn"} /\ UNCHANGED want
        /\ dl' = DlIdle \/ dl' = [dl EXCEPT !.pc = "fail"]
        /\ \/ UNCHANGED job \/ job' = [job EXCEPT ![dl.job] = SetEnqueued(@)]
           \/ job' = [job EXCEPT ![dl.job].attempts = @ + 1]
    BY <1>8 DEF Enqueue, ClientError, ListError, SpawnNoFiles, RetryOrFailJob, Goto
  <2>2. dl'.uncovered = {}
    BY <1>1, <1>5, <2>1 DEF DlState
  <2> QED BY <1>2, <1>3, <1>4, <2>1, <2>2
<1>9. CASE \E st \in JobStatus : Poll(st)
  <2>1. /\ dl.pc = "process" /\ UNCHANGED want
        /\ UNCHANGED job \/ \E s : SetJobStatus(dl.job, s)
    BY <1>9 DEF Poll
  <2>2. dl'.uncovered = {}
    BY <1>1, <1>5, <1>9 DEF Poll, Goto, DlState
  <2> QED BY <1>2, <1>3, <1>4, <2>1, <2>2
<1>10. ASSUME NEW F \in SUBSET Wants, SpawnImportTasks(F)
       PROVE  ManualHeld' /\ JobsCovered' /\ dl'.uncovered = {}
  <2>1. F = Covers[job[dl.job].release]
    BY <1>10 DEF SpawnImportTasks, Arrived, Fault
  <2>2. dl'.uncovered = job[dl.job].wants \ F /\ dl.pc = "spawn" /\ UNCHANGED <<want, job>>
    BY <1>1, <1>10 DEF SpawnImportTasks, LinkedTo, DlState
  <2>3. dl'.uncovered = {}
    BY <1>1, <2>1, <2>2 DEF JobsCovered
  <2> QED BY <1>2, <1>3, <1>4, <2>2, <2>3
<1>11. CASE MirrorDone \/ FileDone \/ UncoverDone \/ RecoverDone
  <2>1. /\ dl.pc # "restamp" /\ UNCHANGED <<want, job>>
        /\ dl' = DlIdle \/ \E pc : dl' = [dl EXCEPT !.pc = pc]
    BY <1>11 DEF MirrorDone, FileDone, UncoverDone, RecoverDone, Goto
  <2>2. dl'.uncovered = {}
    BY <1>1, <1>5, <2>1 DEF DlState
  <2> QED BY <1>2, <1>3, <1>4, <2>1, <2>2
<1>12. ASSUME NEW w \in Wants, ReleaseUncovered(w)
       PROVE  FALSE
  BY <1>12 DEF ReleaseUncovered
<1>13. CASE UnlinkUncovered
  <2>1. /\ dl.pc = "unlink" /\ UNCHANGED want /\ dl'.uncovered = {}
        /\ job' = [job EXCEPT ![dl.job].wants = @ \ {dl.want}]
    BY <1>1, <1>13 DEF UnlinkUncovered, DlState
  <2>2. JobsCovered'
    BY <1>1, <2>1 DEF JobsCovered, JobRow
  <2> QED BY <1>2, <1>3, <2>1, <2>2
<1>14. CASE FailJob
  <2>1. /\ dl.pc = "fail" /\ UNCHANGED want /\ SetJobStatus(dl.job, "failed")
        /\ dl'.uncovered = {}
    BY <1>1, <1>14 DEF FailJob, DlState
  <2> QED BY <1>2, <1>3, <1>4, <2>1
<1>15. CASE ReleaseFailed
  <2>1. /\ dl.pc = "release" /\ UNCHANGED job
        /\ want' = [want EXCEPT ![dl.want] = ReleaseWantFromGrab(@)]
        /\ dl'.uncovered = {} /\ dl'.want = dl.want
        /\ CanRelease(want[dl.want]) => dl'.pc = "restamp"
    BY <1>1, <1>15 DEF ReleaseFailed, Goto, DlState
  <2>2. \A w \in Wants : Open(want'[w]) => Open(want[w]) \/ (dl'.pc = "restamp" /\ dl'.want = w)
    BY <1>1, <2>1, OpensNot
  <2> QED BY <1>1, <1>4, <2>1, <2>2 DEF ManualHeld, AutonomyFor
<1>16. CASE RestampManualHold
  <2>1. /\ dl.pc = "restamp" /\ UNCHANGED job /\ dl'.uncovered = {}
        /\ want' = IF AutonomyFor(dl.want) = "manual"
                   THEN [want EXCEPT ![dl.want] = SetWantHold(@, "needs_pick")]
                   ELSE want
    BY <1>1, <1>16 DEF RestampManualHold, Goto, DlState
  <2>2. ManualHeld'
    BY <1>1, <2>1, OpensNot DEF ManualHeld, AutonomyFor
  <2> QED BY <1>4, <2>1, <2>2
<1> QED BY <1>6, <1>7, <1>8, <1>9, <1>10, <1>11, <1>12, <1>13, <1>14, <1>15, <1>16
        DEF DlStep, DlHandle, PollProgress, PollCompleted, PollFailed, JobStatus, ActiveJob,
            DeadJob

\* The import worker writes no claimable status.
LEMMA ImpOpens ==
    ASSUME IInv, ImpStep
    PROVE  OpensNone /\ UNCHANGED <<tracking, job, acq, dl>>
<1>1. {"imported", "available", "failed"} \subseteq WantStatus \ Claimable
  BY DEF WantStatus, Claimable
<1>2. \/ UNCHANGED want
      \/ \E s \in {"imported", "available", "failed"} : MirrorWant(ThisTask.want, s)
  BY DEF ImpStep, ClaimRunnableImportTasks, ImportError, ImpHandle, DestinationExists,
         RemoveOld, Place, Commit, MirrorAvailable, SetImportTaskFailed, MirrorFailed
<1>3. OpensNone
  BY <1>1, <1>2, MirrorOpens DEF OpensNone
<1>4. UNCHANGED <<tracking, job, acq, dl>>
  BY DEF ImpStep, ClaimRunnableImportTasks, ImportError, ImpHandle, DestinationExists,
         RemoveOld, Place, Commit, MirrorAvailable, SetImportTaskFailed, MirrorFailed
<1> QED BY <1>3, <1>4

\* A request that opens a want leaves its segment's dial, or holds it.
LEMMA UsrHeld ==
    ASSUME IInv, NothingProposed, ManualHeld, UsrStep
    PROVE  ManualHeld'
<1>1. want \in [Wants -> WantRow] /\ Segment \in [Wants -> Segments] /\ UNCHANGED dl
  BY WantsAssumption
     DEF IInv, TypeOK, UsrStep, ServeCancel, RequestCancelWant, RequestCancelTracking,
         CancelNextWant, CancelJobsOfWant, CancelDone, Reactivate, RetryTracking,
         RearmMovieWant, GrabManual, SetAutonomy, Approve, Decline, CancelDownloadJob,
         RetryDownload, CancelImportTask, Reimport
<1>2. ASSUME OpensNone, UNCHANGED tracking.autonomy
      PROVE  ManualHeld'
  BY <1>1, <1>2 DEF OpensNone, ManualHeld, AutonomyFor
<1>3. tracking \in [state : {"active", "canceled"}, autonomy : [Segments -> Dials]]
  BY DEF IInv, TypeOK
<1>4. UNCHANGED want => OpensNone
  BY DEF OpensNone
<1>5. ASSUME NEW w \in Wants, CancelNextWant(w)
      PROVE  ManualHeld'
  <2>1. OpensNone
    BY <1>1, <1>5, OpensNot DEF CancelNextWant, OpensNone
  <2> QED BY <1>2, <1>3, <1>5, <2>1 DEF CancelNextWant
<1>6. CASE CancelDone
  BY <1>2, <1>3, <1>4, <1>6 DEF CancelDone
<1>7. CASE \/ RequestCancelTracking \/ CancelJobsOfWant
           \/ \E w \in Wants : RequestCancelWant(w)
           \/ \E j \in Jobs : CancelDownloadJob(j) \/ RetryDownload(j)
           \/ \E t \in Tasks : CancelImportTask(t) \/ Reimport(t)
  BY <1>2, <1>4, <1>7 DEF RequestCancelTracking, CancelJobsOfWant, RequestCancelWant,
                          CancelDownloadJob, RetryDownload, CancelImportTask, Reimport
<1>8. CASE RetryTracking
  <2>1. ASSUME NEW w \in Wants, AutonomyFor(w) = "manual"
        PROVE  ~Open(want'[w])
    BY <1>1, <1>8, <2>1, WantWrites, OpensNot DEF RetryTracking
  <2>2. UNCHANGED tracking.autonomy
    BY <1>3, <1>8 DEF RetryTracking
  <2> QED BY <2>1, <2>2 DEF ManualHeld, AutonomyFor
<1>9. ASSUME NEW w \in Wants, RearmMovieWant(w)
      PROVE  ManualHeld'
  <2>1. \A v \in Wants : AutonomyFor(v) = "manual" /\ Open(want'[v]) => Open(want[v])
    BY <1>1, <1>9, WantWrites, OpensNot DEF RearmMovieWant
  <2>2. UNCHANGED tracking.autonomy
    BY <1>3, <1>9 DEF RearmMovieWant
  <2> QED BY <1>1, <2>1, <2>2 DEF ManualHeld, AutonomyFor
<1>10. ASSUME NEW w \in Wants, NEW r \in Releases, GrabManual(w, r)
       PROVE  ManualHeld'
  <2>1. OpensNone
    BY <1>1, <1>10, OpensNot, GrabbedByHand DEF OpensNone
  <2> QED BY <1>2, <1>3, <1>10, <2>1, GrabbedByHand
<1>11. ASSUME NEW a \in [Segments -> Dials], SetAutonomy(a)
       PROVE  ManualHeld'
  <2>1. \A w \in Wants : want'[w] = ApplyAutonomy(want[w], AutonomyFor(w), a[Segment[w]])
    BY <1>11 DEF SetAutonomy
  <2>2. tracking'.autonomy = a
    BY <1>3, <1>11 DEF SetAutonomy
  <2>3. ASSUME NEW w \in Wants, a[Segment[w]] = "manual", Open(want'[w])
        PROVE  Open(want[w]) /\ AutonomyFor(w) = "manual"
    BY <1>1, <2>1, <2>3, OpensNot DEF ApplyAutonomy
  <2> QED BY <1>1, <2>2, <2>3 DEF ManualHeld, AutonomyFor
<1>12. \A p \in prop : ~Approve(p) /\ ~Decline(p)
  BY DEF NothingProposed
<1> QED BY <1>5, <1>6, <1>7, <1>8, <1>9, <1>10, <1>11, <1>12
        DEF UsrStep, ServeCancel, Reactivate

\* A request grabs a release for the want it covers, and a retried job is covered as
\* the job was.
LEMMA UsrCovered ==
    ASSUME IInv, NothingProposed, JobsCovered, UsrStep
    PROVE  JobsCovered'
<1>1. job \in [Jobs -> JobRow] /\ JobNamed
  BY DEF IInv, TypeOK, Linked
<1>2. UNCHANGED job => JobsCovered'
  BY DEF JobsCovered
<1>3. ASSUME NEW S \in SUBSET Jobs, CancelJobs(S), \A j \in S : job[j].status # "absent"
      PROVE  JobsCovered'
  BY <1>1, <1>3 DEF CancelJobs, JobsCovered, JobRow
<1>4. CASE CancelJobsOfWant
  <2>1. /\ ActiveJobsOf(usr.want) \in SUBSET Jobs
        /\ \A j \in ActiveJobsOf(usr.want) : job[j].status # "absent"
    BY DEF ActiveJobsOf, ActiveJob
  <2> QED BY <1>3, <1>4, <2>1 DEF CancelJobsOfWant
<1>5. ASSUME NEW j \in Jobs, CancelDownloadJob(j)
      PROVE  JobsCovered'
  <2>1. {j} \in SUBSET Jobs /\ \A i \in {j} : job[i].status # "absent"
    BY <1>5 DEF CancelDownloadJob, ActiveJob
  <2> QED BY <1>3, <1>5, <2>1 DEF CancelDownloadJob
<1>6. ASSUME NEW w \in Wants, NEW r \in Releases, GrabManual(w, r)
      PROVE  JobsCovered'
  <2>1. PICK j \in Jobs, G \in SUBSET Covers[r] : CreateDownloadJob(j, r, G)
    BY <1>6, GrabbedByHand
  <2> QED BY <2>1, GrabCovered
<1>7. ASSUME NEW j \in Jobs, RetryDownload(j)
      PROVE  JobsCovered'
  <2>1. job[j].release \in Releases /\ job[j].wants \in SUBSET Covers[job[j].release]
    BY <1>1, <1>7 DEF RetryDownload, JobsCovered, JobNamed
  <2> QED BY <1>7, <2>1, GrabCovered DEF RetryDownload
<1>8. \A p \in prop : ~Approve(p) /\ ~Decline(p)
  BY DEF NothingProposed
<1> QED BY <1>2, <1>4, <1>5, <1>6, <1>7, <1>8
        DEF UsrStep, ServeCancel, RequestCancelWant, RequestCancelTracking, CancelNextWant,
            CancelDone, Reactivate, RetryTracking, RearmMovieWant, SetAutonomy,
            CancelImportTask, Reimport

(***************************************************************************)
(* Only a claim makes a want searching.                                    *)
(***************************************************************************)
SearchesNone == \A w \in Wants : want'[w].status = "searching" => want[w].status = "searching"

LEMMA SearchesNot ==
    ASSUME NEW w \in WantRow, w.status # "searching"
    PROVE  /\ ReclaimStale(w).status # "searching" /\ Grabbed.status # "searching"
           /\ CancelWant(w).status # "searching" /\ BackToPending(w).status # "searching"
           /\ MarkWantFailed(w).status # "searching" /\ RearmWant(w).status # "searching"
           /\ RetryWant(w).status # "searching" /\ HoldForSegment(w).status # "searching"
           /\ HoldForSegment(RetryWant(w)).status # "searching"
           /\ ReleaseHeld(w).status # "searching"
           /\ ReleaseWantFromGrab(w).status # "searching"
           /\ SetWantHold(w, "needs_pick").status # "searching"
           /\ SetWantHold(RearmWant(w), "needs_pick").status # "searching"
           /\ \A s \in WantStatus \ {"searching"} : MirrorWantStatus(w, s).status # "searching"
  BY DEF WantRow, ReclaimStale, Grabbed, CancelWant, BackToPending, MarkWantFailed, RearmWant,
         RetryWant, HoldForSegment, ReleaseHeld, ReleaseWantFromGrab, SetWantHold,
         MirrorWantStatus

LEMMA MirrorSearches ==
    ASSUME IInv, NEW x, NEW s \in WantStatus \ {"searching"}, MirrorWant(x, s)
    PROVE  SearchesNone
  BY SearchesNot DEF IInv, TypeOK, MirrorWant, SearchesNone

LEMMA OnlyClaims ==
    ASSUME IInv, NothingProposed, Next, ~\E S \in SUBSET Wants : ClaimRunnableWants(S)
    PROVE  SearchesNone
<1>1. want \in [Wants -> WantRow]
  BY DEF IInv, TypeOK
<1>2. UNCHANGED want => SearchesNone
  BY DEF SearchesNone
<1>3. CASE AcqStep
  <2>1. ASSUME NEW w \in Wants, Reap(w)
        PROVE  SearchesNone
    BY <1>1, <2>1, SearchesNot DEF Reap, Update, SearchesNone
  <2>2. ASSUME NEW w \in Wants, SkipCovered(w) \/ Search(w) \/ SearchError(w) \/ Route
        PROVE  SearchesNone
    BY <1>2, <2>2 DEF SkipCovered, Search, SearchError, Route
  <2>3. GrabSingle => SearchesNone
    BY <1>1, SearchesNot DEF GrabSingle, SearchesNone
  <2>4. GrabPack => SearchesNone
    BY <1>1, SearchesNot DEF GrabPack, SearchesNone
  <2>5. Reschedule => SearchesNone
    BY <1>1, SearchesNot DEF Reschedule, Update, SearchesNone
  <2>6. FailWant => SearchesNone
    BY <1>1, SearchesNot DEF FailWant, Update, SearchesNone
  <2>7. ~ProposeOrSupersede
    BY DEF ProposeOrSupersede, NothingProposed
  <2>8. Route => SearchesNone
    BY <1>2 DEF Route
  <2> QED BY <1>3, <2>1, <2>2, <2>3, <2>4, <2>5, <2>6, <2>7, <2>8 DEF AcqStep, AcqHandle
<1>4. CASE DlStep
  <2>1. ASSUME NEW w \in Wants, MirrorDownloading(w)
        PROVE  SearchesNone
    BY <2>1, MirrorSearches DEF MirrorDownloading, WantStatus
  <2>2. ReleaseFailed => SearchesNone
    BY <1>1, SearchesNot DEF ReleaseFailed, SearchesNone
  <2>3. RestampManualHold => SearchesNone
    BY <1>1, SearchesNot DEF RestampManualHold, SearchesNone
  <2>4. ASSUME NEW w \in Wants, ReleaseUncovered(w)
        PROVE  SearchesNone
    BY <1>1, <2>4, SearchesNot DEF ReleaseUncovered, SearchesNone
  <2>5. CASE UNCHANGED want
    BY <1>2, <2>5
  <2> QED BY <1>4, <2>1, <2>2, <2>3, <2>4, <2>5
          DEF DlStep, DlHandle, ClaimRunnableDownloadJobs, PollProgress, PollCompleted,
              PollFailed, Poll, SpawnNoFiles, ClientError, ListError, Enqueue, FileTask,
              ExcludeRelease, MirrorDone, FileDone, UnlinkUncovered, UncoverDone, FailJob,
              RecoverDone, SpawnImportTasks
<1>5. CASE ImpStep
  <2>1. {"imported", "available", "failed"} \subseteq WantStatus \ {"searching"}
    BY DEF WantStatus
  <2>2. \/ UNCHANGED want
        \/ \E s \in {"imported", "available", "failed"} : MirrorWant(ThisTask.want, s)
    BY <1>5 DEF ImpStep, ClaimRunnableImportTasks, ImportError, ImpHandle, DestinationExists,
                RemoveOld, Place, Commit, MirrorAvailable, SetImportTaskFailed, MirrorFailed
  <2> QED BY <1>2, <2>1, <2>2, MirrorSearches
<1>6. CASE UsrStep
  <2>1. ASSUME NEW w \in Wants, CancelNextWant(w)
        PROVE  SearchesNone
    BY <1>1, <2>1, SearchesNot DEF CancelNextWant, SearchesNone
  <2>2. RetryTracking => SearchesNone
    BY <1>1, SearchesNot DEF RetryTracking, SearchesNone
  <2>3. ASSUME NEW w \in Wants, RearmMovieWant(w)
        PROVE  SearchesNone
    BY <1>1, <2>3, SearchesNot DEF RearmMovieWant, SearchesNone
  <2>4. ASSUME NEW w \in Wants, NEW r \in Releases, GrabManual(w, r)
        PROVE  SearchesNone
    BY <1>1, <2>4, SearchesNot, GrabbedByHand DEF SearchesNone
  <2>5. ASSUME NEW a \in [Segments -> Dials], SetAutonomy(a)
        PROVE  SearchesNone
    BY <1>1, <2>5, SearchesNot DEF SetAutonomy, ApplyAutonomy, SearchesNone
  <2>6. \A p \in prop : ~Approve(p) /\ ~Decline(p)
    BY DEF NothingProposed
  <2>7. CASE UNCHANGED want
    BY <1>2, <2>7
  <2> QED BY <1>6, <2>1, <2>2, <2>3, <2>4, <2>5, <2>6, <2>7
          DEF UsrStep, ServeCancel, RequestCancelWant, RequestCancelTracking, CancelJobsOfWant,
              CancelDone, Reactivate, CancelDownloadJob, RetryDownload, CancelImportTask,
              Reimport
<1>7. CASE Crash
  BY <1>2, <1>7 DEF Crash
<1> QED BY <1>3, <1>4, <1>5, <1>6, <1>7 DEF Next

ManualInv == ManualHeld /\ AllMatched

LEMMA ManualStep ==
    ASSUME IInv, NothingProposed, ManualInv, Next, "missingfile" \notin Faults, MaxCrashes = 0
    PROVE  ManualInv'
<1>1. ManualHeld /\ JobsCovered /\ PickCovers /\ dl.uncovered = {}
  BY DEF ManualInv, AllMatched
<1>2. UNCHANGED acq => PickCovers'
  BY <1>1 DEF PickCovers
<1>3. OpensNone /\ UNCHANGED <<tracking, dl>> => ManualHeld'
  BY <1>1 DEF OpensNone, ManualHeld, AutonomyFor
<1>4. CASE AcqStep
  <2>1. UNCHANGED <<tracking, dl>>
    BY <1>4 DEF AcqStep, Reap, SearchError, ClaimRunnableWants, AcqHandle, SkipCovered, Search,
                Route, GrabSingle, GrabPack, ProposeOrSupersede, Reschedule, FailWant
  <2> QED BY <1>1, <1>3, <1>4, <2>1, AcqOpens DEF ManualInv, AllMatched
<1>5. CASE DlStep
  <2>1. UNCHANGED acq
    BY <1>5, DlSticky
  <2> QED BY <1>1, <1>2, <1>5, <2>1, DlOpens DEF ManualInv, AllMatched
<1>6. CASE ImpStep
  <2>1. OpensNone /\ UNCHANGED <<tracking, job, acq, dl>>
    BY <1>6, ImpOpens
  <2>2. JobsCovered'
    BY <1>1, <2>1 DEF JobsCovered
  <2> QED BY <1>1, <1>2, <1>3, <2>1, <2>2 DEF ManualInv, AllMatched
<1>7. CASE UsrStep
  <2>1. UNCHANGED <<acq, dl>>
    BY <1>7 DEF UsrStep, ServeCancel, RequestCancelWant, RequestCancelTracking,
         CancelNextWant, CancelJobsOfWant, CancelDone, Reactivate, RetryTracking,
         RearmMovieWant, GrabManual, SetAutonomy, Approve, Decline, CancelDownloadJob,
         RetryDownload, CancelImportTask, Reimport
  <2> QED BY <1>1, <1>2, <1>7, <2>1, UsrHeld, UsrCovered DEF ManualInv, AllMatched
<1>8. ~Crash
  BY DEF Crash, IInv, TypeOK, Budget
<1> QED BY <1>4, <1>5, <1>6, <1>7, <1>8 DEF Next

\* Whatever dial turns, retries, re-arms, cancels, hand grabs and failed downloads come
\* before, a want of a manual segment is claimed only in the window between its release
\* from a failed job and its hold, provided nothing is proposed, every file of a pack
\* arrives and the process does not stop.
THEOREM ManualClaimsOnlyInWindow ==
    ASSUME "propose" \notin Dials, "missingfile" \notin Faults, MaxCrashes = 0
    PROVE  Spec => ManualClaimedInWindow
<1>1. Init => ManualInv
  <2>1. ASSUME Init
        PROVE  ManualHeld
    BY <2>1 DEF Init, ManualHeld, AutonomyFor, HoldForNewWant, SetWantHold, NewWant, Open
  <2> QED BY <2>1 DEF Init, ManualInv, AllMatched, JobsCovered, PickCovers, NoJobRow, AcqIdle,
                      DlIdle
<1>2. IInv /\ NothingProposed /\ ManualInv /\ [Next]_vars => ManualInv'
  <2>1. ASSUME ManualInv, UNCHANGED vars
        PROVE  ManualInv'
    BY <2>1 DEF vars, ManualInv, AllMatched, ManualHeld, JobsCovered, PickCovers, AutonomyFor
  <2> QED BY <2>1, ManualStep
<1>3. ASSUME IInv, NothingProposed, ManualInv, Next, NEW w \in Wants,
             want[w].status = "pending", want'[w].status = "searching"
      PROVE  Open(want[w])
  <2>1. want \in [Wants -> WantRow]
    BY <1>3 DEF IInv, TypeOK
  <2>2. CASE \E S \in SUBSET Wants : ClaimRunnableWants(S)
    BY <1>3, <2>1, <2>2 DEF ClaimRunnableWants, Update, Runnable, Open, Claimable
  <2> QED BY <1>3, <2>2, OnlyClaims DEF SearchesNone
<1>4. ASSUME IInv, NothingProposed, ManualInv, Next, NEW w \in Wants,
             want[w].status = "pending", want'[w].status = "searching"
      PROVE  AutonomyFor(w) # "manual" \/ (dl.pc = "restamp" /\ dl.want = w)
  BY <1>3, <1>4 DEF ManualInv, ManualHeld
<1>5. IInv /\ NothingProposed /\ ManualInv /\ [Next]_vars =>
         [\A w \in Wants :
             want[w].status = "pending" /\ want'[w].status = "searching"
             => AutonomyFor(w) # "manual" \/ (dl.pc = "restamp" /\ dl.want = w)]_vars
  BY <1>4
<1> QED BY Inductive, ProposesNothing, <1>1, <1>2, <1>5, PTL DEF Spec, ManualClaimedInWindow
=============================================================================
