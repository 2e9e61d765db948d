-------------------------- MODULE TrackingProofs --------------------------
(***************************************************************************)
(* What a tracking promises its operator, for every tracking: that no want *)
(* of it is downloaded or imported twice, and what its pages show.         *)
(***************************************************************************)
EXTENDS Ownership, TitlePage, PipelineProofs, FiniteSetTheorems, WellFoundedInduction

(***************************************************************************)
(* Ownership of wants.  No want has two live jobs, for every instance in   *)
(* which no request cancels a want or a job or retries a job, and no want  *)
(* fails while it is parked for a proposal.                                *)
(*                                                                         *)
(* The invariant is Owned, with Parked for the proposals.  A want is       *)
(* grabbed only when it is not taken, so all turns on when it stops being  *)
(* taken: the download worker releases it, or the import worker fails it,  *)
(* and either must be its only carrier.  TakeStep describes what the other *)
(* processes do to the carriers; the steps of the download worker are      *)
(* taken one by one.  Three more results rest on it: a parked want has a   *)
(* proposal, no want is imported twice, no excluded release is grabbed.    *)
(***************************************************************************)
Disowning == {"cancel_want", "cancel_tracking", "cancel_job", "retry_job"}

TakenStatus == InFlight \cup {"imported", "available"}

TablesOwn == JobOwns /\ TaskOwns

WorkerOwns == SnapshotFresh /\ DlOwns /\ EndingOwns

\* A want stops being taken only by its import task, which ends with it.
StaysTaken(w) ==
    Taken(w) => Taken(w)' \/ (ImportsOf(w) # {} /\ ImportsOf(w)' = {})

\* What a step of the other processes may do: take wants that are free for one job.
TakeStep(j, G) ==
    /\ \A w \in G : ~Taken(w) /\ Taken(w)'
    /\ \A w \in Wants \ G : StaysTaken(w)
    /\ \A w \in Wants : ImportsOf(w)' \subseteq ImportsOf(w)
    /\ \A i \in Jobs \ {j} : job'[i] = job[i]
    /\ j \in Jobs =>
          IF job[j].status = "absent" THEN job'[j].wants = G
          ELSE job'[j].status = job[j].status /\ job'[j].wants = job[j].wants \cup G

-----------------------------------------------------------------------------
\* The statements on a taken want: none of the workers' claims and grabs, and no
\* retry of the operator, touches it.
LEMMA TakenKept ==
    ASSUME NEW r \in WantRow
    PROVE  /\ Grabbed.status \in TakenStatus
           /\ r.status \in TakenStatus =>
                /\ ~Stale(r) /\ ~Runnable(r) /\ ~CanGrabWant(r) /\ ~CanGrabForPack(r)
                /\ ~CanGrabManual(r) /\ ~CanRearm(r) /\ r.status \notin Claimable
                /\ BackToPending(r) = r /\ MarkWantFailed(r) = r /\ RetryWant(r) = r
                /\ \A s \in TakenStatus : MirrorWantStatus(r, s).status \in TakenStatus
           /\ r.hold # "proposed" => RearmProposed(r) = r
           /\ HoldProposed(r).status = r.status
           /\ HoldForSegment(r).status = r.status
           /\ ReleaseHeld(r).status = r.status
           /\ \A h \in Holds : SetWantHold(r, h).status = r.status
  BY DEF WantRow, TakenStatus, Claimable, InFlight, Stale, Runnable, CanGrabWant,
         CanGrabForPack, CanGrabManual, CanRearm, BackToPending, MarkWantFailed, RetryWant,
         HoldForSegment, CanHold, ReleaseHeld, SetWantHold, MirrorWantStatus, TerminalWant,
         Grabbed, RearmProposed, HoldProposed

\* What is not taken is carried by nothing.
LEMMA FreeUncarried ==
    ASSUME TablesOwn, NEW w \in Wants, ~Taken(w)
    PROVE  ActiveJobsOf(w) = {} /\ ImportsOf(w) = {}
  BY DEF TablesOwn, JobOwns, TaskOwns, ActiveJobsOf, ImportsOf

\* A want with a live job has no import task.
LEMMA JobNoImport ==
    ASSUME TablesOwn, NEW w \in Wants, ActiveJobsOf(w) # {}
    PROVE  ImportsOf(w) = {}
  BY DEF TablesOwn, TaskOwns, ImportsOf

\* A want between owners stays so.
LEMMA BetweenKept ==
    ASSUME TablesOwn, NEW j, NEW G \in SUBSET Wants, TakeStep(j, G),
           NEW w \in Wants, BetweenOwners(w)
    PROVE  BetweenOwners(w)'
<1>1. w \notin G /\ Taken(w)' /\ ImportsOf(w)' = {}
  BY DEF TakeStep, BetweenOwners, StaysTaken
<1>2. ActiveJobsOf(w)' = {}
  BY <1>1 DEF TakeStep, BetweenOwners, ActiveJobsOf, ActiveJob
<1> QED BY <1>1, <1>2 DEF BetweenOwners

\* So do the rows of the tables: a want taken from the free has the one job.
LEMMA TablesKept ==
    ASSUME IInv, TablesOwn, NEW j, NEW G \in SUBSET Wants, TakeStep(j, G)
    PROVE  TablesOwn'
<1>1. ASSUME NEW w \in G
      PROVE  Taken(w)' /\ ActiveJobsOf(w)' \subseteq {j} /\ ImportsOf(w)' = {}
  <2>1. ActiveJobsOf(w) = {} /\ ImportsOf(w) = {}
    BY FreeUncarried DEF TakeStep
  <2> QED BY <2>1 DEF TakeStep, ActiveJobsOf
<1>2. ASSUME NEW w \in Wants \ G
      PROVE  ActiveJobsOf(w)' \subseteq ActiveJobsOf(w)
  BY DEF TakeStep, ActiveJobsOf, ActiveJob
<1>3. ASSUME NEW w \in Wants \ G, NEW i \in ActiveJobsOf(w)'
      PROVE  Taken(w)' /\ ActiveJobsOf(w)' = {i}
  <2>1. i \in ActiveJobsOf(w) /\ i \in Jobs
    BY <1>2, <1>3 DEF ActiveJobsOf
  <2>2. Taken(w) /\ ActiveJobsOf(w) = {i} /\ ImportsOf(w) = {}
    BY <2>1, JobNoImport DEF TablesOwn, JobOwns
  <2> QED BY <1>2, <1>3, <2>2 DEF TakeStep, StaysTaken
<1>4. ASSUME NEW w \in Wants \ G, NEW t \in ImportsOf(w)'
      PROVE  Taken(w)' /\ ActiveJobsOf(w)' = {} /\ ImportsOf(w)' = {t}
  <2>1. t \in ImportsOf(w) /\ t \in Tasks
    BY <1>4 DEF TakeStep, ImportsOf
  <2>2. Taken(w) /\ ActiveJobsOf(w) = {} /\ ImportsOf(w) = {t}
    BY <2>1 DEF TablesOwn, TaskOwns
  <2> QED BY <1>2, <1>4, <2>2 DEF TakeStep, StaysTaken
<1>5. JobOwns'
  <2>1. ASSUME NEW w \in Wants, NEW i \in Jobs, i \in ActiveJobsOf(w)'
        PROVE  Taken(w)' /\ ActiveJobsOf(w)' = {i}
    BY <1>1, <1>3, <2>1
  <2> QED BY <2>1 DEF JobOwns
<1>6. TaskOwns'
  <2>1. ASSUME NEW w \in Wants, NEW t \in Tasks, t \in ImportsOf(w)'
        PROVE  Taken(w)' /\ ActiveJobsOf(w)' = {} /\ ImportsOf(w)' = {t}
    BY <1>1, <1>4, <2>1
  <2> QED BY <2>1 DEF TaskOwns
<1> QED BY <1>5, <1>6 DEF TablesOwn

\* And what the download worker relies on, when the step is another process's.
LEMMA WorkerKept ==
    ASSUME IInv, TablesOwn, WorkerOwns, job' \in [Jobs -> JobRow],
           NEW j, NEW G \in SUBSET Wants, TakeStep(j, G), UNCHANGED dl
    PROVE  WorkerOwns'
<1>1. \A w \in Wants : BetweenOwners(w) => BetweenOwners(w)'
  BY BetweenKept
<1>2. \A w : Released(w)' = Released(w)
  BY DEF Released
<1>3. dl.pc # "idle" =>
         /\ dl.job \in Jobs /\ job[dl.job].status # "absent"
         /\ job'[dl.job].status = job[dl.job].status
         /\ job[dl.job].wants \subseteq job'[dl.job].wants
         /\ \A w \in job'[dl.job].wants \ job[dl.job].wants : w \in G /\ dl.job = j
  BY DEF IInv, Linked, DlHolds, TakeStep
<1>4. SnapshotFresh'
  BY <1>3 DEF WorkerOwns, SnapshotFresh
<1>5. dl.todo \subseteq Wants /\ dl.uncovered \subseteq Wants
      /\ (dl.pc = "release" => dl.want \in Wants)
  BY DEF IInv, TypeOK, Linked, DlHolds, DlState
<1>6. DlOwns'
  BY <1>1, <1>2, <1>5 DEF WorkerOwns, DlOwns
<1>7. ASSUME NEW w \in G, dl.job = j, dl.pc # "idle"
      PROVE  /\ Taken(w)' /\ ActiveJobsOf(w)' \subseteq {dl.job} /\ ImportsOf(w)' = {}
             /\ job[dl.job].status = "completed" => BetweenOwners(w)'
  <2>1. ActiveJobsOf(w) = {} /\ ImportsOf(w) = {}
    BY FreeUncarried DEF TakeStep
  <2>2. Taken(w)' /\ ActiveJobsOf(w)' \subseteq {dl.job} /\ ImportsOf(w)' = {}
    BY <1>7, <2>1 DEF TakeStep, ActiveJobsOf
  <2>3. job[dl.job].status = "completed" => ActiveJobsOf(w)' = {}
    BY <1>3, <1>7, <2>2 DEF ActiveJobsOf, ActiveJob
  <2> QED BY <2>2, <2>3 DEF BetweenOwners
<1>8. ASSUME dl.pc # "idle", NEW w \in job'[dl.job].wants
      PROVE  w \in Wants /\ (w \in job[dl.job].wants \/ (w \in G /\ dl.job = j))
  BY <1>3, <1>8 DEF JobRow
<1>9. ASSUME dl.pc \in {"spawn", "file", "uncover", "unlink"}, NEW w \in job'[dl.job].wants
      PROVE  Released(w)' \/ dl.made \/ BetweenOwners(w)'
  BY <1>1, <1>2, <1>7, <1>8, <1>9 DEF WorkerOwns, EndingOwns, SnapshotFresh
<1>10. ASSUME dl.pc = "fail", NEW w \in job'[dl.job].wants
       PROVE  Taken(w)' /\ ActiveJobsOf(w)' \subseteq {dl.job} /\ ImportsOf(w)' = {}
  <2>1. CASE w \in G /\ dl.job = j
    BY <1>7, <1>10, <2>1
  <2>2. CASE w \in job[dl.job].wants
    <3>1. Taken(w) /\ ActiveJobsOf(w) \subseteq {dl.job} /\ ImportsOf(w) = {}
      BY <1>10, <2>2 DEF WorkerOwns, EndingOwns
    <3>2. w \in Wants \ G
      BY <1>8, <1>10, <3>1 DEF TakeStep
    <3>3. ActiveJobsOf(w)' \subseteq ActiveJobsOf(w)
      BY <3>2 DEF TakeStep, ActiveJobsOf, ActiveJob
    <3> QED BY <3>1, <3>2, <3>3 DEF TakeStep, StaysTaken
  <2> QED BY <1>8, <1>10, <2>1, <2>2
<1>11. EndingOwns'
  BY <1>9, <1>10 DEF WorkerOwns, EndingOwns
<1> QED BY <1>4, <1>6, <1>11 DEF WorkerOwns

-----------------------------------------------------------------------------
(***************************************************************************)
(* The steps of the other processes are TakeSteps.                         *)
(***************************************************************************)
Takes == \E j \in Jobs \cup {NoJob}, G \in SUBSET Wants : TakeStep(j, G)

\* A step that writes wants only, and frees no taken one.
LEMMA WantsOnly ==
    ASSUME UNCHANGED <<job, task, imp>>, \A w \in Wants : Taken(w) => Taken(w)'
    PROVE  Takes
<1>1. TakeStep(NoJob, {})
  BY DEF TakeStep, StaysTaken, ImportsOf, Live, NoJob, Jobs
<1>2. {} \in SUBSET Wants
  OBVIOUS
<1> QED BY <1>1, <1>2, Zenon DEF Takes

\* A grab of wants that are free.
LEMMA GrabTakes ==
    ASSUME IInv, NEW j \in Jobs, NEW r, NEW G \in SUBSET Wants, CreateDownloadJob(j, r, G),
           \A w \in G : ~Taken(w),
           want' = [w \in Wants |-> IF w \in G THEN Grabbed ELSE want[w]],
           UNCHANGED <<task, imp>>
    PROVE  Takes
<1>1. job \in [Jobs -> JobRow]
  BY DEF IInv, TypeOK
<1>2. /\ \A i \in Jobs \ {j} : job'[i] = job[i]
      /\ IF job[j].status = "absent" THEN job'[j].wants = G
         ELSE job'[j].status = job[j].status /\ job'[j].wants = job[j].wants \cup G
  <2>1. CASE Indexed(j)
    <3>1. job' = [job EXCEPT ![j] = [job[j] EXCEPT !.wants = @ \cup G]]
      BY <2>1 DEF CreateDownloadJob
    <3> QED BY <1>1, <2>1, <3>1 DEF Indexed, JobRow
  <2>2. CASE ~Indexed(j)
    <3>1. job[j].status = "absent" /\ job' = [job EXCEPT ![j] = NewJob(r, G)]
      BY <2>2 DEF CreateDownloadJob, IndexedFor, FreshJob
    <3> QED BY <1>1, <3>1 DEF NewJob
  <2> QED BY <2>1, <2>2
<1>3. /\ \A w \in G : Taken(w)'
      /\ \A w \in Wants \ G : Taken(w) => Taken(w)'
  BY DEF Taken, Grabbed, InFlight
<1>4. \A w \in Wants : ImportsOf(w)' = ImportsOf(w)
  BY DEF ImportsOf, Live
<1>5. TakeStep(j, G)
  BY <1>2, <1>3, <1>4 DEF TakeStep, StaysTaken
<1> QED BY <1>5, Zenon DEF Takes

\* The acquisition worker grabs from the wants it may claim.
LEMMA AcqTakes ==
    ASSUME IInv, Parked, AcqStep
    PROVE  Takes
<1>1. want \in [Wants -> WantRow]
  BY DEF IInv, TypeOK
<1>2. ASSUME NEW w \in Wants, Reap(w)
      PROVE  Takes
  BY <1>1, <1>2, TakenKept, WantsOnly DEF Reap, Update, Taken, TakenStatus
<1>3. ASSUME NEW S \in SUBSET Wants, ClaimRunnableWants(S)
      PROVE  Takes
  BY <1>1, <1>3, TakenKept, WantsOnly DEF ClaimRunnableWants, Update, Taken, TakenStatus
<1>4. ASSUME NEW w \in Wants, SkipCovered(w) \/ Search(w) \/ SearchError(w)
      PROVE  Takes
  <2>1. UNCHANGED <<want, job, task, imp>>
    BY <1>4 DEF SkipCovered, Search, SearchError
  <2> QED BY <2>1, WantsOnly DEF Taken
<1>5. ASSUME Route
      PROVE  Takes
  BY <1>5, WantsOnly DEF Route, Taken
<1>6. ASSUME GrabSingle
      PROVE  Takes
  <2>1. CASE CanGrabWant(want[acq.want])
    <3>1. PICK j \in Jobs : CreateDownloadJob(j, acq.release, {acq.want})
      BY <1>6, <2>1 DEF GrabSingle
    <3>2. acq.want \in Wants
      BY <1>6 DEF GrabSingle, IInv, Linked, AcqHolds
    <3>3. want' = [w \in Wants |-> IF w \in {acq.want} THEN Grabbed ELSE want[w]]
      BY <1>1, <1>6, <2>1, <3>2 DEF GrabSingle
    <3>4. ~Taken(acq.want)
      BY <1>1, <2>1, <3>2, TakenKept DEF Taken, TakenStatus
    <3> QED BY <1>6, <3>1, <3>2, <3>3, <3>4, GrabTakes DEF GrabSingle
  <2>2. CASE ~CanGrabWant(want[acq.want])
    BY <1>6, <2>2, WantsOnly DEF GrabSingle, Taken
  <2> QED BY <2>1, <2>2
<1>7. ASSUME GrabPack
      PROVE  Takes
  <2> DEFINE claimed == ClaimedBy(acq.covered)
  <2>1. PICK j \in Jobs : CreateDownloadJob(j, acq.release, claimed)
    BY <1>7 DEF GrabPack
  <2>2. claimed \in SUBSET Wants
    BY DEF ClaimedBy, IInv, TypeOK, AcqState
  <2>3. want' = [w \in Wants |-> IF w \in claimed THEN Grabbed ELSE want[w]]
    BY <1>7 DEF GrabPack
  <2>4. \A w \in claimed : ~Taken(w)
    BY <1>1, <2>2, TakenKept DEF ClaimedBy, Taken, TakenStatus
  <2> QED BY <1>7, <2>1, <2>2, <2>3, <2>4, GrabTakes DEF GrabPack
<1>8. ASSUME Reschedule \/ FailWant
      PROVE  Takes
  <2>1. Reschedule => \A w \in Wants : Taken(w) => Taken(w)'
    BY <1>1, TakenKept DEF Reschedule, Update, Taken, TakenStatus
  <2>2. FailWant => \A w \in Wants : Taken(w) => Taken(w)'
    BY <1>1, TakenKept DEF FailWant, Update, Taken, TakenStatus
  <2> QED BY <1>8, <2>1, <2>2, WantsOnly DEF Reschedule, FailWant
<1>9. ASSUME ProposeOrSupersede
      PROVE  Takes
  <2>1. \A w \in Wants : Taken(w) => want[w].hold # "proposed"
    BY TakenKept, <1>1 DEF Parked, Taken, TakenStatus
  <2>2. CreateProposal => \A w \in Wants : Taken(w) => Taken(w)'
    BY <1>1, TakenKept DEF CreateProposal, Update, Taken
  <2>3. \A p \in prop : Supersede(p) => \A w \in Wants : Taken(w) => Taken(w)'
    BY <1>1, <2>1, TakenKept DEF Supersede, Taken
  <2>4. UNCHANGED want => \A w \in Wants : Taken(w) => Taken(w)'
    BY DEF Taken
  <2>5. \A w \in Wants : Taken(w) => Taken(w)'
    BY <1>9, <2>2, <2>3, <2>4 DEF ProposeOrSupersede, OpenProposals
  <2> QED BY <1>9, <2>5, WantsOnly DEF ProposeOrSupersede
<1> QED BY <1>2, <1>3, <1>4, <1>5, <1>6, <1>7, <1>8, <1>9 DEF AcqStep, AcqHandle

\* A task is imported at most once, so the imports of a want only end; and a want
\* fails with its one task.
LEMMA ImpTakes ==
    ASSUME IInv, TablesOwn, ImpStep
    PROVE  Takes
<1>1. want \in [Wants -> WantRow] /\ task \in [Tasks -> TaskRow]
  BY DEF IInv, TypeOK
<1>2. imp.pc # "idle" => imp.task \in Tasks
  BY DEF IInv, Linked, ImpHolds
<1>3. UNCHANGED job
  BY DEF ImpStep, ClaimRunnableImportTasks, ImportError, ImpHandle, DestinationExists,
         RemoveOld, Place, Commit, MirrorAvailable, SetImportTaskFailed, MirrorFailed
<1>4. \A w \in Wants : ImportsOf(w)' \subseteq ImportsOf(w)
  <2>1. ASSUME NEW t \in Tasks
        PROVE  task'[t].want = task[t].want /\ (Live(t)' => Live(t))
    <3>1. CASE \E u \in Tasks : ClaimRunnableImportTasks(u)
      BY <1>1, <3>1 DEF ClaimRunnableImportTasks, Live, TaskRow
    <3>2. CASE ImportError
      BY <1>1, <1>2, <3>2 DEF ImportError, ImpGoto, ImpIdle, Live, TaskRow, IInv, TypeOK, ImpState
    <3>3. CASE DestinationExists \/ RemoveOld \/ Place \/ SetImportTaskFailed \/ Commit
      BY <1>1, <1>2, <3>3 DEF DestinationExists, RemoveOld, Place, SetImportTaskFailed, Commit,
                              ImpGoto, Live, TaskRow, IInv, TypeOK, ImpState
    <3>4. CASE MirrorAvailable \/ MirrorFailed
      BY <3>4 DEF MirrorAvailable, MirrorFailed, ImpIdle, Live
    <3> QED BY <3>1, <3>2, <3>3, <3>4 DEF ImpStep, ImpHandle
  <2> QED BY <2>1 DEF ImportsOf
<1>5. \A w \in Wants : StaysTaken(w)
  <2>1. ASSUME NEW s \in TakenStatus, MirrorWant(ThisTask.want, s)
        PROVE  \A w \in Wants : Taken(w) => Taken(w)'
    BY <1>1, <2>1, TakenKept DEF MirrorWant, Taken, TakenStatus
  <2>2. CASE Commit
    <3>1. UNCHANGED want \/ MirrorWant(ThisTask.want, "imported")
      BY <2>2 DEF Commit
    <3> QED BY <2>1, <3>1 DEF StaysTaken, Taken, TakenStatus
  <2>3. CASE MirrorAvailable
    BY <2>1, <2>3 DEF MirrorAvailable, StaysTaken, TakenStatus
  <2>4. CASE MirrorFailed
    <3>1. ASSUME NEW w \in Wants, w # ThisTask.want
          PROVE  StaysTaken(w)
      BY <2>4, <3>1 DEF MirrorFailed, MirrorWant, StaysTaken, Taken
    <3>2. ASSUME NEW w \in Wants, w = ThisTask.want
          PROVE  StaysTaken(w)
      <4>1. imp.task \in ImportsOf(w)
        BY <1>2, <2>4, <3>2 DEF MirrorFailed, ImportsOf, Live, ThisTask
      <4>2. ImportsOf(w) = {imp.task}
        BY <1>2, <2>4, <4>1 DEF TablesOwn, TaskOwns, MirrorFailed
      <4>3. imp.task \notin ImportsOf(w)'
        BY <2>4 DEF MirrorFailed, ImpIdle, ImportsOf, Live, IInv, Linked, ImpHolds, ThisTask
      <4> QED BY <1>4, <4>1, <4>2, <4>3 DEF StaysTaken
    <3> QED BY <3>1, <3>2
  <2>5. CASE UNCHANGED want
    BY <2>5 DEF StaysTaken, Taken
  <2> QED BY <2>2, <2>3, <2>4, <2>5
          DEF ImpStep, ClaimRunnableImportTasks, ImportError, ImpHandle, DestinationExists,
              RemoveOld, Place, SetImportTaskFailed
<1>6. TakeStep(NoJob, {})
  BY <1>3, <1>4, <1>5 DEF TakeStep, NoJob, Jobs
<1>7. {} \in SUBSET Wants
  OBVIOUS
<1> QED BY <1>6, <1>7, Zenon DEF Takes

\* The requests left grab what is free, too; a re-import carries no want.
LEMMA UsrTakes ==
    ASSUME IInv, Parked, usr.pc = "idle", Ops \cap Disowning = {}, UsrStep
    PROVE  Takes /\ usr'.pc = "idle"
<1>1. want \in [Wants -> WantRow] /\ task \in [Tasks -> TaskRow]
  BY DEF IInv, TypeOK
<1>2. ~ServeCancel
  BY DEF ServeCancel, CancelNextWant, CancelJobsOfWant, CancelDone
<1>3. ~RequestCancelTracking /\ \A w : ~RequestCancelWant(w)
  BY DEF RequestCancelTracking, RequestCancelWant, Request, Disowning
<1>4. \A j : ~CancelDownloadJob(j) /\ ~RetryDownload(j)
  BY DEF CancelDownloadJob, RetryDownload, Request, Disowning
<1>5. ASSUME NEW a \in [Segments -> Dials], SetAutonomy(a)
      PROVE  Takes /\ usr'.pc = "idle"
  BY <1>1, <1>5, TakenKept, WantsOnly DEF SetAutonomy, ApplyAutonomy, Taken, TakenStatus
<1>6. ASSUME RetryTracking
      PROVE  Takes /\ usr'.pc = "idle"
  <2>1. ASSUME NEW w \in Wants, Taken(w)
        PROVE  Taken(w)'
    BY <1>1, <1>6, <2>1, TakenKept DEF RetryTracking, Taken, TakenStatus
  <2> QED BY <1>6, <2>1, WantsOnly DEF RetryTracking
<1>7. ASSUME NEW w \in Wants, RearmMovieWant(w)
      PROVE  Takes /\ usr'.pc = "idle"
  BY <1>1, <1>7, TakenKept, WantsOnly DEF RearmMovieWant, Taken, TakenStatus
<1>8. ASSUME NEW w \in Wants, NEW r \in Releases, GrabManual(w, r)
      PROVE  Takes /\ usr'.pc = "idle"
  <2>1. PICK j \in Jobs, G \in SUBSET {w} :
            /\ CreateDownloadJob(j, r, G)
            /\ \A v \in G : CanGrabManual(want[v])
            /\ want' = [v \in Wants |-> IF v \in G THEN Grabbed ELSE want[v]]
    BY <1>8, GrabbedByHand
  <2>2. G \in SUBSET Wants /\ \A v \in G : ~Taken(v)
    BY <1>1, <2>1, TakenKept DEF Taken, TakenStatus
  <2>3. UNCHANGED <<task, imp, usr>>
    BY <1>8, GrabbedByHand
  <2> QED BY <2>1, <2>2, <2>3, GrabTakes
<1>9. ASSUME NEW p \in prop, Approve(p) \/ Decline(p)
      PROVE  Takes /\ usr'.pc = "idle"
  <2>1. p.wants \in SUBSET Wants
    BY DEF IInv, TypeOK, Proposals
  <2>2. CASE Approve(p)
    <3>1. UNCHANGED <<task, imp, usr>>
      BY <2>2 DEF Approve
    <3>2. CASE ApprovePack(p)
      <4> DEFINE G == {w \in p.wants : CanGrabForPack(want[w])}
      <4>1. PICK j \in Jobs : CreateDownloadJob(j, p.release, G)
        BY <3>2 DEF ApprovePack
      <4>2. G \in SUBSET Wants /\ \A w \in G : ~Taken(w)
        BY <1>1, <2>1, TakenKept DEF Taken, TakenStatus
      <4>3. want' = [w \in Wants |-> IF w \in G THEN Grabbed ELSE want[w]]
        BY <3>2 DEF ApprovePack
      <4> HIDE DEF G
      <4> QED BY <3>1, <4>1, <4>2, <4>3, GrabTakes
    <3>3. CASE ApproveSingle(p)
      <4>1. PICK w \in p.wants, j \in Jobs :
                /\ CanGrabWant(want[w]) /\ CreateDownloadJob(j, p.release, {w})
                /\ want' = [want EXCEPT ![w] = Grabbed]
        BY <3>3 DEF ApproveSingle
      <4>2. {w} \in SUBSET Wants /\ \A v \in {w} : ~Taken(v)
        BY <1>1, <2>1, <4>1, TakenKept DEF Taken, TakenStatus
      <4>3. want' = [v \in Wants |-> IF v \in {w} THEN Grabbed ELSE want[v]]
        BY <1>1, <2>1, <4>1
      <4> QED BY <3>1, <4>1, <4>2, <4>3, GrabTakes
    <3> QED BY <2>2, <3>2, <3>3 DEF Approve
  <2>3. CASE Decline(p)
    <3>1. \A w \in Wants : Taken(w) => want[w].hold # "proposed"
      BY TakenKept, <1>1 DEF Parked, Taken, TakenStatus
    <3>2. \A w \in Wants : Taken(w) => Taken(w)'
      BY <1>1, <2>3, <3>1, TakenKept DEF Decline, Update, Taken
    <3> QED BY <2>3, <3>2, WantsOnly DEF Decline
  <2> QED BY <1>9, <2>2, <2>3
<1>10. ASSUME NEW t \in Tasks, CancelImportTask(t) \/ Reimport(t)
       PROVE  Takes /\ usr'.pc = "idle"
  <2>1. UNCHANGED <<want, job, imp, usr>>
    BY <1>10 DEF CancelImportTask, Reimport
  <2>2. \A w \in Wants : ImportsOf(w)' \subseteq ImportsOf(w)
    <3>1. CASE CancelImportTask(t)
      BY <1>1, <2>1, <3>1 DEF CancelImportTask, ImportsOf, Live, TaskRow
    <3>2. CASE Reimport(t)
      <4>1. PICK u \in Tasks : CreateImportTask(u, task[t].job, task[t].episode, NoWant, TRUE)
        BY <3>2 DEF Reimport
      <4>2. task'[u].want \notin Wants /\ \A v \in Tasks \ {u} : task'[v] = task[v]
        BY <1>1, <4>1, WantsAssumption DEF CreateImportTask, NewTask
      <4> QED BY <2>1, <4>2 DEF ImportsOf, Live
    <3> QED BY <1>10, <3>1, <3>2
  <2>3. TakeStep(NoJob, {})
    BY <2>1, <2>2 DEF TakeStep, StaysTaken, Taken, NoJob, Jobs
  <2>4. {} \in SUBSET Wants
    OBVIOUS
  <2>5. Takes
    BY <2>3, <2>4, Zenon DEF Takes
  <2> QED BY <2>1, <2>5
<1> QED BY <1>2, <1>3, <1>4, <1>5, <1>6, <1>7, <1>8, <1>9, <1>10 DEF UsrStep, Reactivate

\* What the process that stops had in hand is let go of.
LEMMA CrashTakes ==
    ASSUME Crash
    PROVE  Takes
<1>1. TakeStep(NoJob, {})
  BY DEF Crash, ImpIdle, TakeStep, StaysTaken, Taken, ImportsOf, Live, NoJob, Jobs
<1>2. {} \in SUBSET Wants
  OBVIOUS
<1> QED BY <1>1, <1>2, Zenon DEF Takes

-----------------------------------------------------------------------------
(***************************************************************************)
(* The steps of the download worker.                                       *)
(***************************************************************************)
\* The carriers are as they were.
Quiet ==
    /\ \A j \in Jobs : job'[j].wants = job[j].wants /\
          (job'[j].status \in ActiveJob <=> job[j].status \in ActiveJob)
    /\ \A w \in Wants : Taken(w)' = Taken(w)
    /\ UNCHANGED <<task, imp>>

LEMMA QuietKept ==
    ASSUME TablesOwn, Quiet
    PROVE  /\ TablesOwn'
           /\ \A w \in Wants : /\ Taken(w)' = Taken(w)
                               /\ ActiveJobsOf(w)' = ActiveJobsOf(w)
                               /\ ImportsOf(w)' = ImportsOf(w)
                               /\ BetweenOwners(w)' = BetweenOwners(w)
<1>1. \A w \in Wants : /\ Taken(w)' = Taken(w)
                       /\ ActiveJobsOf(w)' = ActiveJobsOf(w)
                       /\ ImportsOf(w)' = ImportsOf(w)
  BY DEF Quiet, ActiveJobsOf, ImportsOf, Live
<1>2. TablesOwn'
  BY <1>1 DEF TablesOwn, JobOwns, TaskOwns
<1> QED BY <1>1, <1>2 DEF BetweenOwners

\* The wants of a job being processed have it alone.
LEMMA JobCarries ==
    ASSUME IInv, TablesOwn, NEW j \in Jobs, job[j].status \in ActiveJob, NEW w \in job[j].wants
    PROVE  w \in Wants /\ Taken(w) /\ ActiveJobsOf(w) = {j} /\ ImportsOf(w) = {}
<1>1. w \in Wants /\ j \in ActiveJobsOf(w)
  BY DEF IInv, TypeOK, JobRow, ActiveJobsOf
<1> QED BY <1>1, JobNoImport DEF TablesOwn, JobOwns

\* A job that ends carries its wants no more.
LEMMA JobEnds ==
    ASSUME IInv, TablesOwn, NEW j \in Jobs, NEW s \in JobStatus \ ActiveJob,
           SetJobStatus(j, s), UNCHANGED <<want, task, imp>>
    PROVE  /\ TablesOwn'
           /\ job'[j].wants = job[j].wants /\ job'[j].status = s
           /\ \A w \in job[j].wants :
                 /\ w \in Wants
                 /\ Taken(w) /\ ActiveJobsOf(w) \subseteq {j} /\ ImportsOf(w) = {}
                    => BetweenOwners(w)'
<1>1. /\ job'[j].wants = job[j].wants /\ job'[j].status = s
      /\ \A i \in Jobs \ {j} : job'[i] = job[i]
  BY DEF SetJobStatus, IInv, TypeOK, JobRow
<1>2. \A w \in Wants : /\ ActiveJobsOf(w)' = ActiveJobsOf(w) \ {j}
                       /\ ImportsOf(w)' = ImportsOf(w) /\ Taken(w)' = Taken(w)
  BY <1>1 DEF ActiveJobsOf, ImportsOf, Live, Taken
<1>3. TablesOwn'
  BY <1>2 DEF TablesOwn, JobOwns, TaskOwns
<1>4. job[j].wants \subseteq Wants
  BY DEF IInv, TypeOK, JobRow
<1> QED BY <1>1, <1>2, <1>3, <1>4 DEF BetweenOwners

\* From a claim to the end of the download.
LEMMA ProcessOwns ==
    ASSUME IInv, TablesOwn, WorkerOwns, dl.pc = "process",
           Enqueue \/ PollProgress \/ PollCompleted \/ PollFailed \/ ClientError
    PROVE  TablesOwn' /\ WorkerOwns'
<1> DEFINE idle == dl' = DlIdle
           fails == dl' = [dl EXCEPT !.pc = "fail"]
<1>1. /\ dl \in DlState /\ dl.job \in Jobs /\ job \in [Jobs -> JobRow]
      /\ dl.status \in ActiveJob /\ job[dl.job].status = dl.status /\ ~dl.made
  BY DEF IInv, TypeOK, Linked, DlHolds, WorkerOwns, SnapshotFresh, EndingOwns
<1>2. \A w \in job[dl.job].wants :
         w \in Wants /\ Taken(w) /\ ActiveJobsOf(w) = {dl.job} /\ ImportsOf(w) = {}
  BY <1>1, JobCarries
<1>3. UNCHANGED <<want, task, imp>>
  BY DEF Enqueue, PollProgress, PollCompleted, PollFailed, Poll, ClientError
<1>4. idle => WorkerOwns'
  BY DEF DlIdle, WorkerOwns, SnapshotFresh, DlOwns, EndingOwns
<1>5. ASSUME Quiet, fails
      PROVE  TablesOwn' /\ WorkerOwns'
  <2>1. TablesOwn' /\ job'[dl.job].wants = job[dl.job].wants
    BY <1>1, <1>5, QuietKept DEF Quiet
  <2>2. dl'.pc = "fail" /\ dl'.job = dl.job
    BY <1>1, <1>5 DEF DlState
  <2>3. EndingOwns'
    BY <1>2, <1>5, <2>1, <2>2, QuietKept DEF EndingOwns
  <2> QED BY <2>1, <2>2, <2>3 DEF WorkerOwns, SnapshotFresh, DlOwns
<1>6. UNCHANGED job => Quiet
  BY <1>3 DEF Quiet, Taken
<1>8. CASE Enqueue
  <2>1. CASE IndexConflict(dl.job)
    BY <1>5, <1>6, <1>8, <2>1 DEF Enqueue, Goto
  <2>2. CASE ~IndexConflict(dl.job)
    <3>1. job' = [job EXCEPT ![dl.job] = SetEnqueued(@)] /\ idle
      BY <1>8, <2>2 DEF Enqueue
    <3>2. Quiet
      BY <1>1, <1>3, <3>1 DEF Quiet, Taken, SetEnqueued, JobRow, ActiveJob
    <3> QED BY <1>4, <3>1, <3>2, QuietKept
  <2> QED BY <2>1, <2>2
<1>9. CASE ClientError
  <2>1. \/ idle /\ job' = [job EXCEPT ![dl.job].attempts = @ + 1]
        \/ fails /\ UNCHANGED job
    BY <1>9 DEF ClientError, RetryOrFailJob, Goto
  <2>2. job' = [job EXCEPT ![dl.job].attempts = @ + 1] => Quiet
    BY <1>1, <1>3 DEF Quiet, Taken, JobRow
  <2> QED BY <1>4, <1>5, <1>6, <2>1, <2>2, QuietKept
<1>10. ASSUME NEW st \in {"downloading", "completed", "failed"}, Poll(st)
       PROVE  TablesOwn' /\ WorkerOwns'
  <2>1. CASE st \notin DeadJob /\ IndexConflict(dl.job)
    BY <1>5, <1>6, <1>10, <2>1 DEF Poll, Goto
  <2>2. CASE ~(st \notin DeadJob /\ IndexConflict(dl.job))
    <3>1. /\ SetJobStatus(dl.job, st)
          /\ dl' = IF AfterPoll(st) = "idle" THEN DlIdle
                   ELSE [dl EXCEPT !.pc = AfterPoll(st),
                                   !.todo = IF AfterPoll(st) = "mirror"
                                            THEN job[dl.job].wants ELSE {}]
      BY <1>10, <2>2 DEF Poll
    <3>2. CASE st = "downloading"
      <4>1. Quiet /\ job'[dl.job].status = st
        BY <1>1, <1>3, <3>1, <3>2 DEF Quiet, Taken, SetJobStatus, JobRow, ActiveJob
      <4>2. CASE dl.status = "downloading"
        BY <1>4, <3>1, <3>2, <4>1, <4>2, QuietKept DEF AfterPoll
      <4>3. CASE dl.status # "downloading"
        <5>1. dl' = [dl EXCEPT !.pc = "mirror", !.todo = job[dl.job].wants]
          BY <3>1, <3>2, <4>3 DEF AfterPoll
        <5>2. dl'.pc = "mirror" /\ dl'.job = dl.job /\ dl'.todo = job[dl.job].wants
          BY <1>1, <5>1 DEF DlState
        <5>3. SnapshotFresh'
          BY <1>1, <3>2, <4>1, <5>2 DEF SnapshotFresh, Quiet, ActiveJob
        <5>4. DlOwns' /\ EndingOwns'
          BY <5>2 DEF DlOwns, EndingOwns
        <5> QED BY <4>1, <5>3, <5>4, QuietKept DEF WorkerOwns
      <4> QED BY <4>2, <4>3
    <3>3. CASE st # "downloading"
      <4>1. st \in JobStatus \ ActiveJob
        BY <1>10, <3>3 DEF JobStatus, ActiveJob, DeadJob
      <4>2. /\ TablesOwn' /\ job'[dl.job].wants = job[dl.job].wants
            /\ job'[dl.job].status = st
            /\ \A w \in job[dl.job].wants : w \in Wants /\ BetweenOwners(w)'
        BY <1>1, <1>2, <1>3, <3>1, <4>1, JobEnds
      <4>3. /\ dl'.pc = IF st = "failed" THEN "fail" ELSE "spawn"
            /\ dl'.job = dl.job /\ dl'.made = dl.made
        BY <1>1, <1>10, <3>1, <3>3 DEF AfterPoll, DlState
      <4>4. EndingOwns'
        BY <1>1, <4>2, <4>3 DEF EndingOwns, BetweenOwners
      <4>5. SnapshotFresh' /\ DlOwns'
        BY <1>10, <3>3, <4>2, <4>3 DEF SnapshotFresh, DlOwns
      <4> QED BY <4>2, <4>4, <4>5 DEF WorkerOwns
    <3> QED BY <3>2, <3>3
  <2> QED BY <2>1, <2>2
<1> QED BY <1>8, <1>9, <1>10 DEF PollProgress, PollCompleted, PollFailed

\* Where its tasks are spawned.
LEMMA SpawnOwns ==
    ASSUME IInv, TablesOwn, WorkerOwns, dl.pc = "spawn",
           ListError \/ SpawnNoFiles \/ \E F \in SUBSET Wants : SpawnImportTasks(F)
    PROVE  TablesOwn' /\ WorkerOwns'
<1>1. /\ dl \in DlState /\ dl.job \in Jobs /\ job \in [Jobs -> JobRow]
      /\ job[dl.job].status = "completed" /\ job[dl.job].wants \subseteq Wants
      /\ \A w \in job[dl.job].wants : BetweenOwners(w)
  BY DEF IInv, TypeOK, Linked, DlHolds, WorkerOwns, SnapshotFresh, EndingOwns, Released, JobRow
<1>2. UNCHANGED <<want, task, imp>>
  BY DEF ListError, SpawnNoFiles, SpawnImportTasks
<1>3. /\ \A j \in Jobs : job'[j].wants = job[j].wants /\ job'[j].status = job[j].status
      /\ \/ dl' = DlIdle
         \/ dl' = [dl EXCEPT !.pc = "fail"]
         \/ \E F \in SUBSET Wants : SpawnImportTasks(F)
  <2>1. RetryOrFailJob => \/ dl' = DlIdle /\ job' = [job EXCEPT ![dl.job].attempts = @ + 1]
                          \/ dl' = [dl EXCEPT !.pc = "fail"] /\ UNCHANGED job
    BY DEF RetryOrFailJob, Goto
  <2>2. job' = [job EXCEPT ![dl.job].attempts = @ + 1]
        => \A j \in Jobs : job'[j].wants = job[j].wants /\ job'[j].status = job[j].status
    BY <1>1 DEF JobRow
  <2> QED BY <2>1, <2>2 DEF ListError, SpawnNoFiles, SpawnImportTasks, Goto
<1>4. Quiet
  BY <1>2, <1>3 DEF Quiet, Taken
<1>5. TablesOwn' /\ \A w \in job[dl.job].wants : BetweenOwners(w)'
  BY <1>1, <1>4, QuietKept
<1>6. CASE dl' = DlIdle
  BY <1>5, <1>6 DEF DlIdle, WorkerOwns, SnapshotFresh, DlOwns, EndingOwns
<1>7. CASE dl' = [dl EXCEPT !.pc = "fail"]
  <2>1. dl'.pc = "fail" /\ dl'.job = dl.job
    BY <1>1, <1>7 DEF DlState
  <2>2. EndingOwns'
    BY <1>1, <1>3, <1>5, <2>1 DEF EndingOwns, BetweenOwners
  <2> QED BY <1>5, <2>1, <2>2 DEF WorkerOwns, SnapshotFresh, DlOwns
<1>8. ASSUME NEW F \in SUBSET Wants, SpawnImportTasks(F)
      PROVE  WorkerOwns'
  <2> DEFINE linked == job[dl.job].wants
  <2>1. /\ dl'.pc = "file" /\ dl'.job = dl.job
        /\ dl'.todo = IF linked = {} THEN F ELSE F \cap linked
        /\ dl'.linked = (linked # {}) /\ dl'.uncovered = linked \ F
    BY <1>1, <1>8 DEF SpawnImportTasks, LinkedTo, DlState
  <2>2. SnapshotFresh'
    BY <1>1, <1>3, <2>1 DEF SnapshotFresh
  <2>3. DlOwns'
    BY <1>5, <2>1 DEF DlOwns
  <2>4. EndingOwns'
    BY <1>1, <1>3, <1>5, <2>1 DEF EndingOwns
  <2> QED BY <2>2, <2>3, <2>4 DEF WorkerOwns
<1> QED BY <1>3, <1>5, <1>6, <1>7, <1>8

\* Where they are filed and the wants without a file released.
LEMMA FileOwns ==
    ASSUME IInv, TablesOwn, WorkerOwns, dl.pc \in {"file", "uncover", "unlink"},
           \/ FileDone \/ UncoverDone \/ UnlinkUncovered
           \/ \E w \in Wants : FileTask(w) \/ ReleaseUncovered(w)
    PROVE  TablesOwn' /\ WorkerOwns'
<1>1. /\ dl \in DlState /\ dl.job \in Jobs /\ job \in [Jobs -> JobRow]
      /\ job[dl.job].status = "completed"
      /\ task \in [Tasks -> TaskRow] /\ want \in [Wants -> WantRow]
      /\ job[dl.job].wants \subseteq Wants
      /\ dl.todo \subseteq Wants /\ dl.uncovered \subseteq Wants
      /\ \A w \in dl.uncovered : Released(w) \/ BetweenOwners(w)
      /\ \A w \in job[dl.job].wants : Released(w) \/ dl.made \/ BetweenOwners(w)
  BY DEF IInv, TypeOK, Linked, DlHolds, WorkerOwns, SnapshotFresh, EndingOwns, DlOwns,
         JobRow, DlState
<1>2. CASE FileDone
  <2>1. Quiet /\ dl.pc = "file"
    BY <1>2 DEF FileDone, Quiet, Taken
  <2>2. dl'.pc = "uncover" /\ dl'.job = dl.job /\ dl'.made = dl.made
        /\ dl'.uncovered = dl.uncovered
    BY <1>1, <1>2 DEF FileDone, Goto, DlState
  <2>3. SnapshotFresh' /\ DlOwns' /\ EndingOwns'
    BY <1>1, <1>2, <2>1, <2>2, QuietKept
    DEF FileDone, SnapshotFresh, DlOwns, EndingOwns, Released
  <2> QED BY <2>1, <2>3, QuietKept DEF WorkerOwns
<1>3. CASE UncoverDone
  <2>1. Quiet /\ dl.pc = "uncover"
    BY <1>3 DEF UncoverDone, Quiet, Taken
  <2>2. CASE dl' = DlIdle
    BY <2>1, <2>2, QuietKept DEF DlIdle, WorkerOwns, SnapshotFresh, DlOwns, EndingOwns
  <2>3. CASE dl' = [dl EXCEPT !.pc = "fail"] /\ ~dl.made
    <3>1. dl'.pc = "fail" /\ dl'.job = dl.job
      BY <1>1, <2>3 DEF DlState
    <3>2. \A w \in job[dl.job].wants : BetweenOwners(w)
      BY <1>1, <2>1, <2>3 DEF Released
    <3>3. EndingOwns'
      BY <1>1, <1>3, <2>1, <3>1, <3>2, QuietKept DEF UncoverDone, EndingOwns, BetweenOwners
    <3> QED BY <2>1, <3>1, <3>3, QuietKept DEF WorkerOwns, SnapshotFresh, DlOwns
  <2> QED BY <1>3, <2>2, <2>3 DEF UncoverDone, Goto
<1>4. CASE UnlinkUncovered
  <2>1. job' = [job EXCEPT ![dl.job].wants = @ \ {dl.want}] /\ dl.pc = "unlink"
        /\ UNCHANGED <<want, task, imp>>
    BY <1>4 DEF UnlinkUncovered
  <2>2. /\ \A j \in Jobs : job'[j].status = job[j].status /\ job'[j].wants \subseteq job[j].wants
        /\ \A j \in Jobs \ {dl.job} : job'[j] = job[j]
        /\ job'[dl.job].wants = job[dl.job].wants \ {dl.want}
    BY <1>1, <2>1 DEF JobRow
  <2>3. \A w \in Wants : /\ Taken(w)' = Taken(w)
                         /\ ActiveJobsOf(w)' = ActiveJobsOf(w)
                         /\ ImportsOf(w)' = ImportsOf(w)
    BY <1>1, <2>1, <2>2 DEF Taken, ActiveJobsOf, ActiveJob, ImportsOf, Live
  <2>4. TablesOwn' /\ \A w \in Wants : BetweenOwners(w)' = BetweenOwners(w)
    BY <2>3 DEF TablesOwn, JobOwns, TaskOwns, BetweenOwners
  <2>5. dl'.pc = "uncover" /\ dl'.job = dl.job /\ dl'.made = dl.made
        /\ dl'.uncovered = dl.uncovered \ {dl.want}
    BY <1>1, <1>4 DEF UnlinkUncovered, DlState
  <2>6. SnapshotFresh' /\ DlOwns' /\ EndingOwns'
    BY <1>1, <2>2, <2>4, <2>5 DEF SnapshotFresh, DlOwns, EndingOwns, Released
  <2> QED BY <2>4, <2>6 DEF WorkerOwns
<1>5. ASSUME NEW w \in Wants, ReleaseUncovered(w)
      PROVE  TablesOwn' /\ WorkerOwns'
  <2>1. /\ dl.pc = "uncover" /\ w \in dl.uncovered
        /\ \A v \in Wants \ {w} : want'[v] = want[v]
        /\ UNCHANGED <<job, task, imp>>
    BY <1>1, <1>5 DEF ReleaseUncovered
  <2>2. BetweenOwners(w)
    BY <1>1, <2>1 DEF Released
  <2>3. \A v \in Wants : ActiveJobsOf(v)' = ActiveJobsOf(v) /\ ImportsOf(v)' = ImportsOf(v)
    BY <2>1 DEF ActiveJobsOf, ImportsOf, Live
  <2>4. \A v \in Wants \ {w} : /\ Taken(v)' = Taken(v)
                               /\ BetweenOwners(v)' = BetweenOwners(v)
    BY <2>1, <2>3 DEF Taken, BetweenOwners
  <2>5. TablesOwn'
    BY <2>2, <2>3, <2>4 DEF TablesOwn, JobOwns, TaskOwns, BetweenOwners
  <2>6. dl'.pc = "unlink" /\ dl'.job = dl.job /\ dl'.made = dl.made
        /\ dl'.uncovered = dl.uncovered /\ dl'.want = w
    BY <1>1, <1>5 DEF ReleaseUncovered, DlState
  <2>7. SnapshotFresh' /\ DlOwns' /\ EndingOwns'
    BY <1>1, <2>1, <2>4, <2>6 DEF SnapshotFresh, DlOwns, EndingOwns, Released
  <2> QED BY <2>5, <2>7 DEF WorkerOwns
<1>6. ASSUME NEW e \in Wants, FileTask(e)
      PROVE  TablesOwn' /\ WorkerOwns'
  <2>1. PICK t \in Tasks :
            CreateImportTask(t, dl.job, e, IF dl.linked THEN e ELSE NoWant, FALSE)
    BY <1>6 DEF FileTask
  <2>2. dl.pc = "file" /\ e \in dl.todo /\ UNCHANGED <<want, job, imp>>
    BY <1>6 DEF FileTask
  <2>3. /\ task'[t].want = IF dl.linked THEN e ELSE NoWant
        /\ \A u \in Tasks \ {t} : task'[u] = task[u]
    BY <1>1, <2>1 DEF CreateImportTask, NewTask
  <2>4. \A w \in Wants : /\ Taken(w)' = Taken(w) /\ ActiveJobsOf(w)' = ActiveJobsOf(w)
                         /\ ImportsOf(w)' \subseteq ImportsOf(w) \/
                               (w = e /\ dl.linked /\ ImportsOf(w)' \subseteq ImportsOf(w) \cup {t})
    BY <2>2, <2>3, WantsAssumption DEF Taken, ActiveJobsOf, ImportsOf, Live
  <2>5. dl.linked => BetweenOwners(e) /\ e \notin dl.uncovered
    BY <2>2 DEF WorkerOwns, DlOwns
  <2>6. JobOwns'
    BY <2>4 DEF TablesOwn, JobOwns
  <2>7. TaskOwns'
    <3>1. ASSUME NEW w \in Wants, NEW u \in Tasks, u \in ImportsOf(w)'
          PROVE  Taken(w)' /\ ActiveJobsOf(w)' = {} /\ ImportsOf(w)' = {u}
      <4>1. CASE ImportsOf(w)' \subseteq ImportsOf(w)
        BY <2>4, <3>1, <4>1 DEF TablesOwn, TaskOwns
      <4>2. CASE w = e /\ dl.linked /\ ImportsOf(w)' \subseteq ImportsOf(w) \cup {t}
        BY <2>4, <2>5, <3>1, <4>2 DEF BetweenOwners
      <4> QED BY <2>4, <4>1, <4>2
    <3> QED BY <3>1 DEF TaskOwns
  <2>8. \A w \in Wants : BetweenOwners(w) /\ (dl.linked => w # e) => BetweenOwners(w)'
    BY <2>4 DEF BetweenOwners
  <2>9. /\ dl'.pc = "file" /\ dl'.job = dl.job /\ dl'.made = TRUE
        /\ dl'.todo = dl.todo \ {e} /\ dl'.uncovered = dl.uncovered /\ dl'.linked = dl.linked
    BY <1>1, <1>6, <2>2 DEF FileTask, DlState
  <2>10. SnapshotFresh' /\ EndingOwns'
    BY <1>1, <2>2, <2>9 DEF SnapshotFresh, EndingOwns
  <2>11. DlOwns'
    BY <1>1, <2>2, <2>5, <2>8, <2>9 DEF WorkerOwns, DlOwns, Released
  <2> QED BY <2>6, <2>7, <2>10, <2>11 DEF TablesOwn, WorkerOwns
<1> QED BY <1>2, <1>3, <1>4, <1>5, <1>6

\* Where a job is failed and its wants recovered.
LEMMA RecoverOwns ==
    ASSUME IInv, TablesOwn, WorkerOwns,
           \/ FailJob \/ ReleaseFailed \/ RestampManualHold \/ RecoverDone
           \/ \E w \in Wants : ExcludeRelease(w)
    PROVE  TablesOwn' /\ WorkerOwns'
<1>1. dl \in DlState /\ dl.todo \subseteq Wants /\ want \in [Wants -> WantRow]
  BY DEF IInv, TypeOK, DlState
<1>2. CASE FailJob
  <2>1. dl.job \in Jobs /\ SetJobStatus(dl.job, "failed") /\ UNCHANGED <<want, task, imp>>
    BY <1>2 DEF FailJob, IInv, Linked, DlHolds
  <2>2. "failed" \in JobStatus \ ActiveJob
    BY DEF JobStatus, ActiveJob, DeadJob
  <2>3. TablesOwn' /\ \A w \in job[dl.job].wants : BetweenOwners(w)'
    BY <1>2, <2>1, <2>2, JobEnds DEF FailJob, WorkerOwns, EndingOwns
  <2>4. dl'.pc = "recover" /\ dl'.todo = job[dl.job].wants
    BY <1>1, <1>2 DEF FailJob, LinkedTo, DlState
  <2> QED BY <2>3, <2>4 DEF WorkerOwns, SnapshotFresh, DlOwns, EndingOwns
<1>3. ASSUME NEW w \in Wants, ExcludeRelease(w)
      PROVE  TablesOwn' /\ WorkerOwns'
  <2>1. Quiet
    BY <1>3 DEF ExcludeRelease, Quiet, Taken
  <2>2. \A v \in dl.todo : BetweenOwners(v)
    BY <1>3 DEF ExcludeRelease, WorkerOwns, DlOwns
  <2>3. dl'.pc = "release" /\ dl'.want = w /\ dl'.todo = dl.todo \ {w} /\ w \in dl.todo
    BY <1>1, <1>3 DEF ExcludeRelease, DlState
  <2> QED BY <1>1, <2>1, <2>2, <2>3, QuietKept
          DEF WorkerOwns, SnapshotFresh, DlOwns, EndingOwns
<1>4. CASE ReleaseFailed
  <2>1. /\ dl.pc = "release" /\ dl.want \in Wants
        /\ \A v \in Wants \ {dl.want} : want'[v] = want[v]
        /\ UNCHANGED <<job, task, imp>>
    BY <1>1, <1>4 DEF ReleaseFailed, IInv, Linked, DlHolds
  <2>2. BetweenOwners(dl.want) /\ dl.want \notin dl.todo /\ \A v \in dl.todo : BetweenOwners(v)
    BY <2>1 DEF WorkerOwns, DlOwns
  <2>3. \A v \in Wants : ActiveJobsOf(v)' = ActiveJobsOf(v) /\ ImportsOf(v)' = ImportsOf(v)
    BY <2>1 DEF ActiveJobsOf, ImportsOf, Live
  <2>4. \A v \in Wants \ {dl.want} : /\ Taken(v)' = Taken(v)
                                     /\ BetweenOwners(v)' = BetweenOwners(v)
    BY <2>1, <2>3 DEF Taken, BetweenOwners
  <2>5. TablesOwn'
    BY <2>2, <2>3, <2>4 DEF TablesOwn, JobOwns, TaskOwns, BetweenOwners
  <2>6. dl'.pc \in {"restamp", "recover"} /\ dl'.todo = dl.todo
    BY <1>1, <1>4 DEF ReleaseFailed, Goto, DlState
  <2> QED BY <1>1, <2>2, <2>4, <2>5, <2>6 DEF WorkerOwns, SnapshotFresh, DlOwns, EndingOwns
<1>5. CASE RestampManualHold
  <2>1. \A w \in Wants : Taken(w)' = Taken(w)
    BY <1>1, <1>5, TakenKept DEF RestampManualHold, Taken, Holds
  <2>2. Quiet
    BY <1>5, <2>1 DEF RestampManualHold, Quiet
  <2>3. dl'.pc = "recover" /\ dl'.todo = dl.todo /\ \A v \in dl.todo : BetweenOwners(v)
    BY <1>1, <1>5 DEF RestampManualHold, Goto, DlState, WorkerOwns, DlOwns
  <2> QED BY <1>1, <2>2, <2>3, QuietKept DEF WorkerOwns, SnapshotFresh, DlOwns, EndingOwns
<1>6. CASE RecoverDone
  <2>1. Quiet
    BY <1>6 DEF RecoverDone, Quiet, Taken
  <2> QED BY <1>6, <2>1, QuietKept
          DEF RecoverDone, DlIdle, WorkerOwns, SnapshotFresh, DlOwns, EndingOwns
<1> QED BY <1>2, <1>3, <1>4, <1>5, <1>6

\* Every step of the download worker.
LEMMA DlOwnsStep ==
    ASSUME IInv, TablesOwn, WorkerOwns, DlStep
    PROVE  TablesOwn' /\ WorkerOwns'
<1>1. ASSUME NEW j \in Jobs, ClaimRunnableDownloadJobs(j)
      PROVE  TablesOwn' /\ WorkerOwns'
  <2>1. Quiet
    BY <1>1 DEF ClaimRunnableDownloadJobs, Quiet, Taken
  <2>2. dl'.pc = "process" /\ dl'.job = j /\ dl'.status = job[j].status /\ ~dl'.made
    BY <1>1 DEF ClaimRunnableDownloadJobs, DlIdle
  <2>3. SnapshotFresh'
    BY <1>1, <2>2 DEF ClaimRunnableDownloadJobs, SnapshotFresh
  <2> QED BY <2>1, <2>2, <2>3, QuietKept DEF WorkerOwns, DlOwns, EndingOwns
<1>2. ASSUME NEW w \in Wants, MirrorDownloading(w)
      PROVE  TablesOwn' /\ WorkerOwns'
  <2>1. /\ dl.pc = "mirror" /\ dl.job \in Jobs /\ job[dl.job].status \in ActiveJob
        /\ w \in job[dl.job].wants /\ dl \in DlState /\ want \in [Wants -> WantRow]
    BY <1>2 DEF MirrorDownloading, WorkerOwns, SnapshotFresh, IInv, TypeOK, Linked, DlHolds
  <2>2. Taken(w)
    BY <2>1, JobCarries
  <2>3. \A v \in Wants : Taken(v)' = Taken(v)
    BY <1>2, <2>1, <2>2, TakenKept DEF MirrorDownloading, MirrorWant, Taken, TakenStatus, InFlight
  <2>4. Quiet
    BY <1>2, <2>3 DEF MirrorDownloading, Quiet
  <2>5. dl'.pc = "mirror" /\ dl'.job = dl.job /\ dl'.todo \subseteq dl.todo
    BY <1>2, <2>1 DEF MirrorDownloading, DlState
  <2>6. SnapshotFresh'
    BY <1>2, <2>1, <2>5 DEF MirrorDownloading, WorkerOwns, SnapshotFresh
  <2> QED BY <2>4, <2>5, <2>6, QuietKept DEF WorkerOwns, DlOwns, EndingOwns
<1>3. CASE MirrorDone
  <2>1. Quiet
    BY <1>3 DEF MirrorDone, Quiet, Taken
  <2> QED BY <1>3, <2>1, QuietKept
          DEF MirrorDone, DlIdle, WorkerOwns, SnapshotFresh, DlOwns, EndingOwns
<1>4. CASE Enqueue \/ PollProgress \/ PollCompleted \/ PollFailed \/ ClientError
  BY <1>4, ProcessOwns DEF Enqueue, PollProgress, PollCompleted, PollFailed, Poll, ClientError
<1>5. CASE ListError \/ SpawnNoFiles \/ \E F \in SUBSET Wants : SpawnImportTasks(F)
  BY <1>5, SpawnOwns DEF ListError, SpawnNoFiles, SpawnImportTasks
<1>6. CASE \/ FileDone \/ UncoverDone \/ UnlinkUncovered
           \/ \E w \in Wants : FileTask(w) \/ ReleaseUncovered(w)
  BY <1>6, FileOwns DEF FileDone, UncoverDone, UnlinkUncovered, FileTask, ReleaseUncovered
<1>7. CASE \/ FailJob \/ ReleaseFailed \/ RestampManualHold \/ RecoverDone
           \/ \E w \in Wants : ExcludeRelease(w)
  BY <1>7, RecoverOwns
<1> QED BY <1>1, <1>2, <1>3, <1>4, <1>5, <1>6, <1>7 DEF DlStep, DlHandle

-----------------------------------------------------------------------------
\* What is up for a grab stays so, and gains no exclusion.
FreeKept ==
    \A w \in Wants : want[w].status \in Claimable =>
        /\ want'[w].status \in Claimable
        /\ \A r \in Releases : <<w, r>> \in excl' => <<w, r>> \in excl

\* The download worker touches the wants it has, and they are taken.
LEMMA DlFreeKept ==
    ASSUME IInv, Owned, DlStep
    PROVE  FreeKept
<1>1. /\ want \in [Wants -> WantRow] /\ dl \in DlState
      /\ dl.pc # "idle" => dl.job \in Jobs
      /\ dl.pc \in {"release", "restamp"} => dl.want \in Wants
  BY DEF IInv, TypeOK, Linked, DlHolds
<1>2. UNCHANGED <<want, excl>> => FreeKept
  BY DEF FreeKept
<1>3. \A w \in Wants : Taken(w) => want[w].status \notin Claimable
  BY DEF Taken, InFlight, Claimable
<1>4. ASSUME NEW w \in Wants, MirrorDownloading(w)
      PROVE  FreeKept
  <2>1. w \in job[dl.job].wants /\ job[dl.job].status \in ActiveJob /\ dl.job \in Jobs
    BY <1>1, <1>4 DEF MirrorDownloading, Owned, SnapshotFresh
  <2>2. Taken(w)
    BY <2>1, JobCarries DEF Owned, TablesOwn
  <2> QED BY <1>1, <1>3, <1>4, <2>2 DEF MirrorDownloading, MirrorWant, FreeKept
<1>5. ASSUME NEW w \in Wants, ExcludeRelease(w)
      PROVE  FreeKept
  <2>1. Taken(w)
    BY <1>5 DEF ExcludeRelease, Owned, DlOwns, BetweenOwners
  <2> QED BY <1>3, <1>5, <2>1 DEF ExcludeRelease, FreeKept
<1>6. ASSUME ReleaseFailed \/ RestampManualHold \/ \E w \in Wants : ReleaseUncovered(w)
      PROVE  FreeKept
  <2>1. \A r \in WantRow : r.status \in Claimable =>
           /\ ReleaseWantFromGrab(r) = r
           /\ SetWantHold(r, "needs_pick").status = r.status
    BY DEF WantRow, ReleaseWantFromGrab, CanRelease, InFlight, Claimable, SetWantHold
  <2> QED BY <1>1, <1>6, <2>1 DEF ReleaseFailed, RestampManualHold, ReleaseUncovered, FreeKept
<1> QED BY <1>2, <1>4, <1>5, <1>6
        DEF DlStep, DlHandle, ClaimRunnableDownloadJobs, PollProgress, PollCompleted,
            PollFailed, Poll, SpawnNoFiles, ClientError, ListError, Enqueue, FileTask,
            MirrorDone, FileDone, UnlinkUncovered, UncoverDone, FailJob, RecoverDone,
            SpawnImportTasks

\* The import worker touches the want of its task, which is taken.
LEMMA ImpFreeKept ==
    ASSUME IInv, Owned, ImpStep
    PROVE  FreeKept
<1>1. want \in [Wants -> WantRow] /\ UNCHANGED excl
  BY DEF IInv, TypeOK, ImpStep, ClaimRunnableImportTasks, ImportError, ImpHandle,
         DestinationExists, RemoveOld, Place, Commit, MirrorAvailable, SetImportTaskFailed,
         MirrorFailed
<1>2. CASE UNCHANGED want
  BY <1>1, <1>2 DEF FreeKept
<1>3. ASSUME imp.pc # "idle", NEW s, MirrorWant(ThisTask.want, s)
      PROVE  FreeKept
  <2>1. ASSUME NEW w \in Wants, w = ThisTask.want
        PROVE  want[w].status \notin Claimable
    <3>1. imp.task \in Tasks /\ imp.task \in ImportsOf(w)
      BY <1>3, <2>1 DEF IInv, Linked, ImpHolds, ImportsOf, Live, ThisTask
    <3> QED BY <3>1 DEF Owned, TaskOwns, Taken, InFlight, Claimable
  <2> QED BY <1>1, <1>3, <2>1 DEF MirrorWant, FreeKept
<1>4. UNCHANGED want \/ (imp.pc # "idle" /\ \E s : MirrorWant(ThisTask.want, s))
  BY DEF ImpStep, ClaimRunnableImportTasks, ImportError, ImpHandle, DestinationExists,
         RemoveOld, Place, Commit, MirrorAvailable, SetImportTaskFailed, MirrorFailed
<1> QED BY <1>2, <1>3, <1>4

-----------------------------------------------------------------------------
(***************************************************************************)
(* Parked.                                                                 *)
(***************************************************************************)
\* A step parks no want, and takes none that is parked.
ParksNone ==
    \A w \in Wants : want'[w].hold = "proposed" =>
        want[w].hold = "proposed" /\ want'[w].status \in Claimable

\* The statements on a want that park none.
LEMMA ParksNot ==
    ASSUME NEW r \in WantRow, r.hold # "proposed"
    PROVE  /\ ReclaimStale(r).hold # "proposed" /\ ClaimWant(r).hold # "proposed"
           /\ BackToPending(r).hold # "proposed" /\ MarkWantFailed(r).hold # "proposed"
           /\ RetryWant(r).hold # "proposed" /\ RearmWant(r).hold # "proposed"
           /\ HoldForSegment(r).hold # "proposed"
           /\ HoldForSegment(RetryWant(r)).hold # "proposed"
           /\ ReleaseHeld(r).hold # "proposed" /\ ReleaseWantFromGrab(r).hold # "proposed"
           /\ \A s \in WantStatus : MirrorWantStatus(r, s).hold # "proposed"
  BY DEF WantRow, ReclaimStale, ClaimWant, BackToPending, MarkWantFailed, RetryWant, RearmWant,
         HoldForSegment, ReleaseHeld, ReleaseWantFromGrab, MirrorWantStatus

\* A parked row, claimable as it is, stays so but when it is failed or re-armed.
LEMMA ParkedRow ==
    ASSUME NEW r \in WantRow, r.hold = "proposed", r.status \in Claimable
    PROVE  /\ ~Stale(r) /\ ~Runnable(r) /\ ~CanRearm(r)
           /\ BackToPending(r).status \in Claimable /\ RetryWant(r) = r
           /\ HoldForSegment(r) = r /\ ReleaseHeld(r) = r /\ HoldProposed(r) = r
           /\ RearmProposed(r) = NewWant
  BY DEF WantRow, Claimable, Stale, Runnable, CanRearm, BackToPending, RetryWant, HoldForSegment,
         CanHold, ReleaseHeld, HoldProposed, RearmProposed

\* The workers that carry a want park none.
LEMMA CarriersPark ==
    ASSUME IInv, Owned, Parked, DlStep \/ ImpStep
    PROVE  ParksNone
<1>1. want \in [Wants -> WantRow]
  BY DEF IInv, TypeOK
<1>2. FreeKept
  BY DlFreeKept, ImpFreeKept
<1>3. \A w \in Wants : want'[w].hold = "proposed" => want[w].hold = "proposed"
  <2>1. ASSUME NEW x, NEW s \in WantStatus, MirrorWant(x, s), NEW w \in Wants
        PROVE  want'[w].hold = "proposed" => want[w].hold = "proposed"
    BY <1>1, <2>1, ParksNot DEF MirrorWant
  <2>2. \/ UNCHANGED want
        \/ \E x, s : s \in WantStatus /\ MirrorWant(x, s)
        \/ ReleaseFailed \/ RestampManualHold \/ \E w \in Wants : ReleaseUncovered(w)
    BY DEF WantStatus, DlStep, DlHandle, ClaimRunnableDownloadJobs, PollProgress, PollCompleted,
           PollFailed, Poll, SpawnNoFiles, ClientError, ListError, Enqueue, FileTask,
           MirrorDownloading, ExcludeRelease, MirrorDone, FileDone, UnlinkUncovered,
           UncoverDone, FailJob, RecoverDone, SpawnImportTasks, ImpStep,
           ClaimRunnableImportTasks, ImportError, ImpHandle, DestinationExists, RemoveOld,
           Place, Commit, MirrorAvailable, SetImportTaskFailed, MirrorFailed
  <2>3. CASE ReleaseFailed \/ \E w \in Wants : ReleaseUncovered(w)
    <3>1. \A w \in Wants : want'[w] = want[w] \/ want'[w] = ReleaseWantFromGrab(want[w])
      <4>1. CASE ReleaseFailed
        BY <1>1, <4>1 DEF ReleaseFailed
      <4>2. ASSUME NEW w \in Wants, ReleaseUncovered(w)
            PROVE  \A x \in Wants : want'[x] = want[x] \/ want'[x] = ReleaseWantFromGrab(want[x])
        BY <1>1, <4>2 DEF ReleaseUncovered
      <4> QED BY <2>3, <4>1, <4>2
    <3> QED BY <1>1, <3>1, ParksNot
  <2>4. CASE RestampManualHold
    BY <1>1, <2>4 DEF RestampManualHold, SetWantHold, WantRow
  <2> QED BY <2>1, <2>2, <2>3, <2>4
<1> QED BY <1>2, <1>3 DEF Parked, ParksNone, FreeKept

\* The acquisition worker parks what it may hold, and only when it proposes.
LEMMA AcqParks ==
    ASSUME IInv, Parked, AcqStep, "propose" \notin Dials \/ "badstate" \notin Faults
    PROVE  Parked' /\ (ParksNone \/ ProposeOrSupersede)
<1>1. /\ want \in [Wants -> WantRow] /\ acq \in AcqState
      /\ tracking.autonomy \in [Segments -> Dials]
  BY DEF IInv, TypeOK
<1>2. ASSUME ParksNone,
             acq'.pc = "propose" => acq.pc = "propose",
             acq'.pc = "fail" => acq.pc = "fail"
      PROVE  Parked' /\ ParksNone
  BY <1>2 DEF Parked, ParksNone
<1>3. UNCHANGED want => ParksNone
  BY DEF Parked, ParksNone
<1>4. ASSUME NEW w \in Wants, Reap(w)
      PROVE  Parked' /\ ParksNone
  <2>1. ParksNone
    BY <1>1, <1>4, ParksNot, ParkedRow DEF Reap, Update, Parked, ParksNone
  <2> QED BY <1>2, <1>4, <2>1 DEF Reap
<1>5. ASSUME NEW S \in SUBSET Wants, ClaimRunnableWants(S)
      PROVE  Parked' /\ ParksNone
  <2>1. ParksNone
    BY <1>1, <1>5, ParksNot, ParkedRow DEF ClaimRunnableWants, Update, Parked, ParksNone
  <2> QED BY <1>1, <1>2, <1>5, <2>1 DEF ClaimRunnableWants, AcqState
<1>6. ASSUME NEW w \in Wants, SkipCovered(w) \/ Search(w)
      PROVE  Parked' /\ ParksNone
  <2>1. UNCHANGED want /\ acq'.pc \notin {"propose", "fail"}
    BY <1>1, <1>6 DEF SkipCovered, Search, StartWant, AcqState
  <2> QED BY <1>2, <1>3, <2>1
<1>7. ASSUME NEW w \in Wants, SearchError(w)
      PROVE  Parked' /\ ParksNone
  <2>1. UNCHANGED want /\ acq'.pc # "propose" /\ (acq'.pc = "fail" => "badstate" \in Faults)
    BY <1>1, <1>7 DEF SearchError, Fault, StartWant, AcqState
  <2> QED BY <1>3, <2>1 DEF Parked, ParksNone
<1>8. CASE Route
  <2>1. UNCHANGED want /\ acq'.pc # "fail" /\ (acq'.pc = "propose" => "propose" \in Dials)
    BY <1>1, <1>8, WantsAssumption DEF Route, AcqState, IInv, Linked, AcqHolds, AutonomyFor
  <2> QED BY <1>3, <2>1 DEF Parked, ParksNone
<1>9. CASE GrabSingle \/ GrabPack
  <2>1. ParksNone
    <3>1. \A w \in Wants : want'[w] \in {want[w], Grabbed}
      BY <1>1, <1>9 DEF GrabSingle, GrabPack
    <3> QED BY <3>1 DEF Parked, ParksNone, Grabbed
  <2>2. acq'.pc \notin {"propose", "fail"}
    BY <1>1, <1>9 DEF GrabSingle, GrabPack, AcqNext, AcqState
  <2> QED BY <1>2, <2>1, <2>2
<1>10. CASE Reschedule
  <2>1. ParksNone
    BY <1>1, <1>10, ParksNot, ParkedRow DEF Reschedule, Update, Parked, ParksNone
  <2> QED BY <1>1, <1>2, <1>10, <2>1 DEF Reschedule, AcqNext, AcqState
<1>11. CASE FailWant
  <2>1. \A w \in Wants : want[w].hold # "proposed"
    BY <1>11 DEF FailWant, Parked
  <2>2. ParksNone
    BY <1>1, <1>11, <2>1, ParksNot DEF FailWant, Update, ParksNone
  <2> QED BY <1>1, <1>2, <1>11, <2>2 DEF FailWant, AcqNext, AcqState
<1>12. CASE ProposeOrSupersede
  <2>1. "propose" \in Dials /\ acq'.pc = "tick"
    BY <1>1, <1>12 DEF ProposeOrSupersede, Parked, AcqNext, AcqState
  <2>2. \A r \in WantRow :
           /\ CanHold(r) => HoldProposed(r).status \in Claimable
           /\ ~CanHold(r) => HoldProposed(r) = r
           /\ RearmProposed(r).hold # "proposed"
    BY DEF WantRow, CanHold, HoldProposed, RearmProposed, NewWant
  <2>3. ASSUME NEW w \in Wants, want'[w].hold = "proposed"
        PROVE  want'[w].status \in Claimable
    <3>1. want'[w] \in {want[w], HoldProposed(want[w]), RearmProposed(want[w])}
      BY <1>12 DEF ProposeOrSupersede, CreateProposal, Supersede, Update
    <3> QED BY <1>1, <2>2, <2>3, <3>1 DEF Parked
  <2> QED BY <1>12, <2>1, <2>3 DEF Parked
<1> QED BY <1>4, <1>5, <1>6, <1>7, <1>8, <1>9, <1>10, <1>11, <1>12 DEF AcqStep, AcqHandle

\* The requests park none.
LEMMA UsrParks ==
    ASSUME IInv, Parked, usr.pc = "idle", Ops \cap Disowning = {}, UsrStep
    PROVE  ParksNone /\ UNCHANGED acq
<1>1. want \in [Wants -> WantRow]
  BY DEF IInv, TypeOK
<1>2. ~ServeCancel
  BY DEF ServeCancel, CancelNextWant, CancelJobsOfWant, CancelDone
<1>3. /\ ~RequestCancelTracking /\ \A w : ~RequestCancelWant(w)
      /\ \A j : ~CancelDownloadJob(j) /\ ~RetryDownload(j)
  BY DEF RequestCancelTracking, RequestCancelWant, CancelDownloadJob, RetryDownload, Request,
         Disowning
<1>4. ASSUME NEW a \in [Segments -> Dials], SetAutonomy(a)
      PROVE  ParksNone /\ UNCHANGED acq
  BY <1>1, <1>4, ParksNot, ParkedRow DEF SetAutonomy, ApplyAutonomy, Parked, ParksNone
<1>5. CASE RetryTracking
  BY <1>1, <1>5, ParksNot, ParkedRow DEF RetryTracking, Parked, ParksNone
<1>6. ASSUME NEW w \in Wants, RearmMovieWant(w)
      PROVE  ParksNone /\ UNCHANGED acq
  <2>1. \A r \in WantRow : SetWantHold(r, "needs_pick").hold # "proposed"
    BY DEF SetWantHold, WantRow
  <2>2. RearmWant(want[w]) \in WantRow
    BY <1>1, WantWrites
  <2> QED BY <1>1, <1>6, <2>1, <2>2, ParksNot, ParkedRow DEF RearmMovieWant, Parked, ParksNone
<1>7. ASSUME \A w \in Wants : want'[w] \in {want[w], Grabbed, NewWant}
      PROVE  ParksNone
  BY <1>7 DEF Parked, ParksNone, Grabbed, NewWant
<1>8. ASSUME NEW w \in Wants, NEW r \in Releases, GrabManual(w, r)
      PROVE  ParksNone /\ UNCHANGED acq
  BY <1>1, <1>7, <1>8, GrabbedByHand
<1>9. ASSUME NEW p \in prop, Approve(p)
      PROVE  ParksNone /\ UNCHANGED acq
  <2>1. \A w \in Wants : want'[w] \in {want[w], Grabbed}
    BY <1>1, <1>9 DEF Approve, ApprovePack, ApproveSingle
  <2> QED BY <1>7, <1>9, <2>1 DEF Approve
<1>10. ASSUME NEW p \in prop, Decline(p)
       PROVE  ParksNone /\ UNCHANGED acq
  BY <1>1, <1>7, <1>10 DEF Decline, Update, RearmProposed
<1>11. ASSUME NEW t \in Tasks, CancelImportTask(t) \/ Reimport(t)
       PROVE  ParksNone /\ UNCHANGED acq
  BY <1>7, <1>11 DEF CancelImportTask, Reimport
<1> QED BY <1>2, <1>3, <1>4, <1>5, <1>6, <1>8, <1>9, <1>10, <1>11 DEF UsrStep, Reactivate

-----------------------------------------------------------------------------
OwnInv == Owned /\ Parked /\ usr.pc = "idle"

LEMMA OwnedStep ==
    ASSUME IInv, OwnInv, Next, Ops \cap Disowning = {},
           "propose" \notin Dials \/ "badstate" \notin Faults
    PROVE  OwnInv'
<1>1. TablesOwn /\ WorkerOwns /\ Owned /\ Parked /\ usr.pc = "idle"
  BY DEF OwnInv, Owned, TablesOwn, WorkerOwns
<1>10. ParksNone /\ UNCHANGED acq => Parked'
  BY <1>1 DEF ParksNone, Parked
<1>2. TablesOwn' /\ WorkerOwns' => Owned'
  BY DEF Owned, TablesOwn, WorkerOwns
<1>3. job' \in [Jobs -> JobRow]
  BY StepKeeps DEF StepOK, IInv, TypeOK
<1>4. ASSUME Takes
      PROVE  TablesOwn' /\ (UNCHANGED dl => WorkerOwns')
  <2>1. PICK j \in Jobs \cup {NoJob}, G \in SUBSET Wants : TakeStep(j, G)
    BY <1>4 DEF Takes
  <2> QED BY <1>1, <1>3, <2>1, TablesKept, WorkerKept
<1>5. CASE AcqStep
  <2>1. UNCHANGED <<dl, usr>>
    BY <1>5 DEF AcqStep, Reap, SearchError, ClaimRunnableWants, AcqHandle, SkipCovered, Search,
                Route, GrabSingle, GrabPack, ProposeOrSupersede, Reschedule, FailWant
  <2> QED BY <1>1, <1>2, <1>4, <1>5, <2>1, AcqTakes, AcqParks DEF OwnInv
<1>6. CASE DlStep
  <2>1. UNCHANGED usr
    BY <1>6 DEF DlStep, DlHandle, ClaimRunnableDownloadJobs, PollProgress, PollCompleted,
                PollFailed, Poll, SpawnNoFiles, ClientError, ListError, Enqueue,
                MirrorDownloading, FileTask, ReleaseUncovered, ExcludeRelease, MirrorDone,
                FileDone, UnlinkUncovered, UncoverDone, FailJob, ReleaseFailed,
                RestampManualHold, RecoverDone, SpawnImportTasks
  <2>2. UNCHANGED acq
    BY <1>6, DlSticky
  <2> QED BY <1>1, <1>2, <1>6, <1>10, <2>1, <2>2, DlOwnsStep, CarriersPark DEF OwnInv
<1>7. CASE ImpStep
  <2>1. UNCHANGED <<dl, usr>>
    BY <1>7 DEF ImpStep, ClaimRunnableImportTasks, ImportError, ImpHandle, DestinationExists,
                RemoveOld, Place, Commit, MirrorAvailable, SetImportTaskFailed, MirrorFailed
  <2>2. UNCHANGED acq
    BY <1>7, ImpSticky
  <2> QED BY <1>1, <1>2, <1>4, <1>7, <1>10, <2>1, <2>2, ImpTakes, CarriersPark DEF OwnInv
<1>8. CASE UsrStep
  <2>1. UNCHANGED dl
    BY <1>8 DEF UsrStep, RequestCancelWant, RequestCancelTracking, ServeCancel, CancelNextWant,
                CancelJobsOfWant, CancelDone, Reactivate, RetryTracking, RearmMovieWant,
                GrabManual, SetAutonomy, Approve, Decline, CancelDownloadJob, RetryDownload,
                CancelImportTask, Reimport
  <2> QED BY <1>1, <1>2, <1>4, <1>8, <1>10, <2>1, UsrTakes, UsrParks DEF OwnInv
<1>9. CASE Crash
  <2>1. TablesOwn'
    BY <1>4, <1>9, CrashTakes
  <2>2. WorkerOwns' /\ usr'.pc = "idle"
    BY <1>9 DEF Crash, DlIdle, UsrIdle, WorkerOwns, SnapshotFresh, DlOwns, EndingOwns
  <2>3. Parked'
    BY <1>1, <1>9 DEF Crash, AcqIdle, Parked
  <2> QED BY <1>2, <2>1, <2>2, <2>3 DEF OwnInv
<1> QED BY <1>5, <1>6, <1>7, <1>8, <1>9 DEF Next

\* Carriers are as Owned says, and parked wants as Parked does, in every instance where
\* no request cancels a want or a job or retries a job, and where no want is failed for
\* a bad state while wants are proposed.
LEMMA OwnedInductive ==
    ASSUME Ops \cap Disowning = {}, "propose" \notin Dials \/ "badstate" \notin Faults
    PROVE  Spec => []OwnInv
<1>1. Init => OwnInv
  BY DEF Init, OwnInv, Owned, JobOwns, TaskOwns, SnapshotFresh, DlOwns, EndingOwns,
         ActiveJobsOf, ImportsOf, Live, NoJobRow, NoTaskRow, DlIdle, ImpIdle, UsrIdle, ActiveJob,
         Parked, AcqIdle, HoldForNewWant, SetWantHold, NewWant
<1>2. IInv /\ OwnInv /\ [Next]_vars => OwnInv'
  <2>1. ASSUME IInv, OwnInv, UNCHANGED vars
        PROVE  OwnInv'
    BY <2>1 DEF vars, OwnInv, Owned, JobOwns, TaskOwns, SnapshotFresh, DlOwns, EndingOwns,
                ActiveJobsOf, ImportsOf, Live, Taken, BetweenOwners, Released, Parked
  <2> QED BY <2>1, OwnedStep
<1> QED BY Inductive, <1>1, <1>2, PTL DEF Spec

\* However packs, singles, proposals, manual grabs, failures and restarts fall together,
\* no want has two live jobs, provided no request cancels a want or a job or retries a
\* job, and no want is failed for a bad state while wants are proposed.
THEOREM OneCarrier ==
    ASSUME Ops \cap Disowning = {}, "propose" \notin Dials \/ "badstate" \notin Faults
    PROVE  Spec => []OneActiveJobPerWant
<1>1. OwnInv => OneActiveJobPerWant
  BY DEF OwnInv, Owned, JobOwns, OneActiveJobPerWant
<1> QED BY OwnedInductive, <1>1, PTL

\* Every want has one carrier at a time: a live job, a live import task, or the
\* download worker ending one of them; and what is carried cannot be grabbed.  For
\* every instance in which no request cancels a want or a job or retries a job, and no
\* want is failed for a bad state while wants are proposed.
THEOREM CarriersOwned ==
    ASSUME Ops \cap Disowning = {}, "propose" \notin Dials \/ "badstate" \notin Faults
    PROVE  Spec => []Owned
<1>1. OwnInv => Owned
  BY DEF OwnInv
<1> QED BY OwnedInductive, <1>1, PTL

-----------------------------------------------------------------------------
(***************************************************************************)
(* A parked want has a proposal to decide on.  A proposal that goes takes  *)
(* the hold of all its wants with it: a pack grabs every one of them,      *)
(* since Parked says that they can be grabbed; a single has one want.      *)
(***************************************************************************)
\* The invariant: a proposal of a single release, and the pick that becomes one, is for
\* one want.
Decidable ==
    /\ ProposedHasProposal
    /\ \A p \in prop : p.release \notin Packs => \A v, w \in p.wants : v = w
    /\ acq.pc \in {"route", "grab", "propose"} /\ acq.release \notin Packs =>
          acq.covered \subseteq {acq.want}

\* A step that parks none and takes no proposal away keeps it.
LEMMA DecidableKept ==
    ASSUME Decidable, ParksNone, UNCHANGED prop,
           UNCHANGED acq \/ acq'.pc \notin {"route", "grab", "propose"}
    PROVE  Decidable'
  BY DEF Decidable, ProposedHasProposal, ParksNone

\* Only a proposal, an approval and a refusal touch the table of proposals.
LEMMA PropKept ==
    ASSUME \/ AcqStep /\ ~ProposeOrSupersede
           \/ DlStep \/ ImpStep
           \/ UsrStep /\ ~\E p \in prop : Approve(p) \/ Decline(p)
    PROVE  UNCHANGED prop
<1>1. CASE AcqStep /\ ~ProposeOrSupersede
  BY <1>1 DEF AcqStep, Reap, SearchError, ClaimRunnableWants, AcqHandle, SkipCovered, Search,
              Route, GrabSingle, GrabPack, Reschedule, FailWant
<1>2. CASE DlStep
  BY <1>2 DEF DlStep, DlHandle, ClaimRunnableDownloadJobs, PollProgress, PollCompleted,
              PollFailed, Poll, SpawnNoFiles, ClientError, ListError, Enqueue,
              MirrorDownloading, FileTask, ReleaseUncovered, ExcludeRelease, MirrorDone,
              FileDone, UnlinkUncovered, UncoverDone, FailJob, ReleaseFailed,
              RestampManualHold, RecoverDone, SpawnImportTasks
<1>3. CASE ImpStep
  BY <1>3 DEF ImpStep, ClaimRunnableImportTasks, ImportError, ImpHandle, DestinationExists,
              RemoveOld, Place, Commit, MirrorAvailable, SetImportTaskFailed, MirrorFailed
<1>4. CASE UsrStep /\ ~\E p \in prop : Approve(p) \/ Decline(p)
  BY <1>4 DEF UsrStep, RequestCancelWant, RequestCancelTracking, ServeCancel, CancelNextWant,
              CancelJobsOfWant, CancelDone, Reactivate, RetryTracking, RearmMovieWant,
              GrabManual, SetAutonomy, CancelDownloadJob, RetryDownload, CancelImportTask,
              Reimport
<1> QED BY <1>1, <1>2, <1>3, <1>4

\* The pick of a single release is for the want it was searched for.
LEMMA AcqPicksOne ==
    ASSUME IInv, Decidable, AcqStep, ~ProposeOrSupersede, ParksNone
    PROVE  Decidable'
<1>1. acq \in AcqState /\ UNCHANGED prop
  BY PropKept DEF IInv, TypeOK
<1>2. ASSUME \/ acq'.pc \notin {"route", "grab", "propose"}
             \/ acq'.release \in Packs
             \/ acq'.covered \subseteq {acq'.want}
      PROVE  Decidable'
  BY <1>1, <1>2 DEF Decidable, ProposedHasProposal, ParksNone
<1>3. CASE \E w \in Wants : Reap(w)
  BY <1>1, <1>3, DecidableKept DEF Reap
<1>4. ASSUME NEW S \in SUBSET Wants, ClaimRunnableWants(S)
      PROVE  Decidable'
  BY <1>1, <1>2, <1>4 DEF ClaimRunnableWants, BetweenTicks, AcqState
<1>5. ASSUME NEW w \in Wants, SkipCovered(w) \/ SearchError(w)
      PROVE  Decidable'
  <2>1. acq'.pc \in {"tick", "retry", "fail"}
    BY <1>1, <1>5 DEF SkipCovered, SearchError, StartWant, AcqState
  <2> QED BY <1>2, <2>1
<1>6. ASSUME NEW w \in Wants, Search(w)
      PROVE  Decidable'
  <2>1. \/ acq'.pc = "recheck"
        \/ acq'.release \in Packs
        \/ acq'.covered = {w} /\ acq'.want = w
    BY <1>1, <1>6 DEF Search, StartWant, AcqState
  <2> QED BY <1>2, <2>1
<1>7. CASE Route
  <2>1. acq'.release = acq.release /\ acq'.covered = acq.covered /\ acq'.want = acq.want
    BY <1>1, <1>7 DEF Route, AcqState
  <2> QED BY <1>2, <1>7, <2>1 DEF Route, Decidable
<1>8. CASE GrabSingle \/ GrabPack \/ Reschedule \/ FailWant
  <2>1. acq'.pc \in {"tick", "recheck"}
    BY <1>1, <1>8 DEF GrabSingle, GrabPack, Reschedule, FailWant, AcqNext, AcqState
  <2> QED BY <1>2, <2>1
<1> QED BY <1>3, <1>4, <1>5, <1>6, <1>7, <1>8 DEF AcqStep, AcqHandle

\* A proposal made or superseded: what it holds is on the new one.
LEMMA ProposeDecidable ==
    ASSUME IInv, Decidable, ProposeOrSupersede
    PROVE  Decidable'
<1>1. want \in [Wants -> WantRow] /\ acq \in AcqState
  BY DEF IInv, TypeOK
<1>2. /\ acq'.pc = "tick"
      /\ acq.release \notin Packs => acq.covered \subseteq {acq.want}
  BY <1>1 DEF ProposeOrSupersede, AcqNext, AcqState, Decidable
<1>3. ASSUME ProposedHasProposal',
             \A p \in prop' : \/ p \in prop
                              \/ p.release = acq.release /\ p.wants \subseteq acq.covered
      PROVE  Decidable'
  <2>1. ASSUME NEW p \in prop', p.release \notin Packs, NEW v \in p.wants, NEW w \in p.wants
        PROVE  v = w
    BY <1>2, <1>3, <2>1 DEF Decidable
  <2> QED BY <1>2, <1>3, <2>1 DEF Decidable
<1>4. CASE CreateProposal
  <2> DEFINE held == {w \in acq.covered : CanHold(want[w])}
             made == [release |-> acq.release, wants |-> held]
  <2>1. \A p \in prop' : p \in prop \/ p = made
    BY <1>4 DEF CreateProposal
  <2>2. \A p \in prop : p \in prop'
    BY <1>4 DEF CreateProposal
  <2>3. ASSUME NEW w \in Wants, want'[w].hold = "proposed"
        PROVE  \E p \in prop' : w \in p.wants
    <3>1. CASE w \in held
      <4>1. made \in prop' /\ w \in made.wants
        BY <1>4, <3>1 DEF CreateProposal
      <4> QED BY <4>1
    <3>2. CASE w \notin held
      <4>1. want'[w] = want[w]
        BY <1>4, <3>2 DEF CreateProposal, Update
      <4> QED BY <2>2, <2>3, <4>1 DEF Decidable, ProposedHasProposal
    <3> QED BY <3>1, <3>2
  <2>4. ProposedHasProposal'
    BY <2>3 DEF ProposedHasProposal
  <2> QED BY <1>3, <2>1, <2>4
<1>5. ASSUME NEW q \in prop, Supersede(q)
      PROVE  Decidable'
  <2>1. Picked \in prop' /\ Picked.wants = acq.covered /\ Picked.release = acq.release
    BY <1>5 DEF Supersede, Picked
  <2>2. \A p \in prop : p = q \/ p \in prop'
    BY <1>5 DEF Supersede
  <2>3. \A p \in prop' : p \in prop \/ p = Picked
    BY <1>5 DEF Supersede
  <2>4. \A r \in WantRow : RearmProposed(r).hold # "proposed"
    BY DEF WantRow, RearmProposed, NewWant
  <2>5. ASSUME NEW w \in Wants, want'[w].hold = "proposed"
        PROVE  \E p \in prop' : w \in p.wants
    <3>1. CASE w \in acq.covered
      BY <2>1, <3>1
    <3>2. CASE w \in q.wants \ acq.covered
      <4>1. want'[w] = RearmProposed(want[w])
        BY <1>5, <3>2 DEF Supersede
      <4> QED BY <1>1, <2>4, <2>5, <4>1
    <3>3. CASE w \notin acq.covered /\ w \notin q.wants
      <4>1. want'[w] = want[w]
        BY <1>5, <3>3 DEF Supersede
      <4> QED BY <2>2, <2>5, <3>3, <4>1 DEF Decidable, ProposedHasProposal
    <3> QED BY <3>1, <3>2, <3>3
  <2>6. ProposedHasProposal'
    BY <2>5 DEF ProposedHasProposal
  <2> QED BY <1>3, <2>1, <2>3, <2>6
<1>6. CASE UNCHANGED <<want, prop>>
  BY <1>2, <1>6 DEF Decidable, ProposedHasProposal
<1> QED BY <1>4, <1>5, <1>6 DEF ProposeOrSupersede, OpenProposals

\* A proposal decided: none of its wants is parked any more.
LEMMA DecisionDecidable ==
    ASSUME IInv, Parked, Decidable, NEW q \in prop, Approve(q) \/ Decline(q)
    PROVE  Decidable'
<1>1. want \in [Wants -> WantRow] /\ q.wants \subseteq Wants
  BY DEF IInv, TypeOK, Proposals
<1>2. prop' = prop \ {q} /\ UNCHANGED acq
  BY DEF Approve, Decline
<1>3. ASSUME \A w \in Wants : want'[w] = want[w] \/ want'[w].hold # "proposed",
             \A w \in q.wants : want'[w].hold # "proposed"
      PROVE  Decidable'
  BY <1>2, <1>3 DEF Decidable, ProposedHasProposal
<1>4. CASE Decline(q)
  <2>1. \A r \in WantRow : RearmProposed(r) = r \/ RearmProposed(r).hold # "proposed"
    BY DEF WantRow, RearmProposed, NewWant
  <2>2. \A r \in WantRow : RearmProposed(r).hold # "proposed"
    BY DEF WantRow, RearmProposed, NewWant
  <2> QED BY <1>1, <1>3, <1>4, <2>1, <2>2 DEF Decline, Update
<1>5. CASE Approve(q) /\ q.release \in Packs
  <2>1. \A w \in Wants : want'[w] = IF w \in q.wants /\ CanGrabForPack(want[w]) THEN Grabbed
                                    ELSE want[w]
    BY <1>5 DEF Approve, ApprovePack
  <2>2. \A w \in q.wants : CanGrabForPack(want[w]) \/ want[w].hold # "proposed"
    BY <1>1 DEF Parked, CanGrabForPack
  <2> QED BY <1>1, <1>3, <2>1, <2>2 DEF Grabbed
<1>6. CASE Approve(q) /\ q.release \notin Packs
  <2>1. PICK w \in q.wants : want' = [want EXCEPT ![w] = Grabbed]
    BY <1>6 DEF Approve, ApproveSingle
  <2>2. \A v \in q.wants : v = w
    BY <1>6 DEF Decidable
  <2> QED BY <1>1, <1>3, <2>1, <2>2 DEF Grabbed
<1> QED BY <1>4, <1>5, <1>6

LEMMA DecidableStep ==
    ASSUME IInv, OwnInv, Decidable, Next, Ops \cap Disowning = {},
           "propose" \notin Dials \/ "badstate" \notin Faults
    PROVE  Decidable'
<1>1. Owned /\ Parked /\ usr.pc = "idle"
  BY DEF OwnInv
<1>2. CASE AcqStep
  BY <1>1, <1>2, AcqParks, AcqPicksOne, ProposeDecidable
<1>3. CASE DlStep \/ ImpStep
  <2>1. UNCHANGED acq
    BY <1>3, DlSticky, ImpSticky
  <2> QED BY <1>1, <1>3, <2>1, CarriersPark, PropKept, DecidableKept
<1>4. CASE UsrStep
  <2>1. CASE \E p \in prop : Approve(p) \/ Decline(p)
    BY <1>1, <2>1, DecisionDecidable
  <2>2. CASE ~\E p \in prop : Approve(p) \/ Decline(p)
    BY <1>1, <1>4, <2>2, UsrParks, PropKept, DecidableKept
  <2> QED BY <2>1, <2>2
<1>5. CASE Crash
  BY <1>5 DEF Crash, AcqIdle, Decidable, ProposedHasProposal
<1> QED BY <1>2, <1>3, <1>4, <1>5 DEF Next

\* A want parked for the operator's decision has a proposal to decide on, whatever is
\* superseded, approved, declined or crashes meanwhile, provided no request cancels a
\* want or a job or retries a job, and no want is failed for a bad state while wants are
\* proposed.
THEOREM ParkedHasProposal ==
    ASSUME Ops \cap Disowning = {}, "propose" \notin Dials \/ "badstate" \notin Faults
    PROVE  Spec => []ProposedHasProposal
<1>1. Init => Decidable
  BY DEF Init, Decidable, ProposedHasProposal, HoldForNewWant, SetWantHold, NewWant, AcqIdle
<1>2. IInv /\ OwnInv /\ Decidable /\ [Next]_vars => Decidable'
  <2>1. ASSUME Decidable, UNCHANGED vars
        PROVE  Decidable'
    BY <2>1 DEF vars, Decidable, ProposedHasProposal
  <2> QED BY <2>1, DecidableStep
<1>3. Decidable => ProposedHasProposal
  BY DEF Decidable
<1> QED BY Inductive, OwnedInductive, <1>1, <1>2, <1>3, PTL DEF Spec

-----------------------------------------------------------------------------
(***************************************************************************)
(* No want is imported twice, while no request brings an ended want back.  *)
(* The invariant is ImportedOnce: once a want has an import task, nothing  *)
(* is ahead of it.  Ahead is what the steps can only make smaller, all but *)
(* the one that makes the task; that step ends what is ahead of its want,  *)
(* which Owned says is in the download worker's hands alone.               *)
(***************************************************************************)
Reviving == {"retry", "rearm", "manual_grab"}

\* The wants that may be grabbed are among those that could be, jobs come to be and
\* live jobs take on wants only by grabbing them, and no want is given a task.
NothingAhead ==
    /\ \A w \in Wants : want'[w].status \in Claimable => want[w].status \in Claimable
    /\ \A j \in Jobs : \A w \in job'[j].wants :
          \/ w \in job[j].wants /\ (job'[j].status \in ActiveJob => job[j].status \in ActiveJob)
          \/ w \in Wants /\ want[w].status \in Claimable
    /\ \A t \in Tasks : task'[t].want \in Wants => task'[t].want = task[t].want

\* Where nothing new comes ahead and no task is made for a want, ImportedOnce is kept.
LEMMA AheadShrinks ==
    ASSUME ImportedOnce, \A w \in Wants : Ahead(w)' => Ahead(w),
           \A t \in Tasks : task'[t].want \in Wants => task'[t].want = task[t].want
    PROVE  ImportedOnce'
  BY DEF ImportedOnce, SingleImport

\* A step of another process, or a restart.
LEMMA AheadElsewhere ==
    ASSUME IInv, NothingAhead, UNCHANGED dl \/ dl' = DlIdle, NEW w \in Wants, Ahead(w)'
    PROVE  Ahead(w)
<1>1. want'[w].status \in Claimable => Ahead(w)
  BY DEF NothingAhead, Ahead
<1>2. ActiveJobsOf(w)' # {} => Ahead(w)
  BY DEF NothingAhead, Ahead, ActiveJobsOf
<1>3. ASSUME UNCHANGED dl, dl.pc # "idle", w \in job'[dl.job].wants
      PROVE  w \in job[dl.job].wants \/ Ahead(w)
  BY <1>3 DEF NothingAhead, Ahead, IInv, Linked, DlHolds
<1>4. CASE UNCHANGED dl
  BY <1>1, <1>2, <1>3, <1>4 DEF Ahead
<1>5. CASE dl' = DlIdle
  BY <1>1, <1>2, <1>5 DEF Ahead, DlIdle
<1> QED BY <1>4, <1>5

\* A grab of wants that can be grabbed brings nothing new ahead.
LEMMA GrabNotAhead ==
    ASSUME IInv, NEW j \in Jobs, NEW r, NEW G \in SUBSET Wants, CreateDownloadJob(j, r, G),
           \A w \in G : want[w].status \in Claimable,
           want' = [w \in Wants |-> IF w \in G THEN Grabbed ELSE want[w]],
           UNCHANGED task
    PROVE  NothingAhead
<1>1. job \in [Jobs -> JobRow]
  BY DEF IInv, TypeOK
<1>2. /\ \A i \in Jobs \ {j} : job'[i] = job[i]
      /\ IF Indexed(j) THEN job'[j].status = job[j].status /\ job'[j].wants = job[j].wants \cup G
         ELSE job'[j].wants = G
  BY <1>1 DEF CreateDownloadJob, NewJob, JobRow
<1>3. \A w \in Wants : want'[w].status \in Claimable => want[w].status \in Claimable
  BY DEF Grabbed, Claimable
<1> QED BY <1>2, <1>3 DEF NothingAhead

\* The acquisition worker.
LEMMA AcqNotAhead ==
    ASSUME IInv, Parked, AcqStep
    PROVE  NothingAhead
<1>1. want \in [Wants -> WantRow]
  BY DEF IInv, TypeOK
<1>2. ASSUME UNCHANGED <<job, task>>,
             \A w \in Wants : want'[w].status \in Claimable => want[w].status \in Claimable
      PROVE  NothingAhead
  BY <1>2 DEF NothingAhead
<1>3. ASSUME NEW w \in Wants, Reap(w) \/ SkipCovered(w) \/ Search(w) \/ SearchError(w)
      PROVE  NothingAhead
  BY <1>1, <1>2, <1>3 DEF Reap, SkipCovered, Search, SearchError, Update, Stale, ReclaimStale,
                          WantRow, Claimable
<1>4. ASSUME NEW S \in SUBSET Wants, ClaimRunnableWants(S)
      PROVE  NothingAhead
  BY <1>1, <1>2, <1>4 DEF ClaimRunnableWants, Update, ClaimWant, Runnable, WantRow, Claimable
<1>5. CASE Route
  BY <1>2, <1>5 DEF Route
<1>6. CASE GrabSingle
  <2>1. CASE CanGrabWant(want[acq.want])
    <3>1. PICK j \in Jobs : CreateDownloadJob(j, acq.release, {acq.want})
      BY <1>6, <2>1 DEF GrabSingle
    <3>2. acq.want \in Wants /\ want[acq.want].status \in Claimable
      BY <1>6, <2>1 DEF GrabSingle, IInv, Linked, AcqHolds, CanGrabWant, Claimable
    <3>3. want' = [w \in Wants |-> IF w \in {acq.want} THEN Grabbed ELSE want[w]]
      BY <1>1, <1>6, <2>1, <3>2 DEF GrabSingle
    <3> QED BY <1>6, <3>1, <3>2, <3>3, GrabNotAhead DEF GrabSingle
  <2>2. CASE ~CanGrabWant(want[acq.want])
    BY <1>2, <1>6, <2>2 DEF GrabSingle
  <2> QED BY <2>1, <2>2
<1>7. CASE GrabPack
  <2> DEFINE claimed == ClaimedBy(acq.covered)
  <2>1. PICK j \in Jobs : CreateDownloadJob(j, acq.release, claimed)
    BY <1>7 DEF GrabPack
  <2>2. claimed \in SUBSET Wants /\ \A w \in claimed : want[w].status \in Claimable
    BY DEF ClaimedBy, CanGrabForPack, IInv, TypeOK, AcqState
  <2>3. want' = [w \in Wants |-> IF w \in claimed THEN Grabbed ELSE want[w]]
    BY <1>7 DEF GrabPack
  <2> QED BY <1>7, <2>1, <2>2, <2>3, GrabNotAhead DEF GrabPack
<1>8. CASE Reschedule \/ FailWant
  BY <1>1, <1>2, <1>8 DEF Reschedule, FailWant, Update, BackToPending, MarkWantFailed, WantRow,
                          Claimable
<1>9. CASE ProposeOrSupersede
  <2>1. \A w \in Wants : want'[w] \in {want[w], HoldProposed(want[w]), RearmProposed(want[w])}
    BY <1>1, <1>9 DEF ProposeOrSupersede, CreateProposal, Supersede, Update
  <2>2. \A w \in Wants : want'[w].status \in Claimable => want[w].status \in Claimable
    BY <1>1, <2>1, TakenKept DEF Parked
  <2> QED BY <1>2, <1>9, <2>2 DEF ProposeOrSupersede
<1> QED BY <1>3, <1>4, <1>5, <1>6, <1>7, <1>8, <1>9 DEF AcqStep, AcqHandle

\* The import worker.
LEMMA ImpNotAhead ==
    ASSUME IInv, ImpStep
    PROVE  NothingAhead
<1>1. want \in [Wants -> WantRow] /\ task \in [Tasks -> TaskRow]
  BY DEF IInv, TypeOK
<1>2. UNCHANGED job
  BY DEF ImpStep, ClaimRunnableImportTasks, ImportError, ImpHandle, DestinationExists,
         RemoveOld, Place, Commit, MirrorAvailable, SetImportTaskFailed, MirrorFailed
<1>3. \A w \in Wants : want'[w].status \in Claimable => want[w].status \in Claimable
  <2>1. ASSUME NEW x, NEW s \in WantStatus \ Claimable, MirrorWant(x, s)
        PROVE  \A w \in Wants : want'[w].status \in Claimable => want[w].status \in Claimable
    BY <1>1, <2>1 DEF MirrorWant, MirrorWantStatus, WantRow
  <2>2. {"imported", "available", "failed"} \subseteq WantStatus \ Claimable
    BY DEF WantStatus, Claimable
  <2>3. CASE UNCHANGED want
    BY <2>3
  <2>4. \/ UNCHANGED want
        \/ \E s \in {"imported", "available", "failed"} : MirrorWant(ThisTask.want, s)
    BY DEF ImpStep, ClaimRunnableImportTasks, ImportError, ImpHandle, DestinationExists,
           RemoveOld, Place, Commit, MirrorAvailable, SetImportTaskFailed, MirrorFailed
  <2> QED BY <2>1, <2>2, <2>3, <2>4
<1>4. \A t \in Tasks : task'[t].want = task[t].want
  BY <1>1 DEF ImpStep, ClaimRunnableImportTasks, ImportError, ImpHandle, DestinationExists,
              RemoveOld, Place, Commit, MirrorAvailable, SetImportTaskFailed, MirrorFailed,
              TaskRow
<1> QED BY <1>2, <1>3, <1>4 DEF NothingAhead

\* The requests that are left.
LEMMA UsrNotAhead ==
    ASSUME IInv, Parked, usr.pc = "idle", Ops \cap (Disowning \cup Reviving) = {},
           UsrStep
    PROVE  NothingAhead
<1>1. want \in [Wants -> WantRow] /\ task \in [Tasks -> TaskRow]
  BY DEF IInv, TypeOK
<1>2. ~ServeCancel
  BY DEF ServeCancel, CancelNextWant, CancelJobsOfWant, CancelDone
<1>3. /\ ~RequestCancelTracking /\ \A w : ~RequestCancelWant(w)
      /\ \A j : ~CancelDownloadJob(j) /\ ~RetryDownload(j)
  BY DEF RequestCancelTracking, RequestCancelWant, CancelDownloadJob, RetryDownload, Request,
         Disowning
<1>4. ~Reactivate
  BY DEF Reactivate, RetryTracking, RearmMovieWant, GrabManual, Request, Reviving
<1>5. ASSUME NEW a \in [Segments -> Dials], SetAutonomy(a)
      PROVE  NothingAhead
  BY <1>1, <1>5, TakenKept DEF SetAutonomy, ApplyAutonomy, NothingAhead
<1>6. ASSUME NEW p \in prop, Approve(p) \/ Decline(p)
      PROVE  NothingAhead
  <2>1. p.wants \in SUBSET Wants
    BY DEF IInv, TypeOK, Proposals
  <2>2. CASE Decline(p)
    BY <1>1, <2>2, TakenKept DEF Decline, Update, Parked, NothingAhead
  <2>3. CASE Approve(p) /\ ApprovePack(p)
    <3> DEFINE G == {w \in p.wants : CanGrabForPack(want[w])}
    <3>1. PICK j \in Jobs : CreateDownloadJob(j, p.release, G)
      BY <2>3 DEF ApprovePack
    <3>2. G \in SUBSET Wants /\ \A w \in G : want[w].status \in Claimable
      BY <2>1 DEF CanGrabForPack
    <3>3. want' = [w \in Wants |-> IF w \in G THEN Grabbed ELSE want[w]] /\ UNCHANGED task
      BY <2>3 DEF Approve, ApprovePack
    <3> HIDE DEF G
    <3> QED BY <3>1, <3>2, <3>3, GrabNotAhead
  <2>4. CASE Approve(p) /\ ApproveSingle(p)
    <3>1. PICK w \in p.wants, j \in Jobs :
              /\ CanGrabWant(want[w]) /\ CreateDownloadJob(j, p.release, {w})
              /\ want' = [want EXCEPT ![w] = Grabbed]
      BY <2>4 DEF ApproveSingle
    <3>2. {w} \in SUBSET Wants /\ \A v \in {w} : want[v].status \in Claimable
      BY <2>1, <3>1 DEF CanGrabWant, Claimable
    <3>3. want' = [v \in Wants |-> IF v \in {w} THEN Grabbed ELSE want[v]] /\ UNCHANGED task
      BY <1>1, <2>1, <2>4, <3>1 DEF Approve
    <3> QED BY <3>1, <3>2, <3>3, GrabNotAhead
  <2> QED BY <1>6, <2>2, <2>3, <2>4 DEF Approve
<1>7. ASSUME NEW t \in Tasks, CancelImportTask(t)
      PROVE  NothingAhead
  BY <1>1, <1>7 DEF CancelImportTask, NothingAhead, TaskRow
<1>8. ASSUME NEW t \in Tasks, Reimport(t)
      PROVE  NothingAhead
  <2>1. PICK u \in Tasks : CreateImportTask(u, task[t].job, task[t].episode, NoWant, TRUE)
    BY <1>8 DEF Reimport
  <2>2. task'[u].want \notin Wants /\ \A v \in Tasks \ {u} : task'[v] = task[v]
    BY <1>1, <2>1, WantsAssumption DEF CreateImportTask, NewTask
  <2> QED BY <1>8, <2>2 DEF Reimport, NothingAhead
<1> QED BY <1>2, <1>3, <1>4, <1>5, <1>6, <1>7, <1>8 DEF UsrStep

\* The download worker, up to the end of the download.
LEMMA ProcessNotAhead ==
    ASSUME IInv, Owned, NEW w \in Wants, Ahead(w)',
           \/ \E j \in Jobs : ClaimRunnableDownloadJobs(j)
           \/ Enqueue \/ PollProgress \/ PollCompleted \/ PollFailed \/ ClientError
           \/ MirrorDone \/ \E v \in Wants : MirrorDownloading(v)
    PROVE  Ahead(w)
<1>1. dl \in DlState /\ job \in [Jobs -> JobRow] /\ want \in [Wants -> WantRow]
  BY DEF IInv, TypeOK
<1>2. /\ dl.pc # "idle" => dl.job \in Jobs /\ job[dl.job].status # "absent"
      /\ dl.pc = "process" => dl.status \in ActiveJob /\ job[dl.job].status = dl.status
  BY DEF IInv, Linked, DlHolds, Owned, SnapshotFresh
<1>3. dl.pc = "process" /\ w \in job[dl.job].wants => Ahead(w)
  BY <1>2 DEF Ahead, ActiveJobsOf
<1>4. CASE \E j \in Jobs : ClaimRunnableDownloadJobs(j)
  <2>1. dl'.pc = "process" /\ UNCHANGED <<want, job>>
    BY <1>4 DEF ClaimRunnableDownloadJobs, DlIdle
  <2> QED BY <2>1 DEF Ahead, ActiveJobsOf
<1>5. CASE MirrorDone
  BY <1>5 DEF MirrorDone, DlIdle, Ahead, ActiveJobsOf
<1>6. ASSUME NEW v \in Wants, MirrorDownloading(v)
      PROVE  Ahead(w)
  <2>1. want'[w].status \in Claimable => want[w].status \in Claimable
    BY <1>1, <1>6 DEF MirrorDownloading, MirrorWant, MirrorWantStatus, WantRow, Claimable
  <2>2. dl'.pc = "mirror" /\ ActiveJobsOf(w)' = ActiveJobsOf(w)
    BY <1>1, <1>6 DEF MirrorDownloading, DlState, ActiveJobsOf
  <2> QED BY <2>1, <2>2 DEF Ahead
<1>7. ASSUME dl.pc = "process", UNCHANGED want,
             \A j \in Jobs : job'[j].wants = job[j].wants /\
                (job'[j].status \in ActiveJob => job[j].status \in ActiveJob),
             dl' = DlIdle \/ (dl'.pc \in {"fail", "mirror", "spawn"} /\ dl'.job = dl.job)
      PROVE  Ahead(w)
  <2>1. want[w].status \in Claimable \/ ActiveJobsOf(w)' # {} \/ w \in job'[dl.job].wants
    BY <1>7 DEF Ahead, DlIdle
  <2>2. ActiveJobsOf(w)' \subseteq ActiveJobsOf(w)
    BY <1>7 DEF ActiveJobsOf
  <2> QED BY <1>2, <1>3, <1>7, <2>1, <2>2 DEF Ahead
<1>8. CASE Enqueue \/ ClientError
  <2>1. /\ dl.pc = "process" /\ UNCHANGED want
        /\ dl' = DlIdle \/ dl' = [dl EXCEPT !.pc = "fail"]
        /\ \/ UNCHANGED job
           \/ job' = [job EXCEPT ![dl.job] = SetEnqueued(@)]
           \/ job' = [job EXCEPT ![dl.job].attempts = @ + 1]
    BY <1>8 DEF Enqueue, ClientError, RetryOrFailJob, Goto
  <2>2. \A j \in Jobs : job'[j].wants = job[j].wants /\
           (job'[j].status \in ActiveJob => job[j].status \in ActiveJob)
    <3>1. dl.job \in Jobs /\ job[dl.job].status \in ActiveJob
      BY <1>2, <2>1
    <3>2. CASE job' = [job EXCEPT ![dl.job] = SetEnqueued(@)]
      BY <1>1, <3>1, <3>2 DEF SetEnqueued, JobRow
    <3>3. CASE job' = [job EXCEPT ![dl.job].attempts = @ + 1]
      BY <1>1, <3>1, <3>3 DEF JobRow
    <3> QED BY <2>1, <3>2, <3>3
  <2>3. dl' = DlIdle \/ (dl'.pc = "fail" /\ dl'.job = dl.job)
    BY <1>1, <2>1 DEF DlState
  <2> QED BY <1>7, <2>1, <2>2, <2>3
<1>9. ASSUME NEW st \in {"downloading", "completed", "failed"}, Poll(st)
      PROVE  Ahead(w)
  <2>1. /\ dl.pc = "process" /\ UNCHANGED want
        /\ dl' = DlIdle \/ (dl'.pc \in {"fail", "mirror", "spawn"} /\ dl'.job = dl.job)
        /\ UNCHANGED job \/ SetJobStatus(dl.job, st)
    BY <1>1, <1>9 DEF Poll, Goto, AfterPoll, DlState
  <2>2. \A j \in Jobs : job'[j].wants = job[j].wants /\
           (job'[j].status \in ActiveJob => job[j].status \in ActiveJob)
    BY <1>1, <1>2, <2>1 DEF SetJobStatus, JobRow
  <2> QED BY <1>7, <2>1, <2>2
<1> QED BY <1>4, <1>5, <1>6, <1>8, <1>9 DEF PollProgress, PollCompleted, PollFailed

\* From the listing of the files to the last release.
LEMMA FileNotAhead ==
    ASSUME IInv, Owned, NEW w \in Wants, Ahead(w)',
           \/ ListError \/ SpawnNoFiles \/ \E F \in SUBSET Wants : SpawnImportTasks(F)
           \/ FileDone \/ UncoverDone \/ UnlinkUncovered \/ \E v \in Wants : ReleaseUncovered(v)
    PROVE  Ahead(w)
<1>1. /\ dl \in DlState /\ job \in [Jobs -> JobRow] /\ want \in [Wants -> WantRow]
      /\ dl.pc # "idle" => dl.job \in Jobs
      /\ dl.pc = "spawn" => ~dl.made
  BY DEF IInv, TypeOK, Linked, DlHolds, Owned, EndingOwns
<1>2. ASSUME dl.pc = "spawn", UNCHANGED want,
             \A j \in Jobs : job'[j].wants = job[j].wants /\ job'[j].status = job[j].status,
             \/ dl' = DlIdle
             \/ dl'.pc = "fail" /\ dl'.job = dl.job
             \/ /\ dl'.pc = "file" /\ dl'.job = dl.job /\ dl'.uncovered \subseteq job[dl.job].wants
                /\ dl'.linked => dl'.todo \subseteq job[dl.job].wants
      PROVE  Ahead(w)
  <2>1. ActiveJobsOf(w)' = ActiveJobsOf(w)
    BY <1>2 DEF ActiveJobsOf
  <2> QED BY <1>1, <1>2, <2>1 DEF Ahead, DlIdle
<1>3. CASE ListError \/ SpawnNoFiles
  <2>1. /\ dl.pc = "spawn" /\ UNCHANGED want
        /\ dl' = DlIdle \/ dl' = [dl EXCEPT !.pc = "fail"]
        /\ UNCHANGED job \/ job' = [job EXCEPT ![dl.job].attempts = @ + 1]
    BY <1>3 DEF ListError, SpawnNoFiles, RetryOrFailJob, Goto
  <2>2. \A j \in Jobs : job'[j].wants = job[j].wants /\ job'[j].status = job[j].status
    BY <1>1, <2>1 DEF JobRow
  <2>3. dl' = DlIdle \/ (dl'.pc = "fail" /\ dl'.job = dl.job)
    BY <1>1, <2>1 DEF DlState
  <2> QED BY <1>2, <2>1, <2>2, <2>3
<1>4. ASSUME NEW F \in SUBSET Wants, SpawnImportTasks(F)
      PROVE  Ahead(w)
  <2> DEFINE linked == job[dl.job].wants
  <2>1. /\ dl'.pc = "file" /\ dl'.job = dl.job
        /\ dl'.todo = IF linked = {} THEN F ELSE F \cap linked
        /\ dl'.linked = (linked # {}) /\ dl'.uncovered = linked \ F
    BY <1>1, <1>4 DEF SpawnImportTasks, LinkedTo, DlState
  <2>2. dl.pc = "spawn" /\ UNCHANGED <<want, job>>
    BY <1>4 DEF SpawnImportTasks
  <2> QED BY <1>2, <2>1, <2>2
<1>5. CASE FileDone
  <2>1. /\ dl.pc = "file" /\ UNCHANGED <<want, job>>
        /\ dl'.pc = "uncover" /\ dl'.job = dl.job /\ dl'.made = dl.made
        /\ dl'.uncovered = dl.uncovered
    BY <1>1, <1>5 DEF FileDone, Goto, DlState
  <2> QED BY <2>1 DEF Ahead, ActiveJobsOf
<1>6. CASE UncoverDone
  <2>1. /\ dl.pc = "uncover" /\ UNCHANGED <<want, job>>
        /\ dl' = DlIdle \/ (~dl.made /\ dl'.pc = "fail" /\ dl'.job = dl.job)
    BY <1>1, <1>6 DEF UncoverDone, Goto, DlState
  <2> QED BY <2>1 DEF Ahead, ActiveJobsOf, DlIdle
<1>7. CASE UnlinkUncovered
  <2>1. /\ dl.pc = "unlink" /\ UNCHANGED want
        /\ dl'.pc = "uncover" /\ dl'.job = dl.job /\ dl'.made = dl.made
        /\ dl'.uncovered \subseteq dl.uncovered
        /\ \A j \in Jobs : job'[j].status = job[j].status /\ job'[j].wants \subseteq job[j].wants
    BY <1>1, <1>7 DEF UnlinkUncovered, DlState, JobRow
  <2>2. ActiveJobsOf(w)' \subseteq ActiveJobsOf(w)
    BY <2>1 DEF ActiveJobsOf
  <2> QED BY <1>1, <2>1, <2>2 DEF Ahead
<1>8. ASSUME NEW v \in Wants, ReleaseUncovered(v)
      PROVE  Ahead(w)
  <2>1. /\ dl.pc = "uncover" /\ v \in dl.uncovered /\ UNCHANGED job
        /\ dl'.pc = "unlink" /\ dl'.job = dl.job /\ dl'.made = dl.made
        /\ dl'.uncovered = dl.uncovered
        /\ \A x \in Wants \ {v} : want'[x] = want[x]
    BY <1>1, <1>8 DEF ReleaseUncovered, DlState
  <2>2. w = v => Ahead(w)
    BY <2>1 DEF Ahead
  <2> QED BY <2>1, <2>2 DEF Ahead, ActiveJobsOf
<1> QED BY <1>3, <1>4, <1>5, <1>6, <1>7, <1>8

\* Where a job is failed and its wants recovered: the worker releases what it had.
LEMMA RecoverNotAhead ==
    ASSUME IInv, NEW w \in Wants, Ahead(w)',
           \/ FailJob \/ ReleaseFailed \/ RestampManualHold \/ RecoverDone
           \/ \E v \in Wants : ExcludeRelease(v)
    PROVE  Ahead(w)
<1>1. /\ dl \in DlState /\ job \in [Jobs -> JobRow] /\ want \in [Wants -> WantRow]
      /\ dl.pc # "idle" => dl.job \in Jobs
      /\ dl.pc \in {"release", "restamp"} => dl.want \in Wants
  BY DEF IInv, TypeOK, Linked, DlHolds
<1>2. CASE FailJob
  <2>1. /\ dl.pc = "fail" /\ UNCHANGED want
        /\ dl'.pc = "recover" /\ dl'.todo = job[dl.job].wants
        /\ \A j \in Jobs : job'[j].wants = job[j].wants /\
              (job'[j].status \in ActiveJob => job[j].status \in ActiveJob)
    BY <1>1, <1>2 DEF FailJob, LinkedTo, SetJobStatus, DlState, JobRow, ActiveJob
  <2>2. ActiveJobsOf(w)' \subseteq ActiveJobsOf(w)
    BY <2>1 DEF ActiveJobsOf
  <2> QED BY <2>1, <2>2 DEF Ahead
<1>3. ASSUME NEW v \in Wants, ExcludeRelease(v)
      PROVE  Ahead(w)
  <2>1. /\ dl.pc = "recover" /\ v \in dl.todo /\ UNCHANGED <<want, job>>
        /\ dl'.pc = "release" /\ dl'.want = v /\ dl'.todo \subseteq dl.todo
    BY <1>1, <1>3 DEF ExcludeRelease, DlState
  <2> QED BY <2>1 DEF Ahead, ActiveJobsOf
<1>4. CASE ReleaseFailed
  <2>1. /\ dl.pc = "release" /\ UNCHANGED job
        /\ dl'.pc \in {"restamp", "recover"} /\ dl'.todo = dl.todo
        /\ \A x \in Wants \ {dl.want} : want'[x] = want[x]
    BY <1>1, <1>4 DEF ReleaseFailed, Goto, DlState
  <2>2. w = dl.want => Ahead(w)
    BY <2>1 DEF Ahead
  <2> QED BY <2>1, <2>2 DEF Ahead, ActiveJobsOf
<1>5. CASE RestampManualHold
  <2>1. /\ dl.pc = "restamp" /\ UNCHANGED job
        /\ dl'.pc = "recover" /\ dl'.todo = dl.todo
        /\ \A x \in Wants : want'[x].status = want[x].status
    BY <1>1, <1>5 DEF RestampManualHold, Goto, DlState, SetWantHold, WantRow
  <2> QED BY <2>1 DEF Ahead, ActiveJobsOf
<1>6. CASE RecoverDone
  BY <1>6 DEF RecoverDone, DlIdle, Ahead, ActiveJobsOf
<1> QED BY <1>2, <1>3, <1>4, <1>5, <1>6

\* The task a want is given is its only one, and nothing is ahead of it then.
LEMMA FileTaskOnce ==
    ASSUME IInv, Owned, ImportedOnce, NEW e \in Wants, FileTask(e)
    PROVE  ImportedOnce'
<1>1. PICK t \in Tasks : CreateImportTask(t, dl.job, e, IF dl.linked THEN e ELSE NoWant, FALSE)
  BY DEF FileTask
<1>2. /\ dl \in DlState /\ task \in [Tasks -> TaskRow] /\ dl.job \in Jobs
      /\ dl.pc = "file" /\ e \in dl.todo /\ UNCHANGED <<want, job, imp>>
      /\ dl'.pc = "file" /\ dl'.job = dl.job /\ dl'.made = TRUE /\ dl'.linked = dl.linked
      /\ dl'.todo = dl.todo \ {e} /\ dl'.uncovered = dl.uncovered
  BY DEF IInv, TypeOK, Linked, DlHolds, FileTask, DlState
<1>3. /\ task'[t].want = IF dl.linked THEN e ELSE NoWant
      /\ \A u \in Tasks \ {t} : task'[u] = task[u]
  BY <1>1, <1>2 DEF CreateImportTask, NewTask
<1>4. \A w \in Wants : Ahead(w)' => Ahead(w)
  BY <1>2 DEF Ahead, ActiveJobsOf
<1>5. CASE ~dl.linked
  BY <1>3, <1>4, <1>5, WantsAssumption, AheadShrinks
<1>6. CASE dl.linked
  <2>1. Ahead(e) /\ \A u \in Tasks : task[u].want # e
    BY <1>2, <1>6 DEF Ahead, ImportedOnce
  <2>2. ~Ahead(e)'
    <3>1. BetweenOwners(e) /\ e \notin dl.uncovered
      BY <1>2, <1>6 DEF Owned, DlOwns
    <3>2. want[e].status \notin Claimable /\ ActiveJobsOf(e)' = {}
      BY <1>2, <3>1 DEF BetweenOwners, Taken, InFlight, Claimable, ActiveJobsOf
    <3> QED BY <1>2, <3>1, <3>2 DEF Ahead
  <2>3. SingleImport'
    BY <1>3, <1>6, <2>1 DEF ImportedOnce, SingleImport
  <2>4. \A w \in Wants, u \in Tasks : task'[u].want = w => ~Ahead(w)'
    BY <1>3, <1>4, <1>6, <2>2 DEF ImportedOnce
  <2> QED BY <2>3, <2>4 DEF ImportedOnce
<1> QED BY <1>5, <1>6

\* Every step keeps ImportedOnce.
LEMMA ImportedOnceStep ==
    ASSUME IInv, OwnInv, ImportedOnce, Next,
           Ops \cap (Disowning \cup Reviving) = {}
    PROVE  ImportedOnce'
<1>1. Owned /\ Parked /\ usr.pc = "idle"
  BY DEF OwnInv
<1>2. ASSUME NothingAhead, UNCHANGED dl \/ dl' = DlIdle
      PROVE  ImportedOnce'
  <2>1. \A w \in Wants : Ahead(w)' => Ahead(w)
    BY <1>2, AheadElsewhere
  <2> QED BY <1>2, <2>1, AheadShrinks DEF NothingAhead
<1>3. CASE AcqStep
  <2>1. UNCHANGED dl
    BY <1>3 DEF AcqStep, Reap, SearchError, ClaimRunnableWants, AcqHandle, SkipCovered, Search,
                Route, GrabSingle, GrabPack, ProposeOrSupersede, Reschedule, FailWant
  <2> QED BY <1>1, <1>2, <1>3, <2>1, AcqNotAhead
<1>4. CASE ImpStep
  <2>1. UNCHANGED dl
    BY <1>4 DEF ImpStep, ClaimRunnableImportTasks, ImportError, ImpHandle, DestinationExists,
                RemoveOld, Place, Commit, MirrorAvailable, SetImportTaskFailed, MirrorFailed
  <2> QED BY <1>2, <1>4, <2>1, ImpNotAhead
<1>5. CASE UsrStep
  <2>1. UNCHANGED dl
    BY <1>5 DEF UsrStep, RequestCancelWant, RequestCancelTracking, ServeCancel, CancelNextWant,
                CancelJobsOfWant, CancelDone, Reactivate, RetryTracking, RearmMovieWant,
                GrabManual, SetAutonomy, Approve, Decline, CancelDownloadJob, RetryDownload,
                CancelImportTask, Reimport
  <2> QED BY <1>1, <1>2, <1>5, <2>1, UsrNotAhead
<1>6. CASE Crash
  BY <1>2, <1>6 DEF Crash, NothingAhead
<1>7. CASE \E w \in Wants : FileTask(w)
  BY <1>1, <1>7, FileTaskOnce
<1>8. CASE DlStep /\ ~\E w \in Wants : FileTask(w)
  <2>1. UNCHANGED task
    BY <1>8 DEF DlStep, DlHandle, ClaimRunnableDownloadJobs, PollProgress, PollCompleted,
                PollFailed, Poll, SpawnNoFiles, ClientError, ListError, Enqueue,
                MirrorDownloading, ReleaseUncovered, ExcludeRelease, MirrorDone,
                FileDone, UnlinkUncovered, UncoverDone, FailJob, ReleaseFailed,
                RestampManualHold, RecoverDone, SpawnImportTasks
  <2>2. ASSUME NEW w \in Wants, Ahead(w)'
        PROVE  Ahead(w)
    BY <1>1, <1>8, <2>2, ProcessNotAhead, FileNotAhead, RecoverNotAhead DEF DlStep, DlHandle
  <2> QED BY <2>1, <2>2, AheadShrinks
<1> QED BY <1>3, <1>4, <1>5, <1>6, <1>7, <1>8 DEF Next

\* No want is imported twice, whatever packs, singles, proposals, failed downloads,
\* missing files and restarts come before: of all the releases a want is grabbed for,
\* one at most is given an import task on its behalf.  For every instance in which no
\* request cancels a want or a job, retries a job or brings a want back, and no want is
\* failed for a bad state while wants are proposed.
THEOREM ImportedAtMostOnce ==
    ASSUME Ops \cap (Disowning \cup Reviving) = {},
           "propose" \notin Dials \/ "badstate" \notin Faults
    PROVE  Spec => []SingleImport
<1>1. Init => ImportedOnce
  BY WantsAssumption DEF Init, ImportedOnce, SingleImport, NoTaskRow
<1>2. IInv /\ OwnInv /\ ImportedOnce /\ [Next]_vars => ImportedOnce'
  <2>1. ASSUME ImportedOnce, UNCHANGED vars
        PROVE  ImportedOnce'
    BY <2>1 DEF vars, ImportedOnce, SingleImport, Ahead, ActiveJobsOf
  <2> QED BY <2>1, ImportedOnceStep
<1>3. ImportedOnce => SingleImport
  BY DEF ImportedOnce
<1>4. Ops \cap Disowning = {}
  OBVIOUS
<1> QED BY Inductive, OwnedInductive, <1>1, <1>2, <1>3, <1>4, PTL DEF Spec

-----------------------------------------------------------------------------
(***************************************************************************)
(* No want is attached to a job of a release it has excluded, while no     *)
(* operator grabs one by hand.                                             *)
(*                                                                         *)
(* Exclusions are read at the search and the grab comes later, so what has *)
(* to be invariant is PickFresh: the read is still true.  It is because a  *)
(* want gains an exclusion only while the download worker has it, which    *)
(* Owned says is while it cannot be grabbed; and what the worker gives     *)
(* back was not up for a grab when the search looked.                      *)
(***************************************************************************)
PickFresh ==
    acq.pc \in {"route", "grab"} =>
        /\ acq.release \in Packs =>
              \A v \in acq.covered :
                 want[v].status \in Claimable /\ <<v, acq.release>> \notin excl
        /\ acq.release \notin Packs /\ want[acq.want].status = "searching" =>
              <<acq.want, acq.release>> \notin excl

\* So do the requests, but for those that cancel or grab.
LEMMA UsrFreeKept ==
    ASSUME IInv, NothingProposed, usr.pc = "idle",
           Ops \cap (Disowning \cup {"manual_grab"}) = {}, UsrStep
    PROVE  FreeKept /\ \A j \in Jobs : job'[j].wants = job[j].wants
<1>1. want \in [Wants -> WantRow]
  BY DEF IInv, TypeOK
<1>2. ~ServeCancel
  BY DEF ServeCancel, CancelNextWant, CancelJobsOfWant, CancelDone
<1>3. /\ ~RequestCancelTracking /\ \A w : ~RequestCancelWant(w)
      /\ \A j : ~CancelDownloadJob(j) /\ ~RetryDownload(j)
      /\ \A w, r : ~GrabManual(w, r)
  BY DEF RequestCancelTracking, RequestCancelWant, CancelDownloadJob, RetryDownload, GrabManual,
         Request, Disowning
<1>4. ASSUME NEW a \in [Segments -> Dials], SetAutonomy(a)
      PROVE  FreeKept /\ UNCHANGED job
  BY <1>1, <1>4, TakenKept DEF SetAutonomy, ApplyAutonomy, FreeKept
<1>5. ASSUME RetryTracking
      PROVE  FreeKept /\ UNCHANGED job
  <2>1. \A r \in WantRow : r.status \in Claimable =>
           RetryWant(r).status = r.status /\ HoldForSegment(RetryWant(r)).status = r.status
    BY DEF WantRow, RetryWant, HoldForSegment, Claimable
  <2> QED BY <1>1, <1>5, <2>1 DEF RetryTracking, FreeKept
<1>6. ASSUME NEW w \in Wants, RearmMovieWant(w)
      PROVE  FreeKept /\ UNCHANGED job
  BY <1>1, <1>6 DEF RearmMovieWant, CanRearm, Claimable, FreeKept
<1>7. \A p \in prop : ~Approve(p) /\ ~Decline(p)
  BY DEF NothingProposed
<1>8. ASSUME NEW t \in Tasks, CancelImportTask(t) \/ Reimport(t)
      PROVE  FreeKept /\ UNCHANGED job
  BY <1>8 DEF CancelImportTask, Reimport, FreeKept
<1> QED BY <1>2, <1>3, <1>4, <1>5, <1>6, <1>7, <1>8 DEF UsrStep, Reactivate

\* Where what is free is kept and nothing becomes searching, the pick stays fresh.
LEMMA PickKept ==
    ASSUME IInv, PickFresh, FreeKept, SearchesNone, UNCHANGED acq
    PROVE  PickFresh'
<1>1. acq.covered \subseteq Wants
  BY DEF IInv, TypeOK, AcqState
<1>2. acq.pc \in {"route", "grab"} => acq.want \in Wants /\ acq.release \in Releases
  BY DEF IInv, Linked, AcqHolds
<1> QED BY <1>1, <1>2 DEF PickFresh, FreeKept, SearchesNone, Claimable

\* The acquisition worker reads the exclusions when it picks.
LEMMA AcqPickFresh ==
    ASSUME IInv, NothingProposed, PickFresh, AcqStep
    PROVE  PickFresh'
<1>1. acq \in AcqState
  BY DEF IInv, TypeOK
<1>2. acq' = AcqNext => PickFresh'
  BY <1>1 DEF AcqNext, AcqState, PickFresh
<1>3. ASSUME NEW w \in Wants, Reap(w) \/ SkipCovered(w) \/ SearchError(w)
      PROVE  PickFresh'
  BY <1>1, <1>3 DEF Reap, BetweenTicks, SkipCovered, SearchError, StartWant, AcqState, PickFresh
<1>4. ASSUME NEW S \in SUBSET Wants, ClaimRunnableWants(S)
      PROVE  PickFresh'
  BY <1>1, <1>4 DEF ClaimRunnableWants, BetweenTicks, AcqState, PickFresh
<1>5. ASSUME NEW w \in Wants, Search(w)
      PROVE  PickFresh'
  <2>1. PICK s \in (Eligible(w) \ Packs) \cup {NoRelease},
             p \in (Eligible(w) \cap Packs) \cup {NoRelease} :
           LET r == ChoosePick(s, p) IN
           IF r = NoRelease
           THEN StartWant(w, "recheck", NoRelease, {})
           ELSE StartWant(w, "route", r, IF r \in Packs THEN CoveredWants(r) ELSE {w})
    BY <1>5 DEF Search
  <2> DEFINE r == ChoosePick(s, p)
             S == IF r \in Packs THEN CoveredWants(r) ELSE {w}
  <2>2. UNCHANGED <<want, excl>>
    BY <1>5 DEF Search
  <2>3. CASE r = NoRelease
    BY <1>1, <2>1, <2>3 DEF StartWant, AcqState, PickFresh
  <2>4. CASE r # NoRelease
    <3>1. <<w, r>> \notin excl
      BY <2>4 DEF ChoosePick, Eligible
    <3>2. acq'.want = w /\ acq'.release = r /\ acq'.covered = S
      BY <1>1, <2>1, <2>4 DEF StartWant, AcqState
    <3>3. \A v \in CoveredWants(r) : want[v].status \in Claimable /\ <<v, r>> \notin excl
      BY DEF CoveredWants, SeasonSiblings
    <3> HIDE DEF r
    <3> QED BY <2>2, <3>1, <3>2, <3>3 DEF PickFresh
  <2> HIDE DEF r
  <2> QED BY <2>3, <2>4
<1>6. CASE Route
  BY <1>1, <1>6 DEF Route, AcqState, PickFresh
<1>7. CASE GrabSingle \/ GrabPack
  BY <1>1, <1>2, <1>7 DEF GrabSingle, GrabPack, AcqState, PickFresh
<1>8. CASE Reschedule \/ FailWant
  BY <1>2, <1>8 DEF Reschedule, FailWant
<1>9. ~ProposeOrSupersede
  BY DEF ProposeOrSupersede, NothingProposed
<1> QED BY <1>3, <1>4, <1>5, <1>6, <1>7, <1>8, <1>9 DEF AcqStep, AcqHandle

GrabsNoExcluded ==
    \A j \in Jobs : \A w \in job'[j].wants \ job[j].wants : <<w, job'[j].release>> \notin excl

\* The wants a grab attaches have not excluded its release.
LEMMA GrabAllowed ==
    ASSUME IInv, NEW j \in Jobs, NEW r, NEW G, CreateDownloadJob(j, r, G),
           \A w \in G : <<w, r>> \notin excl
    PROVE  GrabsNoExcluded
<1>1. job \in [Jobs -> JobRow]
  BY DEF IInv, TypeOK
<1>2. \A i \in Jobs \ {j} : job'[i] = job[i]
  BY <1>1 DEF CreateDownloadJob
<1>3. CASE Indexed(j)
  <2>1. job[j].release = r
    BY <1>3 DEF CreateDownloadJob, IndexedFor, FreshJob, Indexed
  <2>2. job' = [job EXCEPT ![j] = [job[j] EXCEPT !.wants = @ \cup G]]
    BY <1>3 DEF CreateDownloadJob
  <2>3. job'[j].release = r /\ job'[j].wants = job[j].wants \cup G
    BY <1>1, <2>1, <2>2 DEF JobRow
  <2> QED BY <1>2, <2>3 DEF GrabsNoExcluded
<1>4. CASE ~Indexed(j)
  <2>1. job'[j].release = r /\ job'[j].wants = G
    BY <1>1, <1>4 DEF CreateDownloadJob, NewJob
  <2> QED BY <1>2, <2>1 DEF GrabsNoExcluded
<1> QED BY <1>3, <1>4

LEMMA AcqAllowed ==
    ASSUME IInv, PickFresh, AcqStep
    PROVE  GrabsNoExcluded
<1>1. CASE UNCHANGED job
  BY <1>1 DEF GrabsNoExcluded
<1>2. CASE GrabSingle
  <2>1. CASE CanGrabWant(want[acq.want])
    <3>1. PICK j \in Jobs : CreateDownloadJob(j, acq.release, {acq.want})
      BY <1>2, <2>1 DEF GrabSingle
    <3>2. <<acq.want, acq.release>> \notin excl
      BY <1>2, <2>1 DEF GrabSingle, PickFresh, CanGrabWant
    <3> QED BY <3>1, <3>2, GrabAllowed
  <2>2. CASE ~CanGrabWant(want[acq.want])
    BY <1>1, <1>2, <2>2 DEF GrabSingle
  <2> QED BY <2>1, <2>2
<1>3. CASE GrabPack
  <2>1. PICK j \in Jobs : CreateDownloadJob(j, acq.release, ClaimedBy(acq.covered))
    BY <1>3 DEF GrabPack
  <2>2. \A w \in ClaimedBy(acq.covered) : <<w, acq.release>> \notin excl
    BY <1>3 DEF GrabPack, ClaimedBy, PickFresh
  <2> QED BY <2>1, <2>2, GrabAllowed
<1> QED BY <1>1, <1>2, <1>3
        DEF AcqStep, AcqHandle, Reap, SearchError, ClaimRunnableWants, SkipCovered, Search,
            Route, ProposeOrSupersede, Reschedule, FailWant

\* The download worker unlinks wants of jobs and links none.
LEMMA DlLinksNone ==
    ASSUME IInv, DlStep
    PROVE  \A j \in Jobs : job'[j].wants \subseteq job[j].wants
<1>1. job \in [Jobs -> JobRow] /\ (dl.pc # "idle" => dl.job \in Jobs)
  BY DEF IInv, TypeOK, Linked, DlHolds
<1>2. \/ UNCHANGED job
      \/ dl.pc # "idle" /\ \E s : SetJobStatus(dl.job, s)
      \/ dl.pc # "idle" /\ job' = [job EXCEPT ![dl.job] = SetEnqueued(@)]
      \/ dl.pc # "idle" /\ job' = [job EXCEPT ![dl.job].attempts = @ + 1]
      \/ dl.pc # "idle" /\ job' = [job EXCEPT ![dl.job].wants = @ \ {dl.want}]
  BY DEF DlStep, DlHandle, ClaimRunnableDownloadJobs, PollProgress, PollCompleted, PollFailed,
         Poll, SpawnNoFiles, ClientError, ListError, RetryOrFailJob, Enqueue, MirrorDownloading,
         FileTask, ReleaseUncovered, ExcludeRelease, MirrorDone, FileDone, UnlinkUncovered,
         UncoverDone, FailJob, ReleaseFailed, RestampManualHold, RecoverDone, SpawnImportTasks
<1>3. CASE UNCHANGED job
  BY <1>3
<1>4. CASE dl.pc # "idle" /\ \E s : SetJobStatus(dl.job, s)
  BY <1>1, <1>4 DEF SetJobStatus, JobRow
<1>5. CASE dl.pc # "idle" /\ job' = [job EXCEPT ![dl.job] = SetEnqueued(@)]
  BY <1>1, <1>5 DEF SetEnqueued, JobRow
<1>6. CASE dl.pc # "idle" /\ job' = [job EXCEPT ![dl.job].attempts = @ + 1]
  BY <1>1, <1>6 DEF JobRow
<1>7. CASE dl.pc # "idle" /\ job' = [job EXCEPT ![dl.job].wants = @ \ {dl.want}]
  BY <1>1, <1>7 DEF JobRow
<1> QED BY <1>2, <1>3, <1>4, <1>5, <1>6, <1>7

LEMMA ExclusionStep ==
    ASSUME IInv, NothingProposed, OwnInv, PickFresh, Next,
           Ops \cap (Disowning \cup {"manual_grab"}) = {}
    PROVE  PickFresh' /\ GrabsNoExcluded
<1>1. Owned /\ usr.pc = "idle"
  BY DEF OwnInv
<1>2. (\A j \in Jobs : job'[j].wants \subseteq job[j].wants) => GrabsNoExcluded
  BY DEF GrabsNoExcluded
<1>3. CASE AcqStep
  BY <1>3, AcqPickFresh, AcqAllowed
<1>4. CASE Crash
  BY <1>2, <1>4 DEF Crash, AcqIdle, PickFresh
<1>5. ASSUME DlStep \/ ImpStep \/ UsrStep
      PROVE  PickFresh' /\ GrabsNoExcluded
  <2>1. UNCHANGED acq
    BY <1>5, DlSticky, ImpSticky, UsrSticky
  <2>2. FreeKept /\ \A j \in Jobs : job'[j].wants \subseteq job[j].wants
    <3>1. ImpStep => UNCHANGED job
      BY ImpOpens
    <3> QED BY <1>1, <1>5, <3>1, DlFreeKept, ImpFreeKept, UsrFreeKept, DlLinksNone
  <2>3. CASE \E S \in SUBSET Wants : ClaimRunnableWants(S)
    BY <1>2, <2>1, <2>2, <2>3 DEF ClaimRunnableWants, BetweenTicks, PickFresh
  <2>4. CASE ~\E S \in SUBSET Wants : ClaimRunnableWants(S)
    BY <1>2, <2>1, <2>2, <2>4, OnlyClaims, PickKept
  <2> QED BY <2>3, <2>4
<1> QED BY <1>3, <1>4, <1>5 DEF Next

\* A release that failed a want is not grabbed for it again, though the search that
\* picked the release read the exclusions several steps before the grab.  For every
\* instance in which nothing is proposed and no request cancels, retries a job or grabs
\* by hand.
THEOREM ExcludedNotGrabbed ==
    ASSUME "propose" \notin Dials, Ops \cap (Disowning \cup {"manual_grab"}) = {}
    PROVE  Spec => NoExcludedGrab
<1>1. Init => PickFresh
  BY DEF Init, AcqIdle, PickFresh
<1>2. IInv /\ NothingProposed /\ OwnInv /\ PickFresh /\ [Next]_vars => PickFresh'
  <2>1. ASSUME PickFresh, UNCHANGED vars
        PROVE  PickFresh'
    BY <2>1 DEF vars, PickFresh
  <2> QED BY <2>1, ExclusionStep
<1>3. IInv /\ NothingProposed /\ OwnInv /\ PickFresh /\ [Next]_vars =>
         [\A j \in Jobs : \A w \in job'[j].wants \ job[j].wants :
             <<w, job'[j].release>> \notin excl]_vars
  BY ExclusionStep DEF GrabsNoExcluded
<1>4. Ops \cap Disowning = {}
  OBVIOUS
<1> QED BY Inductive, ProposesNothing, OwnedInductive, <1>1, <1>2, <1>3, <1>4, PTL
        DEF Spec, NoExcludedGrab

-----------------------------------------------------------------------------
(***************************************************************************)
(* What the title page and the downloads page show, for every tracking.    *)
(* The invariant is BoardInv, of the rows that the pages fold, with        *)
(* ReadInv of the page that is being read: since it was opened, each cell  *)
(* it shows was true of the rows.  The chains of jobs and tasks are        *)
(* recursive functions, and what they hold is shown by the least number    *)
(* for which it does not hold (LeastNumber).                               *)
(***************************************************************************)
\* A set of numbers that is not empty has a least one.
LEMMA LeastNumber ==
    ASSUME NEW T \in SUBSET Nat, T # {}
    PROVE  \E n \in T : \A m \in T : n <= m
<1>1. PICK x \in T : \A y \in T : <<y, x>> \notin OpToRel(<, Nat)
  BY WFMin, NatLessThanWellFounded
<1>2. \A y \in T : ~(y < x)
  BY <1>1 DEF OpToRel
<1> QED BY <1>2

-----------------------------------------------------------------------------
(***************************************************************************)
(* The headline.                                                           *)
(***************************************************************************)
\* Of what is present the first in the order dominates.
LEMMA DominantIs ==
    ASSUME NEW order, NEW n \in Nat, DOMAIN order = 1..n, NEW present, NEW default,
           \E k \in 1..n : order[k] \in present
    PROVE  \E k \in 1..n : /\ Dominant(order, present, default) = order[k]
                           /\ order[k] \in present
                           /\ \A j \in 1..n : j < k => order[j] \notin present
<1> DEFINE T == {k \in 1..n : order[k] \in present}
           First(k) == order[k] \in present /\ \A j \in 1..(k - 1) : order[j] \notin present
<1>1. T \in SUBSET Nat /\ T # {}
  OBVIOUS
<1>2. PICK k \in T : \A m \in T : k <= m
  BY <1>1, LeastNumber
<1>3. k \in 1..n /\ First(k)
  BY <1>2
<1>4. \A m \in 1..n : First(m) => m = k
  BY <1>3
<1>5. (CHOOSE m \in 1..n : First(m)) = k
  BY <1>3, <1>4
<1>6. Dominant(order, present, default) = order[k]
  BY <1>5 DEF Dominant
<1> QED BY <1>3, <1>6

\* What dominates among the states, and among the phases, of work.
LEMMA StateDominates ==
    ASSUME NEW S
    PROVE  LET d == dominantState(S) IN
           /\ S \cap (WorkStates \cup ParkedStates) # {} =>
                 d \in S \cap (WorkStates \cup ParkedStates)
           /\ d \in WorkStates => d \in S
           /\ d = "importing" => "downloading" \notin S
           /\ d = "searching" => "downloading" \notin S /\ "importing" \notin S
<1>1. DOMAIN stateDominance = 1..9
  BY DEF stateDominance
<1>2. CASE \E k \in 1..9 : stateDominance[k] \in S
  <2>1. PICK k \in 1..9 : /\ dominantState(S) = stateDominance[k]
                          /\ stateDominance[k] \in S
                          /\ \A j \in 1..9 : j < k => stateDominance[j] \notin S
    BY <1>1, <1>2, DominantIs DEF dominantState
  <2>2. \/ k = 1 \/ k = 2 \/ k = 3 \/ k = 4 \/ k = 5 \/ k = 6 \/ k = 7 \/ k = 8 \/ k = 9
    OBVIOUS
  <2> QED BY <2>1, <2>2 DEF stateDominance, WorkStates, ParkedStates
<1>3. CASE \A k \in 1..9 : stateDominance[k] \notin S
  <2>1. dominantState(S) = "not_requested"
    BY <1>1, <1>3 DEF dominantState, Dominant
  <2>2. /\ stateDominance[1] \notin S /\ stateDominance[2] \notin S /\ stateDominance[3] \notin S
        /\ stateDominance[4] \notin S /\ stateDominance[5] \notin S
    BY <1>3
  <2> QED BY <2>1, <2>2 DEF stateDominance, WorkStates, ParkedStates
<1> QED BY <1>2, <1>3

LEMMA PhaseDominates ==
    ASSUME NEW P
    PROVE  /\ "downloading" \in P => morePhase(P) = "downloading"
           /\ "downloading" \notin P /\ "importing" \in P => morePhase(P) = "importing"
           /\ "downloading" \notin P /\ "importing" \notin P /\ "searching" \in P =>
                 morePhase(P) = "searching"
<1> SUFFICES ASSUME P \cap WorkStates # {}
             PROVE  /\ "downloading" \in P => morePhase(P) = "downloading"
                    /\ "downloading" \notin P /\ "importing" \in P => morePhase(P) = "importing"
                    /\ "downloading" \notin P /\ "importing" \notin P /\ "searching" \in P =>
                          morePhase(P) = "searching"
  BY DEF WorkStates
<1>1. DOMAIN phaseDominance = 1..3
  BY DEF phaseDominance
<1>2. phaseDominance[1] = "downloading" /\ phaseDominance[2] = "importing"
      /\ phaseDominance[3] = "searching"
  BY DEF phaseDominance
<1>3. \E k \in 1..3 : phaseDominance[k] \in P
  <2>1. 1 \in 1..3 /\ 2 \in 1..3 /\ 3 \in 1..3
    OBVIOUS
  <2> QED BY <1>2, <2>1 DEF WorkStates
<1>4. PICK k \in 1..3 : /\ morePhase(P) = phaseDominance[k]
                        /\ phaseDominance[k] \in P
                        /\ \A j \in 1..3 : j < k => phaseDominance[j] \notin P
  BY <1>1, <1>3, DominantIs DEF morePhase
<1>5. k = 1 \/ k = 2 \/ k = 3
  OBVIOUS
<1> QED BY <1>2, <1>4, <1>5

\* A cell and the phase of its atom say the same, but for a file, which wins.
Agrees(i) ==
    /\ i.hasFile \in BOOLEAN /\ i.inScope \in BOOLEAN
    /\ i.hasFile => DeriveItem(i) = "available"
    /\ itemPhase(i) \in WorkStates \cup {PhaseNone}
    /\ ~i.hasFile => \A s \in WorkStates : DeriveItem(i) = s <=> itemPhase(i) = s

LEMMA CellAgrees ==
    ASSUME NEW w \in WantRow \cup {NoRow},
           NEW f \in BOOLEAN, NEW a \in BOOLEAN, NEW late \in BOOLEAN
    PROVE  Agrees(Item(w, f, a, late))
<1> DEFINE i == Item(w, f, a, late)
<1>1. /\ i.want = w /\ i.hasFile = f /\ i.activeJob = a /\ i.unaired = late
      /\ i.inScope \in BOOLEAN
  BY DEF Item, inScope
<1>2. CASE w = NoRow
  <2>1. /\ itemPhase(i) = IF a THEN "downloading" ELSE PhaseNone
        /\ f => DeriveItem(i) = "available"
        /\ ~f => DeriveItem(i) = IF a THEN "downloading"
                                 ELSE IF late THEN "unreleased" ELSE "not_requested"
    BY <1>1, <1>2 DEF itemPhase, DeriveItem
  <2> QED BY <1>1, <2>1 DEF Agrees, WorkStates, PhaseNone
<1>3. CASE w # NoRow
  <2>1. w.status \in WantStatus /\ w.hold \in Holds
    BY <1>3 DEF WantRow
  <2>2. /\ f => DeriveItem(i) = "available"
        /\ ~f => DeriveItem(i) = wantState(w, late)
    BY <1>1, <1>3 DEF DeriveItem
  <2>3. CASE w.hold # "none"
    <3>1. itemPhase(i) = PhaseNone /\ wantState(w, late) \in ParkedStates
      BY <1>1, <1>3, <2>1, <2>3 DEF itemPhase, wantState, ParkedStates, Holds
    <3> QED BY <1>1, <2>2, <3>1 DEF Agrees, WorkStates, ParkedStates, PhaseNone
  <2>4. CASE w.hold = "none"
    <3>1. /\ itemPhase(i) \in WorkStates \cup {PhaseNone}
          /\ \A s \in WorkStates : wantState(w, late) = s <=> itemPhase(i) = s
      BY <1>1, <1>3, <2>1, <2>4 DEF itemPhase, wantState, WorkStates, WantStatus, PhaseNone
    <3> QED BY <1>1, <2>2, <3>1 DEF Agrees
  <2> QED BY <2>3, <2>4
<1> QED BY <1>2, <1>3

\* Whatever became of the viewer's request, a title that is worked on says so, or
\* what it has, or what it waits for, and none that is not says it is.
LEMMA HeadlineAgrees ==
    ASSUME NEW type, NEW request, NEW may, NEW W, IsFiniteSet(W),
           NEW items, DOMAIN items = W, \A w \in W : Agrees(items[w])
    PROVE  LET res == Derive(type, items, request, may) IN
           /\ res.counts.working > 0 =>
                 res.state \in WorkStates \cup ParkedStates
                              \cup {"available", "partially_available"}
           /\ res.state \in WorkStates => res.state = res.counts.phase
<1> DEFINE res == Counted(items)
           scope == {w \in W : items[w].inScope}
           there == {w \in scope : DeriveItem(items[w]) = "available"}
           busy == {w \in scope : itemPhase(items[w]) # PhaseNone}
           scoped == {DeriveItem(items[w]) : w \in scope}
           phases == {itemPhase(items[w]) : w \in scope}
           state == headline(type, request, res, scoped)
<1>1. /\ Derive(type, items, request, may).counts = res
      /\ Derive(type, items, request, may).state = state
  BY DEF Derive
<1>2. /\ res.total = Cardinality(scope) /\ res.available = Cardinality(there)
      /\ res.working = Cardinality(busy) /\ res.phase = morePhase(phases)
  BY DEF Counted
<1>3. /\ IsFiniteSet(there) /\ Cardinality(there) \in Nat
      /\ IsFiniteSet(busy) /\ Cardinality(busy) \in Nat
      /\ Cardinality(there) = 0 => there = {}
      /\ Cardinality(busy) > 0 => busy # {}
      /\ Cardinality(scope) \in Nat /\ Cardinality(busy) <= Cardinality(scope)
  <2>1. IsFiniteSet(scope) /\ there \subseteq scope /\ busy \subseteq scope
    BY FS_Subset
  <2>2. IsFiniteSet(there) /\ IsFiniteSet(busy)
    BY <2>1, FS_Subset
  <2> QED BY <2>1, <2>2, FS_Subset, FS_CardinalityType, FS_EmptySet
<1>4. state = dominantState(scoped) \/
      state \in {requestHeadline(request), "not_requested", "available", "partially_available"}
  BY DEF headline
<1>5. requestHeadline(request) \notin WorkStates
  BY DEF requestHeadline, WorkStates
<1>6. ASSUME there = {}
      PROVE  \A s \in WorkStates : s \in scoped <=> s \in phases
  <2>1. \A w \in scope : ~items[w].hasFile
    BY <1>6 DEF Agrees
  <2>2. \A w \in scope, s \in WorkStates : DeriveItem(items[w]) = s <=> itemPhase(items[w]) = s
    BY <2>1 DEF Agrees
  <2> QED BY <2>2
<1>7. ASSUME res.working > 0
      PROVE  state \in WorkStates \cup ParkedStates \cup {"available", "partially_available"}
  <2>0. res.total # 0 /\ res.working # 0 /\ res.available \in Nat
    BY <1>2, <1>3, <1>7
  <2>1. \/ state \in {"available", "partially_available"}
        \/ state = dominantState(scoped) /\ ~(res.available > 0)
    BY <2>0 DEF headline
  <2>2. CASE there = {}
    <3>1. PICK w \in busy : TRUE
      BY <1>2, <1>3, <1>7
    <3>2. itemPhase(items[w]) \in WorkStates
      BY <3>1 DEF Agrees
    <3>3. scoped \cap WorkStates # {}
      BY <1>6, <2>2, <3>1, <3>2
    <3>4. dominantState(scoped) \in WorkStates \cup ParkedStates
      BY <3>3, StateDominates
    <3> QED BY <2>1, <3>4
  <2>3. CASE there # {}
    <3>1. res.available > 0
      BY <1>2, <1>3, <2>3
    <3> QED BY <2>1, <3>1
  <2> QED BY <2>2, <2>3
<1>8. ASSUME state \in WorkStates
      PROVE  state = res.phase
  <2>1. state = dominantState(scoped)
    BY <1>4, <1>5, <1>8 DEF WorkStates
  <2>2. there = {}
    <3>1. res.available > 0 => state \in {requestHeadline(request), "not_requested", "available",
                                          "partially_available"}
      BY DEF headline
    <3> QED BY <1>2, <1>3, <1>5, <1>8, <3>1 DEF WorkStates
  <2>3. /\ state \in phases
        /\ state = "importing" => "downloading" \notin phases
        /\ state = "searching" => "downloading" \notin phases /\ "importing" \notin phases
    <3>1. /\ state \in scoped
          /\ state = "importing" => "downloading" \notin scoped
          /\ state = "searching" => "downloading" \notin scoped /\ "importing" \notin scoped
      BY <1>8, <2>1, StateDominates
    <3>2. {"downloading", "importing", "searching"} \subseteq WorkStates
      BY DEF WorkStates
    <3> QED BY <1>6, <1>8, <2>2, <3>1, <3>2
  <2> QED BY <1>2, <1>8, <2>3, PhaseDominates DEF WorkStates
<1> QED BY <1>1, <1>7, <1>8

-----------------------------------------------------------------------------
(***************************************************************************)
(* The downloads page keeps the invariant of the pipeline, and its chains  *)
(* go back to what is over.                                                *)
(***************************************************************************)
\* A failed job is done with.
FailedStays == \A j \in Jobs : job[j].status = "failed" => job'[j].status = "failed"

\* The download worker works on no failed job, but to recover its wants.
WorksOnLive ==
    dl.pc \in {"process", "mirror", "spawn", "file", "uncover", "unlink"} =>
        job[dl.job].status # "failed"

JobChain ==
    /\ previousJob \in [Jobs -> Jobs \cup {NoJob}]
    /\ \A j \in Jobs : previousJob[j] # NoJob =>
          /\ job[j].status # "absent"
          /\ job[previousJob[j]].status = "failed"
          /\ job[previousJob[j]].release = job[j].release

TaskChain ==
    /\ previousTask \in [Tasks -> Tasks \cup {NoTask}]
    /\ \A t \in Tasks : previousTask[t] # NoTask =>
          /\ task[t].status # "absent"
          /\ task[previousTask[t]].status \in Finished
          /\ task[previousTask[t]].job = task[t].job
          /\ task[previousTask[t]].episode = task[t].episode

\* What a ReimportFailed has yet to do stays over.
BatchOver == batch \subseteq Tasks /\ \A t \in batch : task[t].status \in Finished

BoardInv == IInv /\ WorksOnLive /\ JobChain /\ TaskChain /\ BatchOver

\* Inserting a job, or joining one, fails none and revives none that failed.
LEMMA CreatedStays ==
    ASSUME job \in [Jobs -> JobRow], NEW k \in Jobs, NEW r, NEW S, CreateDownloadJob(k, r, S)
    PROVE  FailedStays /\ \A j \in Jobs : job'[j].status = "failed" => job[j].status = "failed"
<1>1. CASE Indexed(k)
  BY <1>1 DEF CreateDownloadJob, FailedStays, JobRow
<1>2. CASE ~Indexed(k)
  <2>1. job[k].status = "absent" /\ job' = [job EXCEPT ![k] = NewJob(r, S)]
    BY <1>2 DEF CreateDownloadJob, FreshJob, IndexedFor
  <2> QED BY <2>1 DEF NewJob, FailedStays
<1> QED BY <1>1, <1>2

\* What the other processes do to the jobs: insert one or join one, or cancel some
\* that are active.
LEMMA JobsOfOthers ==
    ASSUME AcqStep \/ ImpStep \/ UsrStep
    PROVE  /\ UNCHANGED dl
           /\ \/ UNCHANGED job
              \/ \E k \in Jobs : \E r, S : CreateDownloadJob(k, r, S)
              \/ \E S \in SUBSET Jobs : CancelJobs(S) /\ \A j \in S : job[j].status \in ActiveJob
<1>1. CASE AcqStep
  BY <1>1 DEF AcqStep, AcqHandle, Reap, SearchError, ClaimRunnableWants, SkipCovered, Search,
              Route, GrabSingle, GrabPack, ProposeOrSupersede, Reschedule, FailWant
<1>2. CASE ImpStep
  BY <1>2 DEF ImpStep, ClaimRunnableImportTasks, ImportError, ImpHandle, DestinationExists,
              RemoveOld, Place, Commit, MirrorAvailable, SetImportTaskFailed, MirrorFailed
<1>3. ASSUME NEW w \in Wants, NEW r \in Releases, GrabManual(w, r)
      PROVE  UNCHANGED dl /\ \E k \in Jobs : \E q, S : CreateDownloadJob(k, q, S)
  BY <1>3, GrabbedByHand
<1>4. CASE CancelJobsOfWant
  <2>1. ActiveJobsOf(usr.want) \in SUBSET Jobs
        /\ \A j \in ActiveJobsOf(usr.want) : job[j].status \in ActiveJob
    BY DEF ActiveJobsOf
  <2> QED BY <1>4, <2>1 DEF CancelJobsOfWant
<1>5. ASSUME NEW j \in Jobs, CancelDownloadJob(j)
      PROVE  UNCHANGED dl /\ \E S \in SUBSET Jobs : CancelJobs(S)
                                 /\ \A k \in S : job[k].status \in ActiveJob
  <2>1. {j} \in SUBSET Jobs /\ \A k \in {j} : job[k].status \in ActiveJob
    BY <1>5 DEF CancelDownloadJob
  <2> QED BY <1>5, <2>1 DEF CancelDownloadJob
<1>6. CASE UsrStep
  BY <1>6, <1>3, <1>4, <1>5
     DEF UsrStep, ServeCancel, Reactivate, RequestCancelWant, RequestCancelTracking,
         CancelNextWant, CancelDone, SetAutonomy, RetryTracking, RearmMovieWant, Approve,
         ApprovePack, ApproveSingle, Decline, RetryDownload, CancelImportTask, Reimport
<1> QED BY <1>1, <1>2, <1>6

\* Only the download worker fails jobs, and it fails them for good.
LEMMA FailedByOthers ==
    ASSUME IInv, WorksOnLive, AcqStep \/ ImpStep \/ UsrStep
    PROVE  FailedStays /\ WorksOnLive'
<1> job \in [Jobs -> JobRow] /\ (dl.pc # "idle" => dl.job \in Jobs)
  BY DEF IInv, TypeOK, Linked, DlHolds
<1>1. /\ UNCHANGED dl
      /\ \/ UNCHANGED job
         \/ \E k \in Jobs : \E r, S : CreateDownloadJob(k, r, S)
         \/ \E S \in SUBSET Jobs : CancelJobs(S) /\ \A j \in S : job[j].status \in ActiveJob
  BY JobsOfOthers
<1>2. FailedStays /\ \A j \in Jobs : job'[j].status = "failed" => job[j].status = "failed"
  <2>1. CASE UNCHANGED job
    BY <2>1 DEF FailedStays
  <2>2. CASE \E k \in Jobs : \E r, S : CreateDownloadJob(k, r, S)
    BY <2>2, CreatedStays
  <2>3. CASE \E S \in SUBSET Jobs : CancelJobs(S) /\ \A j \in S : job[j].status \in ActiveJob
    BY <2>3 DEF CancelJobs, FailedStays, ActiveJob, JobRow
  <2> QED BY <1>1, <2>1, <2>2, <2>3
<1> QED BY <1>1, <1>2 DEF WorksOnLive

LEMMA FailedByWorker ==
    ASSUME IInv, WorksOnLive, DlStep
    PROVE  FailedStays /\ WorksOnLive'
<1> job \in [Jobs -> JobRow] /\ (dl.pc # "idle" => dl.job \in Jobs) /\ dl \in DlState
  BY DEF IInv, TypeOK, Linked, DlHolds
<1>1. UNCHANGED job => FailedStays
  BY DEF FailedStays
<1>2. ASSUME NEW j \in Jobs, ClaimRunnableDownloadJobs(j)
      PROVE  FailedStays /\ WorksOnLive'
  BY <1>1, <1>2 DEF ClaimRunnableDownloadJobs, DlIdle, ActiveJob, WorksOnLive
<1>3. CASE Enqueue
  BY <1>3 DEF Enqueue, SetEnqueued, Goto, DlIdle, JobRow, DlState, WorksOnLive, FailedStays
<1>4. ASSUME NEW st \in {"downloading", "completed", "failed"}, Poll(st)
      PROVE  FailedStays /\ WorksOnLive'
  <2>1. dl.pc = "process" /\ dl.job \in Jobs /\ job[dl.job].status # "failed"
    BY <1>4 DEF Poll, WorksOnLive
  <2>2. CASE UNCHANGED job /\ Goto("fail")
    BY <1>1, <2>2 DEF Goto, DlState, WorksOnLive
  <2>3. CASE SetJobStatus(dl.job, st)
    <3>1. /\ FailedStays
          /\ job'[dl.job].status = st
      BY <2>1, <2>3 DEF SetJobStatus, JobRow, FailedStays
    <3>2. dl'.pc \in {"idle", "fail"} \/ (st # "failed" /\ dl'.job = dl.job)
      <4>1. st = "failed" => AfterPoll(st) = "fail"
        BY DEF AfterPoll
      <4>2. \/ dl' = [dl EXCEPT !.pc = "fail"]
            \/ dl' = DlIdle
            \/ \E S : dl' = [dl EXCEPT !.pc = AfterPoll(st), !.todo = S]
        BY <1>4 DEF Poll, Goto
      <4>3. CASE dl' = [dl EXCEPT !.pc = "fail"]
        BY <4>3 DEF DlState
      <4>4. ASSUME NEW S, dl' = [dl EXCEPT !.pc = AfterPoll(st), !.todo = S]
            PROVE  dl'.pc = AfterPoll(st) /\ dl'.job = dl.job
        BY <4>4 DEF DlState
      <4>5. CASE dl' = DlIdle
        BY <4>5 DEF DlIdle
      <4>6. CASE \E S : dl' = [dl EXCEPT !.pc = AfterPoll(st), !.todo = S]
        <5>1. dl'.pc = AfterPoll(st) /\ dl'.job = dl.job
          BY <4>4, <4>6
        <5> QED BY <4>1, <5>1
      <4> QED BY <4>2, <4>3, <4>5, <4>6
    <3> QED BY <3>1, <3>2 DEF WorksOnLive
  <2> QED BY <1>4, <2>2, <2>3 DEF Poll
<1>5. CASE ClientError \/ ListError
  BY <1>5 DEF ClientError, ListError, RetryOrFailJob, Goto, DlIdle, JobRow, DlState, WorksOnLive,
              FailedStays
<1>6. CASE UnlinkUncovered
  BY <1>6 DEF UnlinkUncovered, JobRow, DlState, WorksOnLive, FailedStays
<1>7. CASE FailJob
  BY <1>7 DEF FailJob, SetJobStatus, JobRow, DlState, WorksOnLive, FailedStays
<1>8. ASSUME NEW w \in Wants, \/ MirrorDownloading(w) \/ FileTask(w) \/ ReleaseUncovered(w)
                              \/ ExcludeRelease(w)
      PROVE  FailedStays /\ WorksOnLive'
  BY <1>1, <1>8 DEF MirrorDownloading, FileTask, ReleaseUncovered, ExcludeRelease, DlState,
                    WorksOnLive
<1>9. CASE MirrorDone \/ FileDone \/ UncoverDone \/ RecoverDone
  BY <1>1, <1>9 DEF MirrorDone, FileDone, UncoverDone, RecoverDone, Goto, DlIdle, DlState,
                    WorksOnLive
<1>11. CASE ReleaseFailed \/ RestampManualHold \/ SpawnNoFiles
  BY <1>1, <1>11 DEF ReleaseFailed, RestampManualHold, SpawnNoFiles, Goto, DlState, WorksOnLive
<1>12. ASSUME NEW F \in SUBSET Wants, SpawnImportTasks(F)
       PROVE  FailedStays /\ WorksOnLive'
  <2>1. /\ UNCHANGED job /\ dl.pc = "spawn"
        /\ dl'.job = dl.job
    BY <1>12 DEF SpawnImportTasks, DlState
  <2> QED BY <1>1, <2>1 DEF WorksOnLive
<1>10. CASE PollProgress \/ PollCompleted \/ PollFailed
  BY <1>4, <1>10 DEF PollProgress, PollCompleted, PollFailed
<1> QED BY <1>2, <1>3, <1>5, <1>6, <1>7, <1>8, <1>9, <1>10, <1>11, <1>12 DEF DlStep, DlHandle

\* Every step of the downloads page but the next of a ReimportFailed is a step of
\* the pipeline or writes no table; that one inserts a task as a Reimport does.
LEMMA BoardRows ==
    ASSUME BoardInv, BoardNext
    PROVE  StepOK /\ FailedStays /\ WorksOnLive'
<1> IInv /\ WorksOnLive
  BY DEF BoardInv
<1>1. CASE AcqStep \/ ImpStep \/ UsrStep
  BY <1>1, FailedByOthers, StepKeeps DEF Next
<1>2. CASE DlStep
  BY <1>2, FailedByWorker, StepKeeps DEF Next
<1>3. CASE Crash
  BY <1>3, StepKeeps DEF Next, Crash, FailedStays, WorksOnLive, DlIdle
<1>4. ASSUME NEW j \in Jobs, NEW all \in BOOLEAN, ReimportFailed(j, all)
      PROVE  StepOK /\ FailedStays /\ WorksOnLive'
  <2>1. UNCHANGED <<tracking, want, excl, prop, job, task, files, acq, dl, imp, usr>>
    BY <1>4 DEF ReimportFailed
  <2>2. budget' \in Budget
    BY <1>4, RequestBudget DEF ReimportFailed
  <2>3. usr' \in UsrState /\ UsrHolds' /\ JobStep /\ TaskStep
    BY <2>1, UsrKept, Unwritten
  <2>4. StepOK
    BY <2>1, <2>2, <2>3, Types, UsrFrame DEF CancelOnly
  <2> QED BY <2>1, <2>4 DEF FailedStays, WorksOnLive
<1>5. ASSUME NEW t \in Tasks, ReimportNext(t)
      PROVE  StepOK /\ FailedStays /\ WorksOnLive'
  <2>1. UNCHANGED <<tracking, want, excl, prop, job, files, acq, dl, imp, usr, budget>>
    BY <1>5 DEF ReimportNext
  <2>2. task[t].status # "absent"
    BY <1>5 DEF ReimportNext, BoardInv, BatchOver, Finished
  <2>3. PICK u \in Tasks : CreateImportTask(u, task[t].job, task[t].episode, NoWant, TRUE)
    BY <1>5 DEF ReimportNext
  <2>4. TaskStep
    BY <2>1, <2>2, <2>3, Types, CreateTaskStep DEF TaskLinked
  <2>5. \A v \in Tasks : task[v].status # "absent" => CancelOnly(v)
    BY <2>3, Types DEF CreateImportTask, FreshTask, CancelOnly
  <2>6. usr' \in UsrState /\ UsrHolds' /\ JobStep
    BY <2>1, UsrKept, Unwritten
  <2>7. StepOK
    BY <2>1, <2>4, <2>5, <2>6, Types, UsrFrame
  <2> QED BY <2>1, <2>7 DEF FailedStays, WorksOnLive
<1>6. BoardNext =>
         \/ AcqStep \/ DlStep \/ ImpStep \/ UsrStep \/ Crash
         \/ \E j \in Jobs, all \in BOOLEAN : ReimportFailed(j, all)
         \/ \E t \in Tasks : ReimportNext(t)
  BY DEF BoardNext, Ask, JobRetried, TaskReimported, UsrStep
<1> QED BY <1>1, <1>2, <1>3, <1>4, <1>5, <1>6

\* A task that is over stays, for its job and episode.
LEMMA OverStays ==
    ASSUME StepOK, NEW t \in Tasks, task[t].status \in Finished
    PROVE  /\ task'[t].status \in Finished
           /\ task'[t].job = task[t].job /\ task'[t].episode = task[t].episode
<1>1. task[t].status # "absent" /\ ImportTaskTransitions[task[t].status] = {}
  BY DEF Finished, ImportTaskTransitions
<1>2. task'[t].status = task[t].status
  BY <1>1 DEF StepOK, TaskMove
<1> QED BY <1>1, <1>2 DEF StepOK, TaskStep

LEMMA ChainsKept ==
    ASSUME BoardInv, StepOK, FailedStays
    PROVE  /\ UNCHANGED previousJob => JobChain'
           /\ UNCHANGED previousTask => TaskChain'
           /\ UNCHANGED batch => BatchOver'
<1>1. UNCHANGED previousJob => JobChain'
  BY DEF BoardInv, JobChain, StepOK, JobStep, FailedStays
<1>2. ASSUME UNCHANGED previousTask
      PROVE  TaskChain'
  <2>1. ASSUME NEW t \in Tasks, previousTask[t] # NoTask
        PROVE  /\ task'[t].status # "absent"
               /\ task'[t].job = task[t].job /\ task'[t].episode = task[t].episode
    BY <2>1 DEF BoardInv, TaskChain, StepOK, TaskStep
  <2>2. ASSUME NEW t \in Tasks, previousTask[t] # NoTask
        PROVE  /\ previousTask[t] \in Tasks
               /\ task[previousTask[t]].status \in Finished
    BY <2>2 DEF BoardInv, TaskChain
  <2> QED BY <1>2, <2>1, <2>2, OverStays DEF BoardInv, TaskChain
<1>3. UNCHANGED batch => BatchOver'
  BY OverStays DEF BoardInv, BatchOver
<1> QED BY <1>1, <1>2, <1>3

\* A new task that re-imports one that is over.
LEMMA TaskChained ==
    ASSUME BoardInv, StepOK, FailedStays, NEW t \in Tasks, task[t].status \in Finished, ChainTask(t),
           NEW u \in Tasks, CreateImportTask(u, task[t].job, task[t].episode, NoWant, TRUE)
    PROVE  TaskChain'
<1>1. \A v \in Tasks : v \in NewTasks <=> v = u
  BY DEF CreateImportTask, FreshTask, NewTasks, NewTask, BoardInv, IInv, TypeOK
<1>2. \A v \in Tasks : previousTask'[v] = IF v = u THEN t ELSE previousTask[v]
  BY <1>1 DEF ChainTask
<1>3. previousTask' \in [Tasks -> Tasks \cup {NoTask}]
  BY <1>2 DEF ChainTask, BoardInv, TaskChain
<1>4. /\ task'[u].status # "absent"
      /\ task'[u].job = task[t].job /\ task'[u].episode = task[t].episode
  BY DEF CreateImportTask, NewTask, BoardInv, IInv, TypeOK
<1>5. ASSUME NEW v \in Tasks, v # u, previousTask[v] # NoTask
      PROVE  /\ task'[v].status # "absent"
             /\ task'[v].job = task[v].job /\ task'[v].episode = task[v].episode
             /\ task'[previousTask[v]].status \in Finished
             /\ task'[previousTask[v]].job = task[v].job
             /\ task'[previousTask[v]].episode = task[v].episode
  <2>1. /\ task[v].status # "absent" /\ previousTask[v] \in Tasks
        /\ task[previousTask[v]].status \in Finished
        /\ task[previousTask[v]].job = task[v].job
        /\ task[previousTask[v]].episode = task[v].episode
    BY <1>5 DEF BoardInv, TaskChain
  <2> QED BY <2>1, OverStays DEF StepOK, TaskStep
<1> QED BY <1>2, <1>3, <1>4, <1>5, OverStays DEF TaskChain

LEMMA BoardKeeps ==
    ASSUME BoardInv, BoardNext
    PROVE  BoardInv' /\ StepOK
<1>1. StepOK /\ FailedStays /\ WorksOnLive' /\ IInv'
  BY BoardRows DEF StepOK
<1>2. CASE (AcqStep \/ DlStep \/ ImpStep \/ Ask) /\ UNCHANGED <<chains, batch>>
  BY <1>1, <1>2, ChainsKept DEF chains, BoardInv
<1>3. CASE Crash /\ batch' = {} /\ UNCHANGED chains
  BY <1>1, <1>3, ChainsKept DEF chains, BoardInv, BatchOver
<1>4. ASSUME NEW j \in Jobs, JobRetried(j)
      PROVE  BoardInv'
  <2>1. PICK k \in Jobs : CreateDownloadJob(k, job[j].release, job[j].wants)
    BY <1>4 DEF JobRetried, RetryDownload
  <2>2. /\ job[j].status = "failed" /\ IndexedFor(job[j].release) = {}
        /\ job \in [Jobs -> JobRow]
    BY <1>4 DEF JobRetried, RetryDownload, BoardInv, IInv, TypeOK
  <2>3. job[k].status = "absent" /\ job' = [job EXCEPT ![k] = NewJob(job[j].release, job[j].wants)]
    BY <2>1, <2>2 DEF CreateDownloadJob, FreshJob, Indexed
  <2>4. \A i \in Jobs : i \in NewJobs <=> i = k
    BY <2>2, <2>3 DEF NewJobs, NewJob
  <2>5. \A i \in Jobs : previousJob'[i] = IF i = k THEN j ELSE previousJob[i]
    BY <1>4, <2>4 DEF JobRetried
  <2>6. /\ previousJob' \in [Jobs -> Jobs \cup {NoJob}]
    BY <1>4, <2>5 DEF JobRetried, BoardInv, JobChain
  <2>7. /\ job'[k].status # "absent" /\ job'[k].release = job[j].release
        /\ job'[j] = job[j]
    BY <2>2, <2>3 DEF NewJob
  <2>8. JobChain'
    BY <1>1, <2>2, <2>5, <2>6, <2>7 DEF BoardInv, JobChain, StepOK, JobStep, FailedStays
  <2> QED BY <1>1, <1>4, <2>8, ChainsKept DEF JobRetried, BoardInv
<1>5. ASSUME NEW j \in Jobs, NEW all \in BOOLEAN, ReimportFailed(j, all)
      PROVE  BoardInv'
  <2>1. BatchOver'
    BY <1>5 DEF ReimportFailed, BatchOver, TasksOf, Finished
  <2> QED BY <1>1, <1>5, <2>1, ChainsKept DEF ReimportFailed, chains, BoardInv
<1>6. ASSUME NEW t \in Tasks, TaskReimported(t)
      PROVE  BoardInv'
  <2>1. TaskChain'
    BY <1>1, <1>6, TaskChained DEF TaskReimported, Reimport, Finished
  <2> QED BY <1>1, <1>6, <2>1, ChainsKept DEF TaskReimported, ChainTask, BoardInv
<1>7. ASSUME NEW t \in Tasks, ReimportNext(t)
      PROVE  BoardInv'
  <2>1. TaskChain'
    BY <1>1, <1>7, TaskChained DEF ReimportNext, BoardInv, BatchOver
  <2>2. BatchOver'
    BY <1>1, <1>7, OverStays DEF ReimportNext, BoardInv, BatchOver
  <2> QED BY <1>1, <1>7, <2>1, <2>2, ChainsKept DEF ReimportNext, ChainTask, BoardInv
<1> QED BY <1>1, <1>2, <1>3, <1>4, <1>5, <1>6, <1>7 DEF BoardNext

-----------------------------------------------------------------------------
(***************************************************************************)
(* The reader of the title page.                                           *)
(***************************************************************************)
\* The cell of the atom that is read, as it is now.
Cell == DeriveItem(ItemOf(page.atom, FALSE))

FileThere == HasLiveFile(page.atom)

\* The cell that the want alone makes, as it was read.
WantCell == wantState(page.want, FALSE)

\* What the reader has seen so far, it has witnessed: the cell as it is, and, while
\* it has seen no file, the cell that its want alone makes.
ReadTrue ==
    page.pc # "idle" =>
        /\ page.atom \in Wants /\ page.want \in WantRow
        /\ Cell \in witnessed
        /\ IF page.hasFile THEN page.pc = "jobs" /\ "available" \in witnessed
           ELSE (page.pc = "files" => ~FileThere) =>
                   WantCell \in witnessed

PageTyped ==
    page \in [pc : {"idle", "files", "jobs"}, atom : Wants \cup {NoWant},
              want : WantRow \cup {NoRow}, hasFile : BOOLEAN]

ReadInv == PageTyped /\ ReadTrue

TitleInv == BoardInv /\ ReadInv

\* The cell of a want depends on its file and on its row only.
LEMMA CellOfWant ==
    ASSUME NEW w \in WantRow, NEW f \in BOOLEAN, NEW a \in BOOLEAN
    PROVE  DeriveItem(Item(w, f, a, FALSE)) = IF f THEN "available" ELSE wantState(w, FALSE)
  BY TitleAssumption DEF Item, DeriveItem

LEMMA CellNow ==
    ASSUME IInv, NEW w \in Wants
    PROVE  /\ WantOf(w) \in WantRow
           /\ HasLiveFile(w) => DeriveItem(ItemOf(w, FALSE)) = "available"
           /\ ~HasLiveFile(w) => DeriveItem(ItemOf(w, FALSE)) = wantState(WantOf(w), FALSE)
<1>1. WantOf(w) \in WantRow
  BY DEF IInv, TypeOK, WantRow, WantOf, TitleWant
<1>2. HasLiveFile(w) \in BOOLEAN /\ HasActiveJob(w) \in BOOLEAN
  BY DEF HasLiveFile, HasActiveJob
<1> QED BY <1>1, <1>2, CellOfWant DEF ItemOf

\* A step of the reader moves no row.
LEMMA CellStays ==
    ASSUME UNCHANGED vars
    PROVE  /\ Cell' = DeriveItem(ItemOf(page'.atom, FALSE))
           /\ FileThere' <=> HasLiveFile(page'.atom)
  BY DEF vars, Cell, FileThere, ItemOf, WantOf, HasLiveFile, HasActiveJob

LEMMA WantCellIs == WantCell' = wantState(page'.want, FALSE)
BY DEF WantCell, wantState

\* No step takes a file row away.
LEMMA FiledGrows ==
    ASSUME BoardNext
    PROVE  filed \subseteq filed'
<1>1. CASE AcqStep
  BY <1>1 DEF AcqStep, AcqHandle, Reap, SearchError, ClaimRunnableWants, SkipCovered, Search,
              Route, GrabSingle, GrabPack, ProposeOrSupersede, Reschedule, FailWant, files
<1>2. CASE DlStep
  BY <1>2 DEF DlStep, DlHandle, ClaimRunnableDownloadJobs, PollProgress, PollCompleted, PollFailed,
         Poll, SpawnNoFiles, ClientError, ListError, RetryOrFailJob, Enqueue, MirrorDownloading,
         FileTask, ReleaseUncovered, ExcludeRelease, MirrorDone, FileDone, UnlinkUncovered,
         UncoverDone, FailJob, ReleaseFailed, RestampManualHold, RecoverDone, SpawnImportTasks, files
<1>3. CASE ImpStep
  BY <1>3 DEF ImpStep, ClaimRunnableImportTasks, ImportError, ImpHandle, DestinationExists,
              RemoveOld, Place, Commit, MirrorAvailable, SetImportTaskFailed, MirrorFailed, files
<1>4. CASE UsrStep
  BY <1>4, GrabbedByHand
     DEF UsrStep, ServeCancel, Reactivate, RequestCancelWant, RequestCancelTracking,
         CancelNextWant, CancelJobsOfWant, CancelDone, SetAutonomy, RetryTracking, RearmMovieWant,
         Approve, Decline, CancelDownloadJob, RetryDownload, CancelImportTask, Reimport, files
<1> QED BY <1>1, <1>2, <1>3, <1>4
        DEF BoardNext, Ask, UsrStep, JobRetried, TaskReimported, ReimportFailed, ReimportNext,
            Crash, files

LEMMA ReadKept ==
    ASSUME TitleInv, [TitleNext]_titleVars
    PROVE  ReadInv'
<1> IInv /\ PageTyped /\ ReadTrue
  BY DEF TitleInv, BoardInv, ReadInv
<1>1. ASSUME BoardNext, UNCHANGED page, Watch
      PROVE  ReadInv'
  <2>1. filed \subseteq filed'
    BY <1>1, FiledGrows
  <2>2. PageTyped'
    BY <1>1 DEF PageTyped
  <2>3. ASSUME page.pc # "idle"
        PROVE  ReadTrue'
    <3>1. witnessed' = witnessed \cup {Cell'}
      BY <1>1, <2>3 DEF Watch, Cell
    <3>2. Cell' \in witnessed'
      BY <3>1
    <3>3. FileThere => FileThere'
      BY <1>1, <2>1 DEF FileThere, HasLiveFile
    <3>4. WantCell' = WantCell
      BY <1>1, WantCellIs DEF WantCell
    <3> QED BY <1>1, <2>3, <3>1, <3>2, <3>3, <3>4 DEF ReadTrue
  <2> QED BY <1>1, <2>2, <2>3 DEF ReadInv, ReadTrue
<1>2. ASSUME NEW w \in Wants, ReadWant(w)
      PROVE  ReadInv'
  <2>1. /\ page' = [PageIdle EXCEPT !.pc = "files", !.atom = w, !.want = WantOf(w)]
        /\ witnessed' = {DeriveItem(ItemOf(w, FALSE))}
        /\ UNCHANGED boardVars
    BY <1>2 DEF ReadWant
  <2>2. /\ page'.pc = "files" /\ page'.atom = w /\ page'.want = WantOf(w) /\ ~page'.hasFile
        /\ PageTyped'
    BY <2>1, CellNow DEF PageIdle, PageTyped
  <2>3. /\ Cell' = DeriveItem(ItemOf(w, FALSE)) /\ (FileThere' <=> HasLiveFile(w))
        /\ WantCell' = wantState(WantOf(w), FALSE)
    BY <2>1, <2>2, CellStays, WantCellIs DEF boardVars
  <2> QED BY <2>1, <2>2, <2>3, CellNow DEF ReadInv, ReadTrue
<1>3. ASSUME ReadFiles
      PROVE  ReadInv'
  <2>1. /\ page.pc = "files" /\ page' = [page EXCEPT !.pc = "jobs", !.hasFile = HasLiveFile(page.atom)]
        /\ UNCHANGED <<boardVars, witnessed>>
    BY <1>3 DEF ReadFiles
  <2>2. /\ page'.pc = "jobs" /\ page'.atom = page.atom /\ page'.want = page.want
        /\ page'.hasFile = HasLiveFile(page.atom)
        /\ HasLiveFile(page.atom) \in BOOLEAN
        /\ PageTyped'
    BY <2>1 DEF PageTyped, HasLiveFile
  <2>3. Cell' = Cell /\ WantCell' = WantCell
    BY <2>1, <2>2, CellStays, WantCellIs DEF boardVars, Cell, WantCell
  <2>4. /\ page.atom \in Wants /\ page.want \in WantRow /\ ~page.hasFile
        /\ Cell \in witnessed
        /\ ~HasLiveFile(page.atom) => WantCell \in witnessed
    BY <2>1 DEF ReadTrue, PageTyped, FileThere
  <2>5. HasLiveFile(page.atom) => "available" \in witnessed
    BY <2>4, CellNow DEF Cell
  <2> QED BY <2>1, <2>2, <2>3, <2>4, <2>5 DEF ReadInv, ReadTrue
<1>4. ASSUME ReadJobs
      PROVE  ReadInv'
  BY <1>4 DEF ReadJobs, PageIdle, ReadInv, ReadTrue, PageTyped
<1>5. ASSUME UNCHANGED titleVars
      PROVE  ReadInv'
  <2>1. UNCHANGED <<vars, page, witnessed>>
    BY <1>5 DEF titleVars, boardVars
  <2>2. Cell' = Cell /\ WantCell' = WantCell /\ (FileThere' <=> FileThere)
    BY <2>1, CellStays, WantCellIs DEF Cell, WantCell, FileThere
  <2> QED BY <2>1, <2>2 DEF ReadInv, ReadTrue, PageTyped
<1> QED BY <1>1, <1>2, <1>3, <1>4, <1>5 DEF TitleNext

\* A step of the reader changes no table.
LEMMA TitleKept ==
    ASSUME TitleInv, [TitleNext]_titleVars
    PROVE  TitleInv'
<1> BoardInv /\ IInv
  BY DEF TitleInv, BoardInv
<1>1. CASE BoardNext
  BY <1>1, BoardKeeps, ReadKept DEF TitleInv
<1>2. CASE UNCHANGED boardVars
  <2>1. UNCHANGED vars /\ UNCHANGED <<previousJob, previousTask, batch>>
    BY <1>2 DEF boardVars
  <2>2. IInv'
    BY <2>1, StutterKeeps
  <2>3. WorksOnLive' /\ JobChain' /\ TaskChain' /\ BatchOver'
    BY <2>1 DEF vars, BoardInv, WorksOnLive, JobChain, TaskChain, BatchOver
  <2> QED BY <2>2, <2>3, ReadKept DEF TitleInv, BoardInv
<1>3. [TitleNext]_titleVars => BoardNext \/ UNCHANGED boardVars
  BY DEF TitleNext, titleVars, ReadWant, ReadFiles, ReadJobs
<1> QED BY <1>1, <1>2, <1>3

LEMMA TitleStarts ==
    ASSUME TitleInit
    PROVE  TitleInv
<1>1. IInv
  BY InitOK DEF TitleInit, BoardInit
<1>2. WorksOnLive /\ JobChain /\ TaskChain /\ BatchOver
  BY DEF TitleInit, BoardInit, Init, WorksOnLive, DlIdle, JobChain, TaskChain, BatchOver
<1>3. ReadInv
  BY DEF TitleInit, PageIdle, ReadInv, PageTyped, ReadTrue
<1> QED BY <1>1, <1>2, <1>3 DEF TitleInv, BoardInv

LEMMA TitleInductive == TitleSpec => []TitleInv
<1>1. TitleInv /\ [TitleNext]_titleVars => TitleInv'
  BY TitleKept
<1> QED BY TitleStarts, <1>1, PTL DEF TitleSpec

-----------------------------------------------------------------------------
\* CellWasTrue: a cell of the title page was true at some moment of the read, though
\* its want, its files and its jobs were read one after the other (title_status.go).
THEOREM ShownCellsWereTrue == TitleSpec => CellWasTrue
<1>1. TitleInv /\ [TitleNext]_titleVars => [ReadJobs => CellShown \in witnessed]_titleVars
  <2> SUFFICES ASSUME TitleInv, ReadJobs
               PROVE  CellShown \in witnessed
    OBVIOUS
  <2>1. page.pc = "jobs" /\ PageTyped /\ ReadTrue
    BY DEF ReadJobs, TitleInv, ReadInv
  <2>2. page.want \in WantRow /\ page.hasFile \in BOOLEAN /\ HasActiveJob(page.atom) \in BOOLEAN
    BY <2>1 DEF ReadTrue, PageTyped, HasActiveJob
  <2>3. CellShown = IF page.hasFile THEN "available" ELSE wantState(page.want, FALSE)
    BY <2>2, CellOfWant DEF CellShown
  <2> QED BY <2>1, <2>3 DEF ReadTrue, WantCell
<1> QED BY <1>1, TitleInductive, PTL DEF TitleSpec, CellWasTrue

\* HeadlineFollowsWork: whatever became of the viewer's request, a title that is worked
\* on says so, and one that is not never says it is (titlestatus.go).
THEOREM HeadlineHolds == TitleSpec => []HeadlineFollowsWork
<1>1. TitleInv => HeadlineFollowsWork
  <2> SUFFICES ASSUME TitleInv, NEW late \in SUBSET Wants, NEW request
               PROVE  LET items == [w \in Wants |-> ItemOf(w, w \in late)]
                          res == Derive(MediaType, items, request, TRUE) IN
                      /\ res.counts.working > 0 =>
                            res.state \in WorkStates \cup ParkedStates
                                         \cup {"available", "partially_available"}
                      /\ res.state \in WorkStates => res.state = res.counts.phase
    BY DEF HeadlineFollowsWork
  <2> DEFINE items == [w \in Wants |-> ItemOf(w, w \in late)]
  <2>1. \A w \in Wants : Agrees(items[w])
    <3> TAKE w \in Wants
    <3>1. WantOf(w) \in WantRow
      BY CellNow DEF TitleInv, BoardInv
    <3>2. HasLiveFile(w) \in BOOLEAN /\ HasActiveJob(w) \in BOOLEAN
      BY DEF HasLiveFile, HasActiveJob
    <3>3. items[w] = Item(WantOf(w), HasLiveFile(w), HasActiveJob(w), w \in late)
      BY DEF ItemOf
    <3>4. (w \in late) \in BOOLEAN
      OBVIOUS
    <3> HIDE DEF items
    <3> QED BY <3>1, <3>2, <3>3, <3>4, CellAgrees
  <2>2. DOMAIN items = Wants
    OBVIOUS
  <2> DEFINE res == Derive(MediaType, items, request, TRUE)
  <2>3. /\ res.counts.working > 0 =>
              res.state \in WorkStates \cup ParkedStates \cup {"available", "partially_available"}
        /\ res.state \in WorkStates => res.state = res.counts.phase
    <3> HIDE DEF items
    <3> QED BY <2>1, <2>2, TitleAssumption, HeadlineAgrees
  <2> QED BY <2>3
<1> QED BY <1>1, TitleInductive, PTL

-----------------------------------------------------------------------------
(***************************************************************************)
(* The chains.                                                             *)
(***************************************************************************)
\* The history of a row is defined, step by step, as far as one goes back.
LEMMA HistoryIs ==
    ASSUME NEW x, NEW p, NEW N \in Nat, Cardinality(DOMAIN p) = N
    PROVE  \E f : /\ f = [n \in 0..N |-> IF n = 0 THEN x
                                         ELSE IF f[n - 1] = 0 THEN 0 ELSE p[f[n - 1]]]
                  /\ History(x, p) = Range(f) \ {0}
<1> DEFINE Defined(M) ==
      \E f : /\ f = [n \in 0..M |-> f[n]]
             /\ \A n \in 0..M : f[n] = IF n = 0 THEN x
                                       ELSE IF f[n - 1] = 0 THEN 0 ELSE p[f[n - 1]]
           T == {M \in Nat : ~Defined(M)}
<1>1. Defined(0)
  <2> DEFINE f == [n \in 0..0 |-> x]
  <2>1. /\ f = [n \in 0..0 |-> f[n]]
        /\ \A n \in 0..0 : f[n] = IF n = 0 THEN x ELSE IF f[n - 1] = 0 THEN 0 ELSE p[f[n - 1]]
    OBVIOUS
  <2> QED BY <2>1
<1>2. ASSUME NEW M \in Nat, Defined(M)
      PROVE  Defined(M + 1)
  <2>1. PICK f : \A n \in 0..M : f[n] = IF n = 0 THEN x
                                        ELSE IF f[n - 1] = 0 THEN 0 ELSE p[f[n - 1]]
    BY <1>2
  <2> DEFINE g == [n \in 0..(M + 1) |-> IF n <= M THEN f[n] ELSE IF f[M] = 0 THEN 0 ELSE p[f[M]]]
  <2>2. /\ \A n \in 0..M : g[n] = f[n]
        /\ g = [n \in 0..(M + 1) |-> g[n]]
    OBVIOUS
  <2>3. \A n \in 0..(M + 1) : g[n] = IF n = 0 THEN x ELSE IF g[n - 1] = 0 THEN 0 ELSE p[g[n - 1]]
    <3> TAKE n \in 0..(M + 1)
    <3>1. CASE n \in 0..M
      <4>1. n # 0 => n - 1 \in 0..M
        BY <3>1
      <4> HIDE DEF g
      <4> QED BY <2>1, <2>2, <3>1, <4>1
    <3>2. CASE n = M + 1
      <4>1. g[n] = IF f[M] = 0 THEN 0 ELSE p[f[M]]
        BY <3>2
      <4>2. n # 0 /\ n - 1 = M /\ M \in 0..M
        BY <3>2
      <4> HIDE DEF g
      <4> QED BY <2>2, <4>1, <4>2
    <3> QED BY <3>1, <3>2
  <2> HIDE DEF g
  <2> QED BY <2>2, <2>3
<1> HIDE DEF Defined
<1>3. T = {}
  <2> SUFFICES ASSUME T # {} PROVE FALSE
    OBVIOUS
  <2>1. T \in SUBSET Nat
    OBVIOUS
  <2>2. PICK m \in T : \A k \in T : m <= k
    <3> HIDE DEF T
    <3> QED BY <2>1, LeastNumber
  <2>3. m \in Nat /\ ~Defined(m)
    BY <2>2
  <2>4. m # 0
    BY <1>1, <2>3
  <2>5. m - 1 \in Nat /\ m - 1 \notin T /\ (m - 1) + 1 = m
    BY <2>2, <2>3, <2>4
  <2>6. Defined(m - 1)
    BY <2>5
  <2>7. Defined((m - 1) + 1)
    BY <1>2, <2>5, <2>6
  <2> QED BY <2>3, <2>5, <2>7
<1>4. Defined(N)
  BY <1>3
<1>5. \E f : f = [n \in 0..N |-> IF n = 0 THEN x ELSE IF f[n - 1] = 0 THEN 0 ELSE p[f[n - 1]]]
  <2>1. PICK f : /\ f = [n \in 0..N |-> f[n]]
                 /\ \A n \in 0..N : f[n] = IF n = 0 THEN x
                                           ELSE IF f[n - 1] = 0 THEN 0 ELSE p[f[n - 1]]
    BY <1>4 DEF Defined
  <2>2. f = [n \in 0..N |-> IF n = 0 THEN x ELSE IF f[n - 1] = 0 THEN 0 ELSE p[f[n - 1]]]
    BY <2>1
  <2> QED BY <2>2
<1> QED BY <1>5 DEF History

\* A history stays within any set that the links do not lead out of.
LEMMA HistoryWithin ==
    ASSUME NEW S, IsFiniteSet(S), NEW p \in [S -> S \cup {0}], NEW G \in SUBSET S,
           NEW x \in G, \A y \in G : p[y] \in G \cup {0}
    PROVE  History(x, p) \subseteq G
<1> DEFINE N == Cardinality(S)
<1>1. N \in Nat /\ Cardinality(DOMAIN p) = N
  BY FS_CardinalityType
<1>2. PICK f : /\ f = [n \in 0..N |-> IF n = 0 THEN x ELSE IF f[n - 1] = 0 THEN 0 ELSE p[f[n - 1]]]
               /\ History(x, p) = Range(f) \ {0}
  <2> HIDE DEF N
  <2> QED BY <1>1, HistoryIs
<1>3. \A n \in 0..N : f[n] = IF n = 0 THEN x ELSE IF f[n - 1] = 0 THEN 0 ELSE p[f[n - 1]]
  BY <1>2
<1> DEFINE T == {n \in 0..N : f[n] \notin G \cup {0}}
<1>4. T = {}
  <2> SUFFICES ASSUME T # {} PROVE FALSE
    OBVIOUS
  <2>1. T \in SUBSET Nat
    OBVIOUS
  <2>2. PICK m \in T : \A k \in T : m <= k
    <3> HIDE DEF T
    <3> QED BY <2>1, LeastNumber
  <2>3. m # 0 /\ m \in 0..N
    BY <1>3, <2>2
  <2>4. m - 1 \in 0..N /\ m - 1 \notin T
    BY <1>1, <2>2, <2>3
  <2>5. f[m - 1] \in G \cup {0}
    BY <2>4
  <2> QED BY <1>3, <2>2, <2>3, <2>5
<1> QED BY <1>2, <1>4 DEF Range

\* HiddenIsOver: what a retry or a re-import took the place of is over for good.
THEOREM HiddenStaysOver == TitleSpec => []HiddenIsOver
<1>1. ASSUME TitleInv
      PROVE  HiddenIsOver
  <2> JobChain /\ TaskChain
    BY <1>1 DEF TitleInv, BoardInv
  <2>1. IsFiniteSet(Jobs) /\ IsFiniteSet(Tasks)
    BY BoundsAssumption, FS_Interval DEF Jobs, Tasks
  <2>2. \A j \in Existing \ ListedJobs : job[j].status = "failed"
    <3> TAKE j \in Existing \ ListedJobs
    <3>1. j \in Jobs /\ j \in Range(previousJob) /\ j # NoJob
      BY DEF ListedJobs, Existing, Jobs, NoJob
    <3>2. PICK k \in Jobs : j = previousJob[k]
      BY <3>1 DEF Range, JobChain
    <3> QED BY <3>1, <3>2 DEF JobChain
  <2>3. ASSUME NEW j \in Jobs, NEW i \in JobHistory(j)
        PROVE  job[i].release = job[j].release
    <3> DEFINE G == {k \in Jobs : job[k].release = job[j].release}
    <3>1. \A k \in G : previousJob[k] \in G \cup {0}
      BY DEF JobChain, NoJob
    <3>2. History(j, previousJob) \subseteq G
      BY <2>1, <3>1, HistoryWithin DEF JobChain, NoJob
    <3> QED BY <2>3, <3>2 DEF JobHistory
  <2>4. ASSUME NEW t \in Tasks, NEW u \in TaskHistory(t) \ {t}
        PROVE  /\ task[u].status \in Finished
               /\ task[u].job = task[t].job /\ task[u].episode = task[t].episode
    <3> DEFINE G == {v \in Tasks : /\ v = t \/ task[v].status \in Finished
                                   /\ task[v].job = task[t].job
                                   /\ task[v].episode = task[t].episode}
    <3>1. \A v \in G : previousTask[v] \in G \cup {0}
      BY DEF TaskChain, NoTask
    <3>2. History(t, previousTask) \subseteq G
      BY <2>1, <3>1, HistoryWithin DEF TaskChain, NoTask
    <3> QED BY <2>4, <3>2 DEF TaskHistory
  <2> QED BY <2>2, <2>3, <2>4 DEF HiddenIsOver
<1> QED BY <1>1, TitleInductive, PTL

-----------------------------------------------------------------------------
(***************************************************************************)
(* A job shown as fully imported has left no want behind.                  *)
(*                                                                         *)
(* FilingInv follows a want of a completed job until a task is made for it *)
(* or the want is released; Mirrored says that a task that ends tells its  *)
(* want, LibraryInv that the file a re-import removes is missed by a task  *)
(* the page counts.  Three things break it in this code, and are excluded: *)
(* a restart between two tasks of a pack, a grab that joins a job which is *)
(* completed, and a re-import of a task that was canceled.                 *)
(***************************************************************************)
\* No grab joins a job that is completed.
JoinsLive ==
    \A j \in Jobs : job[j].status = "completed" => job'[j].wants \subseteq job[j].wants

\* No task is made to re-import one that was canceled.
ReimportsEnded ==
    \A t \in Tasks : previousTask'[t] # previousTask[t] =>
        task[previousTask'[t]].status # "cancelled"

\* The worker makes the tasks of the job.
Filing(j) == dl.job = j /\ dl.pc \in {"file", "uncover", "unlink"}

\* The partial unique index.
OneIndexed ==
    \A i, j \in Jobs :
        Indexed(i) /\ Indexed(j) /\ job[i].release = job[j].release => i = j

\* Tasks are made for completed jobs.
TasksAfterDone ==
    \A t \in Tasks : task[t].status # "absent" => job[task[t].job].status = "completed"

\* The job is completed before its tasks are made.
SpawnsForDone ==
    dl.pc \in {"spawn", "file", "uncover", "unlink"} => job[dl.job].status = "completed"

\* Until the worker makes one, the job in hand has no task.
NoneYet ==
    dl.pc \in {"process", "spawn", "fail"} \/ (Filing(dl.job) /\ ~dl.made)
    => TasksOf(dl.job) = {}

\* What becomes of a want of a completed job: a task was made for it, or the worker
\* has yet to make one or to release it; or no task was made at all.
Tasked ==
    \A j \in Jobs : job[j].status = "completed" => \A w \in job[j].wants :
        \/ TasksOf(j) = {} /\ ~Filing(j)
        \/ \E t \in TasksOf(j) : task[t].want = w
        \/ Filing(j) /\ w \in dl.uncovered
        \/ Filing(j) /\ dl.pc = "file" /\ dl.linked /\ w \in dl.todo

FilingInv == OneIndexed /\ TasksAfterDone /\ SpawnsForDone /\ NoneYet /\ Tasked

\* A task that is made by another process than the download worker is for a job that
\* has one.
TasksJoin ==
    \A t \in Tasks : task[t].status = "absent" /\ task'[t].status # "absent" =>
        \E u \in Tasks : task[u].status # "absent" /\ task[u].job = task'[t].job

\* The completed jobs stay, and no other completes.
SameDone == \A j \in Jobs : job'[j].status = "completed" <=> job[j].status = "completed"

-----------------------------------------------------------------------------
\* The tasks of a job after a step.
LEMMA TasksOfGrow ==
    ASSUME IInv, TaskStep
    PROVE  /\ \A j : \A t \in TasksOf(j) : t \in TasksOf(j)' /\ task'[t].want = task[t].want
           /\ TasksJoin => \A j : TasksOf(j) = {} => TasksOf(j)' = {}
<1>1. \A j : \A t \in TasksOf(j) : t \in TasksOf(j)' /\ task'[t].want = task[t].want
  BY DEF TasksOf, TaskStep
<1>2. ASSUME TasksJoin, NEW j, TasksOf(j) = {}
      PROVE  TasksOf(j)' = {}
  <2>1. ASSUME NEW t \in Tasks, task'[t].status # "absent", task'[t].job = j
        PROVE  FALSE
    <3>1. CASE task[t].status # "absent"
      BY <1>2, <2>1, <3>1 DEF TaskStep, TasksOf
    <3>2. CASE task[t].status = "absent"
      BY <1>2, <2>1, <3>2 DEF TasksJoin, TasksOf
    <3> QED BY <3>1, <3>2
  <2> QED BY <2>1 DEF TasksOf
<1> QED BY <1>1, <1>2

\* A step of another process than the download worker, where no completed job gains a
\* want.
LEMMA OthersFile ==
    ASSUME IInv, FilingInv, StepOK, UNCHANGED dl, OneIndexed', SameDone, JoinsLive, TasksJoin
    PROVE  FilingInv'
<1> TaskStep /\ JobStep
  BY DEF StepOK
<1>1. TasksAfterDone'
  <2>1. ASSUME NEW t \in Tasks, task'[t].status # "absent"
        PROVE  job'[task'[t].job].status = "completed"
    <3>1. PICK u \in Tasks : task[u].status # "absent" /\ task[u].job = task'[t].job
      BY <2>1 DEF TasksJoin, TaskStep
    <3> QED BY <3>1 DEF FilingInv, TasksAfterDone, SameDone, IInv, Linked, TaskLinked
  <2> QED BY <2>1 DEF TasksAfterDone
<1>2. SpawnsForDone'
  BY DEF FilingInv, SpawnsForDone, SameDone, IInv, Linked, DlHolds
<1>3. NoneYet'
  BY TasksOfGrow DEF FilingInv, NoneYet, Filing
<1>4. Tasked'
  <2>1. ASSUME NEW j \in Jobs, job'[j].status = "completed", NEW w \in job'[j].wants
        PROVE  \/ (TasksOf(j) = {} /\ ~Filing(j))'
               \/ \E t \in TasksOf(j)' : task'[t].want = w
               \/ (Filing(j) /\ w \in dl.uncovered)'
               \/ (Filing(j) /\ dl.pc = "file" /\ dl.linked /\ w \in dl.todo)'
    <3>1. job[j].status = "completed" /\ w \in job[j].wants
      BY <2>1 DEF SameDone, JoinsLive
    <3>2. Filing(j)' <=> Filing(j)
      BY DEF Filing
    <3>3. \/ TasksOf(j) = {} /\ ~Filing(j)
          \/ \E t \in TasksOf(j) : task[t].want = w
          \/ Filing(j) /\ w \in dl.uncovered
          \/ Filing(j) /\ dl.pc = "file" /\ dl.linked /\ w \in dl.todo
      BY <3>1 DEF FilingInv, Tasked
    <3> QED BY <3>2, <3>3, TasksOfGrow
  <2> QED BY <2>1 DEF Tasked
<1> QED BY <1>1, <1>2, <1>3, <1>4 DEF FilingInv

-----------------------------------------------------------------------------

\* The index holds, and no job becomes completed or ceases to be.
LEMMA CreatedIndexed ==
    ASSUME job \in [Jobs -> JobRow], OneIndexed,
           NEW k \in Jobs, NEW r, NEW S, CreateDownloadJob(k, r, S)
    PROVE  OneIndexed' /\ SameDone
<1>1. CASE Indexed(k)
  <2>1. job' = [job EXCEPT ![k] = [job[k] EXCEPT !.wants = @ \cup S]]
    BY <1>1 DEF CreateDownloadJob
  <2>2. \A j \in Jobs : job'[j].status = job[j].status /\ job'[j].release = job[j].release
    BY <2>1 DEF JobRow
  <2> QED BY <2>2 DEF OneIndexed, Indexed, SameDone
<1>2. CASE ~Indexed(k)
  <2>1. /\ job[k].status = "absent" /\ IndexedFor(r) = {}
        /\ job' = [job EXCEPT ![k] = NewJob(r, S)]
    BY <1>2 DEF CreateDownloadJob, FreshJob, IndexedFor
  <2>2. job'[k].status = "created" /\ job'[k].release = r /\ \A j \in Jobs : j # k => job'[j] = job[j]
    BY <2>1 DEF NewJob
  <2> QED BY <2>1, <2>2 DEF OneIndexed, Indexed, IndexedFor, SameDone
<1> QED BY <1>1, <1>2

\* The other processes keep the index, and what is completed.
LEMMA OthersIndexed ==
    ASSUME IInv, OneIndexed, AcqStep \/ ImpStep \/ UsrStep
    PROVE  UNCHANGED dl /\ OneIndexed' /\ SameDone
<1> job \in [Jobs -> JobRow]
  BY DEF IInv, TypeOK
<1>1. UNCHANGED job => OneIndexed' /\ SameDone
  BY DEF OneIndexed, Indexed, SameDone
<1>2. ASSUME NEW S \in SUBSET Jobs, CancelJobs(S), \A j \in S : job[j].status \in ActiveJob
      PROVE  OneIndexed' /\ SameDone
  <2>1. \A j \in Jobs :
          /\ job'[j].release = job[j].release
          /\ \/ job'[j].status = job[j].status
             \/ job'[j].status = "cancelled" /\ job[j].status \in ActiveJob
    BY <1>2 DEF CancelJobs, JobRow
  <2>2. \A j \in Jobs : Indexed(j)' => Indexed(j)
    BY <2>1 DEF Indexed, DeadJob
  <2>3. SameDone
    BY <2>1 DEF SameDone, ActiveJob
  <2> QED BY <2>1, <2>2, <2>3 DEF OneIndexed
<1> QED BY <1>1, <1>2, JobsOfOthers, CreatedIndexed

\* Only the download worker and the re-imports make tasks.
LEMMA OthersJoin ==
    ASSUME IInv, AcqStep \/ ImpStep \/ UsrStep
    PROVE  TasksJoin
<1> task \in [Tasks -> TaskRow]
  BY DEF IInv, TypeOK
<1>1. UNCHANGED task => TasksJoin
  BY DEF TasksJoin
<1>2. CASE AcqStep
  BY <1>1, <1>2 DEF AcqStep, AcqHandle, Reap, SearchError, ClaimRunnableWants, SkipCovered, Search,
              Route, GrabSingle, GrabPack, ProposeOrSupersede, Reschedule, FailWant
<1>3. ASSUME NEW t \in Tasks, task[t].status # "absent", \A u \in Tasks : u # t => task'[u] = task[u]
      PROVE  TasksJoin
  BY <1>3 DEF TasksJoin
<1>4. CASE ImpStep
  <2>1. imp.pc # "idle" => imp.task \in Tasks /\ task[imp.task].status # "absent"
    BY TaskInHand
  <2>2. \/ UNCHANGED task
        \/ \E t \in Tasks : task[t].status # "absent" /\ \A u \in Tasks : u # t => task'[u] = task[u]
    BY <1>4, <2>1 DEF ImpStep, ClaimRunnableImportTasks, ImportError, ImpHandle, DestinationExists,
              RemoveOld, Place, Commit, MirrorAvailable, SetImportTaskFailed, MirrorFailed
  <2> QED BY <1>1, <1>3, <2>2
<1>5. ASSUME NEW S, CancelJobs(S)
      PROVE  TasksJoin
  BY <1>5 DEF CancelJobs, TasksJoin
<1>6. ASSUME NEW t \in Tasks, CancelImportTask(t)
      PROVE  TasksJoin
  BY <1>6 DEF CancelImportTask, TasksJoin
<1>7. ASSUME NEW t \in Tasks, task[t].status # "absent",
             NEW u \in Tasks, CreateImportTask(u, task[t].job, task[t].episode, NoWant, TRUE)
      PROVE  TasksJoin
  BY <1>7 DEF CreateImportTask, NewTask, TasksJoin
<1>8. CASE UsrStep
  <2>1. ASSUME NEW t \in Tasks, Reimport(t)
        PROVE  TasksJoin
    BY <1>7, <2>1 DEF Reimport
  <2>2. CASE CancelJobsOfWant \/ \E j \in Jobs : CancelDownloadJob(j)
    BY <1>5, <2>2 DEF CancelJobsOfWant, CancelDownloadJob
  <2> QED BY <1>1, <1>6, <1>8, <2>1, <2>2
     DEF UsrStep, ServeCancel, Reactivate, RequestCancelWant, RequestCancelTracking,
         CancelNextWant, CancelDone, SetAutonomy, RetryTracking, RearmMovieWant, GrabManual, Approve,
         Decline, RetryDownload
<1> QED BY <1>2, <1>4, <1>8

-----------------------------------------------------------------------------
\* A step of the download worker that makes no tasks and is past none, and writes no
\* job with tasks.
LEMMA DlRestFiles ==
    ASSUME IInv, FilingInv, UNCHANGED task,
           dl.pc \notin {"file", "uncover", "unlink"}, dl'.pc \notin {"file", "uncover", "unlink"},
           \A j \in Jobs : TasksOf(j) # {} => job'[j] = job[j],
           OneIndexed', SpawnsForDone', NoneYet'
    PROVE  FilingInv'
<1>1. \A j : TasksOf(j)' = TasksOf(j) /\ ~Filing(j) /\ ~Filing(j)'
  BY DEF TasksOf, Filing
<1>2. TasksAfterDone'
  <2>1. ASSUME NEW t \in Tasks, task[t].status # "absent"
        PROVE  job'[task[t].job].status = "completed"
    <3>1. t \in TasksOf(task[t].job) /\ task[t].job \in Jobs
      BY <2>1 DEF TasksOf, IInv, Linked, TaskLinked
    <3> QED BY <2>1, <3>1 DEF FilingInv, TasksAfterDone
  <2> QED BY <2>1 DEF TasksAfterDone
<1>3. Tasked'
  <2>1. ASSUME NEW j \in Jobs, job'[j].status = "completed", NEW w \in job'[j].wants,
               TasksOf(j) # {}
        PROVE  \E t \in TasksOf(j) : task[t].want = w
    BY <1>1, <2>1 DEF FilingInv, Tasked
  <2> QED BY <1>1, <2>1 DEF Tasked
<1> QED BY <1>2, <1>3 DEF FilingInv

\* The steps that claim a job, hand it to the downloader and poll it.
LEMMA ProcessFiles ==
    ASSUME IInv, FilingInv, DlStep, dl.pc \in {"idle", "process", "mirror"}
    PROVE  FilingInv'
<1> /\ job \in [Jobs -> JobRow] /\ (dl.pc # "idle" => dl.job \in Jobs) /\ dl \in DlState
    /\ OneIndexed /\ SpawnsForDone /\ NoneYet
  BY DEF IInv, TypeOK, Linked, DlHolds, FilingInv
<1>1. UNCHANGED job => OneIndexed'
  BY DEF OneIndexed, Indexed
<1>2. UNCHANGED task => \A j : TasksOf(j)' = TasksOf(j)
  BY DEF TasksOf
<1>3. ASSUME NEW j \in Jobs, ClaimRunnableDownloadJobs(j)
      PROVE  FilingInv'
  <2>1. TasksOf(j) = {}
    BY <1>3 DEF ClaimRunnableDownloadJobs, TasksOf, FilingInv, TasksAfterDone, ActiveJob
  <2>2. dl'.pc = "process" /\ dl'.job = j /\ UNCHANGED <<job, task>>
    BY <1>3 DEF ClaimRunnableDownloadJobs, DlIdle
  <2>3. NoneYet' /\ SpawnsForDone'
    BY <1>2, <2>1, <2>2 DEF NoneYet, Filing, SpawnsForDone
  <2> QED BY <1>1, <2>2, <2>3, DlRestFiles
\* The row of the job that is processed is written, and the worker goes on with it.
<1>4. ASSUME dl.pc = "process", NEW row \in JobRow, row.release = job[dl.job].release,
             row.status \notin DeadJob => ~IndexConflict(dl.job),
             job' = [job EXCEPT ![dl.job] = row], UNCHANGED task,
             \/ dl'.pc \in {"idle", "mirror"}
             \/ dl'.job = dl.job /\ dl'.pc = "fail"
             \/ dl'.job = dl.job /\ dl'.pc = "spawn" /\ row.status = "completed"
      PROVE  FilingInv'
  <2>1. TasksOf(dl.job) = {}
    BY <1>4 DEF NoneYet
  <2>2. \A j \in Jobs : j # dl.job => job'[j] = job[j]
    BY <1>4
  <2>3. job'[dl.job] = row
    BY <1>4
  <2>6. \A j \in Jobs : j # dl.job => (Indexed(j)' <=> Indexed(j))
    BY <2>2 DEF Indexed
  <2>7. \A j \in Jobs : j # dl.job /\ Indexed(j) /\ row.status \notin DeadJob =>
           job[j].release # job[dl.job].release
    BY <1>4 DEF IndexConflict, IndexedFor
  <2>8. \A j \in Jobs : j = dl.job /\ Indexed(j)' => row.status \notin DeadJob
    BY <2>3 DEF Indexed
  <2>4. OneIndexed'
    BY <1>4, <2>2, <2>3, <2>6, <2>7, <2>8 DEF OneIndexed
  <2>5. NoneYet' /\ SpawnsForDone'
    BY <1>2, <1>4, <2>1, <2>3 DEF NoneYet, Filing, SpawnsForDone
  <2> QED BY <1>4, <2>1, <2>2, <2>4, <2>5, DlRestFiles
<1>5. ASSUME UNCHANGED <<job, task>>, dl'.pc \in {"idle", "mirror"} \/ (dl.pc = "process" /\ Goto("fail"))
      PROVE  FilingInv'
  <2>1. dl'.pc \in {"idle", "mirror"} \/ (dl.pc = "process" /\ dl'.pc = "fail" /\ dl'.job = dl.job)
    BY <1>5 DEF Goto, DlState
  <2>2. NoneYet' /\ SpawnsForDone'
    BY <1>2, <1>5, <2>1 DEF NoneYet, Filing, SpawnsForDone
  <2> QED BY <1>1, <1>5, <2>1, <2>2, DlRestFiles
<1>6. CASE Enqueue
  <2>1. CASE IndexConflict(dl.job)
    BY <1>5, <1>6, <2>1 DEF Enqueue
  <2>2. CASE ~IndexConflict(dl.job)
    <3>1. SetEnqueued(job[dl.job]) \in JobRow /\ SetEnqueued(job[dl.job]).release = job[dl.job].release
      BY <1>6, SetEnqueuedOK DEF Enqueue
    <3>2. /\ job' = [job EXCEPT ![dl.job] = SetEnqueued(job[dl.job])]
          /\ dl'.pc = "idle" /\ UNCHANGED task /\ dl.pc = "process"
      BY <1>6, <2>2 DEF Enqueue, DlIdle
    <3> QED BY <1>4, <2>2, <3>1, <3>2
  <2> QED BY <2>1, <2>2
<1>7. ASSUME NEW st \in {"downloading", "completed", "failed"}, Poll(st)
      PROVE  FilingInv'
  <2>1. CASE st \notin DeadJob /\ IndexConflict(dl.job)
    BY <1>5, <1>7, <2>1 DEF Poll
  <2>2. CASE ~(st \notin DeadJob /\ IndexConflict(dl.job))
    <3> DEFINE row == [job[dl.job] EXCEPT !.status = st]
    <3>1. row \in JobRow /\ row.release = job[dl.job].release /\ row.status = st
      BY <1>7 DEF Poll, JobRow, JobStatus, ActiveJob, DeadJob
    <3>2. job' = [job EXCEPT ![dl.job] = row] /\ UNCHANGED task /\ dl.pc = "process"
      BY <1>7, <2>2 DEF Poll, SetJobStatus
    <3>3. row.status \notin DeadJob => ~IndexConflict(dl.job)
      BY <2>2, <3>1
    <3>4. AfterPoll(st) \in {"idle", "mirror", "fail"} \/ (AfterPoll(st) = "spawn" /\ st = "completed")
      BY DEF AfterPoll
    <3>5. \/ dl' = DlIdle
          \/ \E S : dl' = [dl EXCEPT !.pc = AfterPoll(st), !.todo = S]
      BY <1>7, <2>2 DEF Poll
    <3>6. \/ dl'.pc \in {"idle", "mirror"}
          \/ dl'.job = dl.job /\ dl'.pc = "fail"
          \/ dl'.job = dl.job /\ dl'.pc = "spawn" /\ row.status = "completed"
      <4>1. CASE dl' = DlIdle
        BY <4>1 DEF DlIdle
      <4>2. ASSUME NEW S, dl' = [dl EXCEPT !.pc = AfterPoll(st), !.todo = S]
            PROVE  dl'.pc = AfterPoll(st) /\ dl'.job = dl.job
        BY <4>2 DEF DlState
      <4> QED BY <3>1, <3>4, <3>5, <4>1, <4>2
    <3> HIDE DEF row
    <3> QED BY <1>4, <3>1, <3>2, <3>3, <3>6
  <2> QED BY <2>1, <2>2
<1>8. CASE ClientError
  <2>1. UNCHANGED task /\ dl.pc = "process"
    BY <1>8 DEF ClientError
  <2>2. CASE Goto("fail") /\ UNCHANGED job
    BY <1>5, <2>1, <2>2
  <2>3. CASE job' = [job EXCEPT ![dl.job].attempts = @ + 1] /\ dl' = DlIdle
    <3> DEFINE row == [job[dl.job] EXCEPT !.attempts = @ + 1]
    <3>1. TasksOf(dl.job) = {} /\ NoneYet' /\ SpawnsForDone' /\ dl'.pc = "idle"
      BY <2>1, <2>3 DEF NoneYet, SpawnsForDone, DlIdle, Filing
    <3>2. \A j \in Jobs : /\ job'[j].status = job[j].status /\ job'[j].release = job[j].release
                          /\ j # dl.job => job'[j] = job[j]
      BY <2>1, <2>3 DEF JobRow
    <3>3. OneIndexed'
      BY <3>2 DEF OneIndexed, Indexed
    <3> QED BY <2>1, <3>1, <3>2, <3>3, DlRestFiles
  <2> QED BY <1>8, <2>2, <2>3 DEF ClientError, RetryOrFailJob
<1>9. ASSUME NEW w \in Wants, MirrorDownloading(w)
      PROVE  FilingInv'
  BY <1>5, <1>9 DEF MirrorDownloading, DlState
<1>10. CASE MirrorDone
  BY <1>5, <1>10 DEF MirrorDone, DlIdle
<1>11. CASE PollProgress \/ PollCompleted \/ PollFailed
  BY <1>7, <1>11 DEF PollProgress, PollCompleted, PollFailed
<1>12. \/ \E j \in Jobs : ClaimRunnableDownloadJobs(j)
       \/ Enqueue \/ PollProgress \/ PollCompleted \/ PollFailed \/ ClientError \/ MirrorDone
       \/ \E w \in Wants : MirrorDownloading(w)
  BY DEF DlStep, DlHandle, SpawnNoFiles, ListError, FileTask, ReleaseUncovered, ExcludeRelease,
         FileDone, UnlinkUncovered, UncoverDone, FailJob, ReleaseFailed, RestampManualHold,
         RecoverDone, SpawnImportTasks
<1> QED BY <1>3, <1>6, <1>8, <1>9, <1>10, <1>11, <1>12

\* The job is completed: its wants get a task each, or are to be released.
LEMMA SpawnFiles ==
    ASSUME IInv, FilingInv, DlStep, dl.pc = "spawn"
    PROVE  FilingInv'
<1> /\ job \in [Jobs -> JobRow] /\ dl.job \in Jobs /\ dl \in DlState
    /\ OneIndexed /\ SpawnsForDone /\ NoneYet
  BY DEF IInv, TypeOK, Linked, DlHolds, FilingInv
<1>1. TasksOf(dl.job) = {} /\ job[dl.job].status = "completed"
  BY DEF NoneYet, SpawnsForDone
<1>2. CASE SpawnNoFiles \/ ListError
  <2>1. /\ UNCHANGED task
        /\ dl'.pc = "idle" \/ (dl'.pc = "fail" /\ dl'.job = dl.job)
        /\ job' = job \/ job' = [job EXCEPT ![dl.job].attempts = @ + 1]
    BY <1>2 DEF SpawnNoFiles, ListError, RetryOrFailJob, Goto, DlIdle, DlState
  <2>2. \A j \in Jobs : /\ job'[j].status = job[j].status /\ job'[j].release = job[j].release
                        /\ j # dl.job => job'[j] = job[j]
    BY <2>1 DEF JobRow
  <2>3. OneIndexed'
    BY <2>2 DEF OneIndexed, Indexed
  <2>4. NoneYet' /\ SpawnsForDone'
    BY <1>1, <2>1 DEF NoneYet, Filing, SpawnsForDone, TasksOf
  <2> QED BY <1>1, <2>1, <2>2, <2>3, <2>4, DlRestFiles
<1>3. ASSUME NEW F \in SUBSET Wants, SpawnImportTasks(F)
      PROVE  FilingInv'
  <2>1. /\ UNCHANGED <<job, task>> /\ dl'.pc = "file" /\ dl'.job = dl.job /\ dl'.made = dl.made
        /\ dl'.uncovered = job[dl.job].wants \ F
        /\ dl'.linked = (job[dl.job].wants # {})
        /\ job[dl.job].wants # {} => dl'.todo = F \cap job[dl.job].wants
    BY <1>3 DEF SpawnImportTasks, LinkedTo, DlState
  <2>2. \A j : TasksOf(j)' = TasksOf(j)
    BY <2>1 DEF TasksOf
  <2>3. OneIndexed' /\ TasksAfterDone'
    BY <2>1 DEF FilingInv, OneIndexed, Indexed, TasksAfterDone
  <2>4. NoneYet' /\ SpawnsForDone'
    BY <1>1, <2>1, <2>2 DEF NoneYet, SpawnsForDone
  <2>5. Tasked'
    <3>1. ASSUME NEW j \in Jobs, job[j].status = "completed", NEW w \in job[j].wants, j # dl.job
          PROVE  TasksOf(j) = {} \/ \E t \in TasksOf(j) : task[t].want = w
      BY <3>1 DEF FilingInv, Tasked, Filing
    <3>2. \A j \in Jobs : j # dl.job => ~Filing(j)'
      BY <2>1 DEF Filing
    <3>3. Filing(dl.job)'
      BY <2>1 DEF Filing
    <3>4. ASSUME NEW w \in job[dl.job].wants
          PROVE  w \in dl'.uncovered \/ (dl'.linked /\ w \in dl'.todo)
      BY <2>1, <3>4
    <3>5. ASSUME NEW j \in Jobs, job'[j].status = "completed", NEW w \in job'[j].wants
          PROVE  \/ (TasksOf(j) = {} /\ ~Filing(j))'
                 \/ \E t \in TasksOf(j)' : task'[t].want = w
                 \/ (Filing(j) /\ w \in dl.uncovered)'
                 \/ (Filing(j) /\ dl.pc = "file" /\ dl.linked /\ w \in dl.todo)'
      <4>1. CASE j = dl.job
        BY <2>1, <3>3, <3>4, <3>5, <4>1 DEF Filing
      <4>2. CASE j # dl.job
        BY <2>1, <2>2, <3>1, <3>2, <3>5, <4>2
      <4> QED BY <4>1, <4>2
    <3> QED BY <3>5 DEF Tasked
  <2> QED BY <2>3, <2>4, <2>5 DEF FilingInv
<1>4. SpawnNoFiles \/ ListError \/ \E F \in SUBSET Wants : SpawnImportTasks(F)
  BY DEF DlStep, DlHandle, SpawnNoFiles, ListError, FileTask, ReleaseUncovered, ExcludeRelease,
         FileDone, UnlinkUncovered, UncoverDone, FailJob, ReleaseFailed, RestampManualHold,
         RecoverDone, SpawnImportTasks, ClaimRunnableDownloadJobs, Enqueue, PollProgress,
         PollCompleted, PollFailed, Poll, ClientError, MirrorDone, MirrorDownloading
<1> QED BY <1>2, <1>3, <1>4

\* A job that failed has no tasks, so that none is left behind.
LEMMA RecoverFiles ==
    ASSUME IInv, FilingInv, DlStep, dl.pc \in {"fail", "recover", "release", "restamp"}
    PROVE  FilingInv'
<1> /\ job \in [Jobs -> JobRow] /\ dl.job \in Jobs /\ dl \in DlState
    /\ OneIndexed /\ SpawnsForDone /\ NoneYet
  BY DEF IInv, TypeOK, Linked, DlHolds, FilingInv
<1>1. CASE FailJob
  <2>1. /\ TasksOf(dl.job) = {} /\ UNCHANGED task /\ dl'.pc = "recover"
        /\ job' = [job EXCEPT ![dl.job].status = "failed"]
    BY <1>1 DEF FailJob, SetJobStatus, NoneYet, DlState
  <2>2. /\ \A j \in Jobs : j # dl.job => job'[j] = job[j]
        /\ job'[dl.job].status = "failed"
    BY <2>1 DEF JobRow
  <2>3. \A j \in Jobs : Indexed(j)' => Indexed(j) /\ j # dl.job
    BY <2>2 DEF Indexed, DeadJob
  <2>4. OneIndexed'
    BY <2>2, <2>3 DEF OneIndexed
  <2>5. NoneYet' /\ SpawnsForDone'
    BY <2>1 DEF NoneYet, Filing, SpawnsForDone
  <2> QED BY <2>1, <2>2, <2>4, <2>5, DlRestFiles
<1>2. ASSUME UNCHANGED <<job, task>>, dl'.pc \in {"idle", "recover", "release", "restamp"}
      PROVE  FilingInv'
  <2>1. OneIndexed' /\ NoneYet' /\ SpawnsForDone'
    BY <1>2 DEF OneIndexed, Indexed, NoneYet, Filing, SpawnsForDone
  <2> QED BY <1>2, <2>1, DlRestFiles
<1>3. ASSUME NEW w \in Wants, ExcludeRelease(w)
      PROVE  FilingInv'
  BY <1>2, <1>3 DEF ExcludeRelease, DlState
<1>4. CASE ReleaseFailed \/ RestampManualHold \/ RecoverDone
  BY <1>2, <1>4 DEF ReleaseFailed, RestampManualHold, RecoverDone, Goto, DlIdle, DlState
<1>5. \/ FailJob \/ ReleaseFailed \/ RestampManualHold \/ RecoverDone
      \/ \E w \in Wants : ExcludeRelease(w)
  BY DEF DlStep, DlHandle, SpawnNoFiles, ListError, FileTask, ReleaseUncovered,
         FileDone, UnlinkUncovered, UncoverDone, SpawnImportTasks, ClaimRunnableDownloadJobs,
         Enqueue, PollProgress, PollCompleted, PollFailed, Poll, ClientError, MirrorDone,
         MirrorDownloading
<1> QED BY <1>1, <1>3, <1>4, <1>5

\* The loops over the files and over the wants without one.
LEMMA FilingFiles ==
    ASSUME IInv, FilingInv, DlStep, StepOK, dl.pc \in {"file", "uncover", "unlink"}
    PROVE  FilingInv'
<1> /\ job \in [Jobs -> JobRow] /\ task \in [Tasks -> TaskRow]
    /\ dl.job \in Jobs /\ dl \in DlState /\ TaskStep
    /\ OneIndexed /\ SpawnsForDone /\ NoneYet /\ TasksAfterDone
  BY DEF IInv, TypeOK, Linked, DlHolds, FilingInv, StepOK
<1>0. PICK d \in Jobs : d = dl.job
  OBVIOUS
<1> USE <1>0
<1>1. /\ job[dl.job].status = "completed" /\ Filing(dl.job)
      /\ \A w \in job[dl.job].wants :
            \/ \E t \in TasksOf(dl.job) : task[t].want = w
            \/ w \in dl.uncovered
            \/ dl.pc = "file" /\ dl.linked /\ w \in dl.todo
  BY DEF SpawnsForDone, Filing, FilingInv, Tasked
\* What is left to show of each step.
<1>2. ASSUME \A j \in Jobs : /\ job'[j].status = job[j].status
                              /\ job'[j].release = job[j].release
                              /\ job'[j].wants \subseteq job[j].wants,
             dl'.pc = "idle" \/ dl'.job = dl.job,
             \A t \in Tasks : task[t].status = "absent" /\ task'[t].status # "absent" =>
                 task'[t].job = dl.job,
             NoneYet',
             \A w \in job'[dl.job].wants :
                 \/ TasksOf(d)' = {} /\ ~Filing(d)'
                 \/ \E t \in TasksOf(d)' : task'[t].want = w
                 \/ Filing(d)' /\ w \in dl'.uncovered
                 \/ Filing(d)' /\ dl'.pc = "file" /\ dl'.linked /\ w \in dl'.todo
      PROVE  FilingInv'
  <2>1. OneIndexed'
    BY <1>2 DEF OneIndexed, Indexed
  <2>2. TasksAfterDone'
    <3>1. ASSUME NEW t \in Tasks, task'[t].status # "absent"
          PROVE  job'[task'[t].job].status = "completed"
      <4>1. CASE task[t].status = "absent"
        BY <1>1, <1>2, <3>1, <4>1
      <4>2. CASE task[t].status # "absent"
        BY <1>2, <4>2 DEF TasksAfterDone, TaskStep, IInv, Linked, TaskLinked
      <4> QED BY <4>1, <4>2
    <3> QED BY <3>1 DEF TasksAfterDone
  <2>3. SpawnsForDone'
    BY <1>1, <1>2 DEF SpawnsForDone
  <2>4. ASSUME NEW j \in Jobs, j # dl.job
        PROVE  ~Filing(j) /\ ~Filing(j)' /\ (TasksOf(j) = {} => TasksOf(j)' = {})
    <3>1. ~Filing(j) /\ ~Filing(j)'
      BY <1>2, <2>4 DEF Filing
    <3>2. ASSUME TasksOf(j) = {}, NEW t \in Tasks, task'[t].status # "absent", task'[t].job = j
          PROVE  FALSE
      <4>1. task[t].status # "absent"
        BY <1>2, <2>4, <3>2
      <4> QED BY <3>2, <4>1 DEF TaskStep, TasksOf
    <3> QED BY <3>1, <3>2 DEF TasksOf
  <2>5. ASSUME NEW j \in Jobs, job'[j].status = "completed", NEW w \in job'[j].wants
        PROVE  \/ TasksOf(j)' = {} /\ ~Filing(j)'
               \/ \E t \in TasksOf(j)' : task'[t].want = w
               \/ Filing(j)' /\ w \in dl'.uncovered
               \/ Filing(j)' /\ dl'.pc = "file" /\ dl'.linked /\ w \in dl'.todo
    <3>1. CASE j = dl.job
      BY <1>2, <2>5, <3>1
    <3>2. CASE j # dl.job
      <4>1. job[j].status = "completed" /\ w \in job[j].wants
        BY <1>2, <2>5
      <4>2. TasksOf(j) = {} \/ \E t \in TasksOf(j) : task[t].want = w
        BY <2>4, <3>2, <4>1 DEF FilingInv, Tasked
      <4> QED BY <2>4, <3>2, <4>2, TasksOfGrow
    <3> QED BY <3>1, <3>2
  <2>6. Tasked'
    BY <2>5 DEF Tasked
  <2> QED BY <1>2, <2>1, <2>2, <2>3, <2>6 DEF FilingInv
<1>3. UNCHANGED task => \A j : TasksOf(j)' = TasksOf(j)
  BY DEF TasksOf
<1>4. ASSUME NEW e \in Wants, FileTask(e)
      PROVE  FilingInv'
  <2>1. /\ dl.pc = "file" /\ UNCHANGED job
        /\ dl'.pc = "file" /\ dl'.job = dl.job /\ dl'.made /\ dl'.uncovered = dl.uncovered
        /\ dl'.linked = dl.linked /\ dl'.todo = dl.todo \ {e}
    BY <1>4 DEF FileTask, DlState
  <2>2. PICK t \in Tasks :
           CreateImportTask(t, dl.job, e, IF dl.linked THEN e ELSE NoWant, FALSE)
    BY <1>4 DEF FileTask
  <2>3. /\ task'[t].job = dl.job /\ task'[t].want = (IF dl.linked THEN e ELSE NoWant)
        /\ task'[t].status = "pending"
        /\ \A u \in Tasks : u # t => task'[u] = task[u]
    BY <2>2 DEF CreateImportTask, NewTask
  <2>4. t \in TasksOf(d)'
    BY <2>1, <2>3 DEF TasksOf
  <2>5. Filing(d)' /\ NoneYet'
    BY <2>1 DEF Filing, NoneYet
  <2>6. ASSUME NEW w \in job[dl.job].wants
        PROVE  \/ \E u \in TasksOf(d)' : task'[u].want = w
               \/ w \in dl'.uncovered
               \/ dl'.linked /\ w \in dl'.todo
    <3>1. CASE \E u \in TasksOf(dl.job) : task[u].want = w
      BY <2>1, <3>1, TasksOfGrow
    <3>2. CASE w \in dl.uncovered
      BY <2>1, <3>2
    <3>3. CASE dl.linked /\ w \in dl.todo
      BY <2>1, <2>3, <2>4, <3>3
    <3> QED BY <1>1, <3>1, <3>2, <3>3
  <2>7. \A j \in Jobs : job'[j] = job[j]
    BY <2>1
  <2> QED BY <1>2, <2>1, <2>3, <2>5, <2>6, <2>7
<1>5. CASE FileDone
  <2>1. /\ dl.todo = {} /\ UNCHANGED <<job, task>> /\ dl.pc = "file"
        /\ dl'.pc = "uncover" /\ dl'.job = dl.job /\ dl'.made = dl.made
        /\ dl'.uncovered = dl.uncovered
    BY <1>5 DEF FileDone, Goto, DlState
  <2>2. Filing(d)' /\ NoneYet'
    BY <1>1, <1>3, <2>1 DEF NoneYet, Filing
  <2> QED BY <1>1, <1>2, <1>3, <2>1, <2>2
<1>6. ASSUME NEW v \in Wants, ReleaseUncovered(v)
      PROVE  FilingInv'
  <2>1. /\ UNCHANGED <<job, task>> /\ dl.pc = "uncover"
        /\ dl'.pc = "unlink" /\ dl'.job = dl.job /\ dl'.made = dl.made
        /\ dl'.uncovered = dl.uncovered
    BY <1>6 DEF ReleaseUncovered, DlState
  <2>2. Filing(d)' /\ NoneYet'
    BY <1>1, <1>3, <2>1 DEF NoneYet, Filing
  <2> QED BY <1>1, <1>2, <1>3, <2>1, <2>2
<1>7. CASE UnlinkUncovered
  <2>1. /\ UNCHANGED task /\ dl.pc = "unlink"
        /\ dl'.pc = "uncover" /\ dl'.job = dl.job /\ dl'.made = dl.made
        /\ dl'.uncovered = dl.uncovered \ {dl.want}
        /\ job' = [job EXCEPT ![dl.job].wants = @ \ {dl.want}]
    BY <1>7 DEF UnlinkUncovered, DlState
  <2>2. Filing(d)' /\ NoneYet'
    BY <1>1, <1>3, <2>1 DEF NoneYet, Filing
  <2>3. /\ job'[dl.job].wants = job[dl.job].wants \ {dl.want}
        /\ \A j \in Jobs : /\ job'[j].status = job[j].status
                            /\ job'[j].release = job[j].release
                            /\ job'[j].wants \subseteq job[j].wants
    BY <2>1 DEF JobRow
  <2> QED BY <1>1, <1>2, <1>3, <2>1, <2>2, <2>3
<1>8. CASE UncoverDone
  <2>1. /\ UNCHANGED <<job, task>> /\ dl.pc = "uncover" /\ dl.uncovered = {}
        /\ \/ dl.made /\ dl'.pc = "idle"
           \/ ~dl.made /\ dl'.pc = "fail" /\ dl'.job = dl.job
    BY <1>8 DEF UncoverDone, Goto, DlIdle, DlState
  <2>2. \A w \in job[dl.job].wants : \E t \in TasksOf(dl.job) : task[t].want = w
    BY <1>1, <2>1
  <2>3. NoneYet'
    BY <1>1, <1>3, <2>1 DEF NoneYet, Filing
  <2> QED BY <1>2, <1>3, <2>1, <2>2, <2>3
<1>9. \/ FileDone \/ UnlinkUncovered \/ UncoverDone
      \/ \E w \in Wants : FileTask(w) \/ ReleaseUncovered(w)
  BY DEF DlStep, DlHandle, SpawnNoFiles, ListError, ExcludeRelease,
         SpawnImportTasks, ClaimRunnableDownloadJobs,
         Enqueue, PollProgress, PollCompleted, PollFailed, Poll, ClientError, MirrorDone,
         MirrorDownloading, FailJob, ReleaseFailed, RestampManualHold, RecoverDone
<1> QED BY <1>4, <1>5, <1>6, <1>7, <1>8, <1>9

\* Every step of the download worker.
LEMMA DlFilesTasks ==
    ASSUME IInv, FilingInv, DlStep
    PROVE  FilingInv'
<1>1. StepOK /\ dl.pc \in DlPc
  BY StepKeeps DEF Next, IInv, TypeOK, DlState
<1> QED BY <1>1, ProcessFiles, SpawnFiles, RecoverFiles, FilingFiles DEF DlPc

\* Where MaxCrashes is zero the process does not stop.
LEMMA NoRestart ==
    ASSUME IInv, Crash, MaxCrashes = 0
    PROVE  FALSE
  BY DEF Crash, IInv, TypeOK, Budget

LEMMA FilingStarts == Init => FilingInv
  BY DEF Init, NoJobRow, NoTaskRow, DlIdle, FilingInv, OneIndexed, Indexed, TasksAfterDone,
         SpawnsForDone, NoneYet, Filing, Tasked

LEMMA FilingStep ==
    ASSUME BoardInv, FilingInv, BoardNext, JoinsLive, MaxCrashes = 0
    PROVE  FilingInv'
<1>1. IInv /\ StepOK /\ OneIndexed
  BY BoardKeeps DEF BoardInv, FilingInv
<1>2. CASE AcqStep \/ ImpStep \/ UsrStep
  BY <1>1, <1>2, OthersIndexed, OthersJoin, OthersFile
<1>3. CASE DlStep
  BY <1>1, <1>3, DlFilesTasks
<1>4. ASSUME UNCHANGED <<job, dl>>, TasksJoin
      PROVE  FilingInv'
  <2>1. OneIndexed' /\ SameDone
    BY <1>1, <1>4 DEF OneIndexed, Indexed, SameDone
  <2> QED BY <1>1, <1>4, <2>1, OthersFile
<1>5. ASSUME NEW j \in Jobs, NEW all \in BOOLEAN, ReimportFailed(j, all)
      PROVE  FilingInv'
  <2>1. UNCHANGED <<job, dl, task>>
    BY <1>5 DEF ReimportFailed
  <2> QED BY <1>4, <2>1 DEF TasksJoin
<1>6. ASSUME NEW t \in Tasks, ReimportNext(t)
      PROVE  FilingInv'
  <2>1. UNCHANGED <<job, dl>> /\ task[t].status # "absent"
    BY <1>6 DEF ReimportNext, BoardInv, BatchOver, Finished
  <2>2. PICK u \in Tasks : CreateImportTask(u, task[t].job, task[t].episode, NoWant, TRUE)
    BY <1>6 DEF ReimportNext
  <2>3. TasksJoin
    BY <1>1, <2>1, <2>2 DEF CreateImportTask, NewTask, TasksJoin, IInv, TypeOK
  <2> QED BY <1>4, <2>1, <2>3
<1>7. BoardNext =>
         \/ AcqStep \/ DlStep \/ ImpStep \/ UsrStep \/ Crash
         \/ \E j \in Jobs, all \in BOOLEAN : ReimportFailed(j, all)
         \/ \E t \in Tasks : ReimportNext(t)
  BY DEF BoardNext, Ask, JobRetried, TaskReimported, UsrStep
<1> QED BY <1>1, <1>2, <1>3, <1>5, <1>6, <1>7, NoRestart

-----------------------------------------------------------------------------
\* The requests of the instances below bring no ended want back.
LEMMA NotRevived ==
    ASSUME IInv, NothingProposed, AcqStep \/ DlStep \/ ImpStep \/ UsrStep,
           "propose" \notin Dials, "retry" \notin Ops, "rearm" \notin Ops,
           MediaType = "series" \/ "manual_grab" \notin Ops
    PROVE  ~Revived /\ NothingProposed'
<1>1. (Revived => Reactivate) /\ NothingProposed'
  BY StickyStep DEF Next
<1>2. ASSUME NEW w \in Wants, NEW r \in Releases, GrabManual(w, r)
      PROVE  ~Revived
  <2>1. GrabEpisode(w, r)
    BY <1>2 DEF GrabManual, GrabMovie, Request
  <2>2. \A v \in Wants : want[v].status \in TerminalWant => want'[v] = want[v]
    BY <2>1 DEF GrabEpisode, GrabFor, Claimable, TerminalWant
  <2> QED BY <2>2 DEF Revived
<1>3. ~RetryTracking /\ \A w \in Wants : ~RearmMovieWant(w)
  BY DEF RetryTracking, RearmMovieWant, Request
<1> QED BY <1>1, <1>2, <1>3 DEF Reactivate

\* No task ends in the step.
NoTaskEnds ==
    \A t \in Tasks : task'[t].status \in {"completed", "failed"} => task[t].status = task'[t].status

\* Only the import worker ends tasks.
LEMMA OthersEndNone ==
    ASSUME IInv, AcqStep \/ DlStep \/ UsrStep
    PROVE  NoTaskEnds
<1> task \in [Tasks -> TaskRow]
  BY DEF IInv, TypeOK
<1>1. UNCHANGED task => NoTaskEnds
  BY DEF NoTaskEnds
<1>2. CASE AcqStep
  BY <1>1, <1>2 DEF AcqStep, AcqHandle, Reap, SearchError, ClaimRunnableWants, SkipCovered, Search,
              Route, GrabSingle, GrabPack, ProposeOrSupersede, Reschedule, FailWant
<1>3. ASSUME NEW u \in Tasks, NEW j, NEW e, NEW w, NEW re, CreateImportTask(u, j, e, w, re)
      PROVE  NoTaskEnds
  BY <1>3 DEF CreateImportTask, NewTask, NoTaskEnds
<1>4. ASSUME NEW w \in Wants, FileTask(w)
      PROVE  NoTaskEnds
  BY <1>3, <1>4 DEF FileTask
<1>5. CASE DlStep
  BY <1>1, <1>4, <1>5 DEF DlStep, DlHandle, SpawnNoFiles, ListError, ReleaseUncovered, ExcludeRelease,
         FileDone, UnlinkUncovered, UncoverDone, FailJob, ReleaseFailed, RestampManualHold,
         RecoverDone, SpawnImportTasks, ClaimRunnableDownloadJobs, Enqueue, PollProgress,
         PollCompleted, PollFailed, Poll, ClientError, MirrorDone, MirrorDownloading
<1>6. ASSUME NEW S, CancelJobs(S)
      PROVE  NoTaskEnds
  BY <1>6 DEF CancelJobs, NoTaskEnds
<1>7. ASSUME NEW t \in Tasks, CancelImportTask(t)
      PROVE  NoTaskEnds
  BY <1>7 DEF CancelImportTask, NoTaskEnds, TaskRow
<1>8. CASE UsrStep
  <2>1. ASSUME NEW t \in Tasks, Reimport(t)
        PROVE  NoTaskEnds
    BY <1>3, <2>1 DEF Reimport
  <2>2. CASE CancelJobsOfWant \/ \E j \in Jobs : CancelDownloadJob(j)
    BY <1>6, <2>2 DEF CancelJobsOfWant, CancelDownloadJob
  <2> QED BY <1>1, <1>7, <1>8, <2>1, <2>2
     DEF UsrStep, ServeCancel, Reactivate, RequestCancelWant, RequestCancelTracking,
         CancelNextWant, CancelDone, SetAutonomy, RetryTracking, RearmMovieWant, GrabManual, Approve,
         Decline, RetryDownload
<1> QED BY <1>2, <1>5, <1>8

-----------------------------------------------------------------------------
\* The import worker holds the task.
InHand(t) == imp.pc # "idle" /\ imp.task = t

\* The want of a task that ended has ended too, but for the task in hand.
Mirrored ==
    \A t \in Tasks :
        task[t].want \in Wants /\ task[t].status \in {"completed", "failed"} /\ ~InHand(t)
        => want[task[t].want].status \in TerminalWant

\* No task ends, no want comes back.
LEMMA OthersMirrored ==
    ASSUME IInv, Mirrored, StepOK, ~Revived, NoTaskEnds, UNCHANGED imp
    PROVE  Mirrored'
<1>1. ASSUME NEW t \in Tasks, task'[t].want \in Wants, task'[t].status \in {"completed", "failed"},
             ~InHand(t)'
      PROVE  want'[task'[t].want].status \in TerminalWant
  <2>1. task[t].status \in {"completed", "failed"} /\ task[t].want = task'[t].want /\ ~InHand(t)
    BY <1>1 DEF NoTaskEnds, StepOK, TaskStep, InHand
  <2>2. want[task[t].want].status \in TerminalWant
    BY <1>1, <2>1 DEF Mirrored
  <2> QED BY <1>1, <2>1, <2>2 DEF Revived
<1> QED BY <1>1 DEF Mirrored

\* The last mirror of an import, or of one that failed, ends the want.
LEMMA MirrorEnds ==
    ASSUME IInv, Mirrored, ~Revived, imp.pc # "idle", imp' = ImpIdle, UNCHANGED task,
           NEW s \in TerminalWant, MirrorWant(ThisTask.want, s)
    PROVE  Mirrored'
<1>1. ASSUME NEW t \in Tasks, task[t].want \in Wants, task[t].status \in {"completed", "failed"}
      PROVE  want'[task[t].want].status \in TerminalWant
  <2>1. CASE InHand(t)
    <3>1. want'[task[t].want] = MirrorWantStatus(want[task[t].want], s)
      BY <1>1, <2>1 DEF InHand, ThisTask, MirrorWant
    <3>2. want[task[t].want] \in WantRow
      BY <1>1 DEF IInv, TypeOK
    <3> QED BY <3>1, <3>2 DEF MirrorWantStatus, WantRow
  <2>2. CASE ~InHand(t)
    BY <1>1, <2>2 DEF Mirrored, Revived
  <2> QED BY <2>1, <2>2
<1> QED BY <1>1 DEF Mirrored

\* Every step of the import worker tells the want, or has its task in hand.
LEMMA ImpMirrored ==
    ASSUME IInv, Mirrored, ImpStep
    PROVE  Mirrored'
<1>1. ~Revived /\ StepOK /\ imp \in ImpState /\ task \in [Tasks -> TaskRow]
  BY ImpSticky, StepKeeps DEF Next, IInv, TypeOK
\* The task in hand may end; the others stay as they are.
<1>2. ASSUME NEW h \in Tasks,
             \/ imp'.task = h /\ imp'.pc # "idle"
             \/ task'[h].status \notin {"completed", "failed"},
             \A t \in Tasks : t # h => task'[t] = task[t] /\ ~InHand(t)
      PROVE  Mirrored'
  <2>1. ASSUME NEW t \in Tasks, task'[t].want \in Wants,
               task'[t].status \in {"completed", "failed"}, ~InHand(t)'
        PROVE  want'[task'[t].want].status \in TerminalWant
    <3>1. t # h
      BY <1>2, <2>1 DEF InHand
    <3>2. want[task[t].want].status \in TerminalWant
      BY <1>2, <2>1, <3>1 DEF Mirrored
    <3> QED BY <1>1, <1>2, <2>1, <3>1, <3>2 DEF Revived
  <2> QED BY <2>1 DEF Mirrored
<1>3. ASSUME NEW t \in Tasks, ClaimRunnableImportTasks(t)
      PROVE  Mirrored'
  <2>1. /\ imp'.task = t /\ imp'.pc # "idle" /\ imp.pc = "idle"
        /\ \A u \in Tasks : u # t => task'[u] = task[u]
    BY <1>3 DEF ClaimRunnableImportTasks
  <2> QED BY <1>2, <2>1 DEF InHand
<1>4. imp.pc # "idle" => /\ imp.task \in Tasks
                         /\ \A t \in Tasks : t # imp.task => ~InHand(t)
                         /\ imp.pc \in {"place", "link", "commit", "fail"} => ThisTask.status = "in_progress"
  BY TaskInHand DEF InHand, IInv, Linked, ImpHolds
<1>5. CASE DestinationExists \/ RemoveOld \/ Place \/ Commit \/ SetImportTaskFailed
  <2>1. /\ imp.pc # "idle" /\ imp'.task = imp.task /\ imp'.pc # "idle"
        /\ task' = task \/ \E s : task' = [task EXCEPT ![imp.task].status = s]
    BY <1>1, <1>5 DEF DestinationExists, RemoveOld, Place, Commit, SetImportTaskFailed, ImpGoto, ImpState
  <2>2. \A t \in Tasks : t # imp.task => task'[t] = task[t]
    BY <1>1, <2>1
  <2> QED BY <1>2, <1>4, <2>1, <2>2
<1>6. CASE ImportError
  <2>1. /\ imp.pc \in {"place", "link", "commit"}
        /\ task' = task \/ task' = [task EXCEPT ![imp.task].attempts = @ + 1]
    BY <1>6 DEF ImportError
  <2>2. /\ \A t \in Tasks : t # imp.task => task'[t] = task[t]
        /\ task'[imp.task].status = "in_progress"
    BY <1>1, <1>4, <2>1 DEF TaskRow, ThisTask
  <2> QED BY <1>2, <1>4, <2>1, <2>2
<1>7. CASE MirrorAvailable \/ MirrorFailed
  <2>1. /\ imp.pc # "idle" /\ imp' = ImpIdle /\ UNCHANGED task
        /\ \E s \in TerminalWant : MirrorWant(ThisTask.want, s)
    BY <1>7 DEF MirrorAvailable, MirrorFailed, TerminalWant
  <2> QED BY <1>1, <2>1, MirrorEnds
<1> QED BY <1>3, <1>5, <1>6, <1>7 DEF ImpStep, ImpHandle

-----------------------------------------------------------------------------
\* The newest of its chain.
Leaf(t) == \A u \in Tasks : previousTask[u] # t

\* A path that lacks the file of a task that completed is that of a re-import which
\* has not: the newest of its chain.
LostFile ==
    \A t \in Tasks : task[t].status = "completed" /\ DestOf(t) \notin disk =>
        \E u \in Tasks : /\ task[u].status \notin {"absent", "completed"} /\ Leaf(u)
                         /\ DestOf(u) = DestOf(t)

\* The file is placed before it is recorded.
Placed == imp.pc = "commit" => DestOf(imp.task) \in disk

LibraryInv == LostFile /\ Placed

\* No task of another process ends and no file goes; of the tasks that were the newest
\* of their chains, one may have got a successor.
LEMMA OthersLibrary ==
    ASSUME IInv, LibraryInv, StepOK, NoTaskEnds, UNCHANGED <<disk, imp>>,
           \A u \in Tasks : Leaf(u) /\ task[u].status # "absent" =>
              \/ Leaf(u)'
              \/ \E v \in Tasks : /\ task'[v].status \notin {"absent", "completed"} /\ Leaf(v)'
                                  /\ DestOf(v)' = DestOf(u)
    PROVE  LibraryInv'
<1>1. \A t \in Tasks : task[t].status # "absent" => DestOf(t)' = DestOf(t) /\ task'[t].status # "absent"
  BY DestKept DEF StepOK, TaskStep
<1>2. Placed'
  BY <1>1, TaskInHand DEF LibraryInv, Placed, DestOf
<1>3. ASSUME NEW t \in Tasks, task'[t].status = "completed", DestOf(t)' \notin disk
      PROVE  \E u \in Tasks : /\ task'[u].status \notin {"absent", "completed"} /\ Leaf(u)'
                              /\ DestOf(u)' = DestOf(t)'
  <2>1. task[t].status = "completed" /\ DestOf(t)' = DestOf(t)
    BY <1>1, <1>3 DEF NoTaskEnds
  <2>2. PICK u \in Tasks : /\ task[u].status \notin {"absent", "completed"} /\ Leaf(u)
                          /\ DestOf(u) = DestOf(t)
    BY <1>3, <2>1 DEF LibraryInv, LostFile
  <2>3. task'[u].status \notin {"absent", "completed"} /\ DestOf(u)' = DestOf(t)'
    BY <1>1, <2>1, <2>2 DEF NoTaskEnds
  <2>4. CASE Leaf(u)'
    BY <2>3, <2>4
  <2>5. CASE ~Leaf(u)'
    BY <2>1, <2>2, <2>5
  <2> QED BY <2>4, <2>5
<1> QED BY <1>2, <1>3 DEF LibraryInv, LostFile

\* The import worker takes away the file of the task in hand, which has not completed.
LEMMA ImpLibrary ==
    ASSUME BoardInv, LibraryInv, ImpStep, UNCHANGED previousTask
    PROVE  LibraryInv'
<1>1. StepOK /\ IInv /\ imp \in ImpState /\ task \in [Tasks -> TaskRow]
  BY StepKeeps DEF BoardInv, Next, IInv, TypeOK
<1>2. \A t \in Tasks : task[t].status # "absent" => DestOf(t)' = DestOf(t) /\ task'[t].status # "absent"
  BY <1>1, DestKept DEF StepOK, TaskStep
<1>3. \A t \in Tasks : Leaf(t)' <=> Leaf(t)
  BY DEF Leaf
<1>4. ASSUME NEW h \in Tasks, task[h].status = "in_progress"
      PROVE  Leaf(h)
  BY <1>4 DEF Leaf, BoardInv, TaskChain, Finished, NoTask, Tasks
\* Whatever task ends has its file, and no file goes.
<1>5. ASSUME disk \subseteq disk',
             \A t \in Tasks : task'[t].status = "completed" =>
                 task[t].status = "completed" \/ DestOf(t)' \in disk',
             \A t \in Tasks : task[t].status \notin {"absent", "completed"} =>
                 task'[t].status # "completed" \/ DestOf(t)' \in disk'
      PROVE  LostFile'
  <2>1. ASSUME NEW t \in Tasks, task'[t].status = "completed", DestOf(t)' \notin disk'
        PROVE  \E u \in Tasks : /\ task'[u].status \notin {"absent", "completed"} /\ Leaf(u)'
                                /\ DestOf(u)' = DestOf(t)'
    <3>1. task[t].status = "completed" /\ DestOf(t)' = DestOf(t) /\ DestOf(t) \notin disk
      BY <1>2, <1>5, <2>1
    <3>2. PICK u \in Tasks : /\ task[u].status \notin {"absent", "completed"} /\ Leaf(u)
                            /\ DestOf(u) = DestOf(t)
      BY <3>1 DEF LibraryInv, LostFile
    <3>3. DestOf(u)' = DestOf(t)' /\ task'[u].status # "absent"
      BY <1>2, <3>1, <3>2
    <3>4. task'[u].status # "completed"
      BY <1>5, <2>1, <3>2, <3>3
    <3> QED BY <1>3, <3>2, <3>3, <3>4
  <2> QED BY <2>1 DEF LostFile
<1>6. ASSUME UNCHANGED disk,
             \A t \in Tasks : task'[t].status = "completed" <=> task[t].status = "completed"
      PROVE  LostFile'
  BY <1>5, <1>6
<1>7. imp.pc # "idle" => imp.task \in Tasks /\ ThisTask.status # "absent"
  BY <1>1, TaskInHand DEF ThisTask
<1>8. ASSUME NEW t \in Tasks, ClaimRunnableImportTasks(t)
      PROVE  LibraryInv'
  <2>1. /\ \A u \in Tasks : task'[u].status = "completed" <=> task[u].status = "completed"
        /\ UNCHANGED disk /\ imp'.pc = "place"
    BY <1>1, <1>8 DEF ClaimRunnableImportTasks, files, TaskRow
  <2> QED BY <1>6, <2>1 DEF LibraryInv, Placed
<1>9. CASE DestinationExists \/ MirrorAvailable \/ MirrorFailed
  <2>1. UNCHANGED <<task, disk>> /\ imp'.pc \in {"fail", "idle"}
    BY <1>1, <1>9 DEF DestinationExists, MirrorAvailable, MirrorFailed, files, ImpGoto, ImpIdle, ImpState
  <2> QED BY <1>6, <2>1 DEF LibraryInv, Placed
<1>10. CASE ImportError \/ SetImportTaskFailed
  <2>1. /\ imp.pc \in {"place", "link", "commit", "fail"} /\ UNCHANGED disk
        /\ imp'.pc \in {"fail", "failwant", "idle"}
        /\ \/ UNCHANGED task
           \/ task' = [task EXCEPT ![imp.task].attempts = @ + 1]
           \/ task' = [task EXCEPT ![imp.task].status = "failed"]
    BY <1>1, <1>10 DEF ImportError, SetImportTaskFailed, files, ImpGoto, ImpIdle, ImpState
  <2>2. ThisTask.status = "in_progress"
    BY <1>1, <2>1 DEF IInv, Linked, ImpHolds
  <2>3. \A u \in Tasks : task'[u].status = "completed" <=> task[u].status = "completed"
    BY <1>1, <1>7, <2>1, <2>2 DEF ThisTask, TaskRow
  <2> QED BY <1>6, <2>1, <2>3 DEF LibraryInv, Placed
<1>11. CASE RemoveOld
  <2>1. /\ imp.pc = "place" /\ UNCHANGED task /\ disk' = disk \ {DestOf(imp.task)} /\ imp'.pc = "link"
    BY <1>1, <1>11 DEF RemoveOld, ImpGoto, ImpState
  <2>2. imp.task \in Tasks /\ task[imp.task].status = "in_progress"
    BY <1>1, <2>1 DEF IInv, Linked, ImpHolds, ThisTask
  <2>3. Leaf(imp.task)
    BY <1>4, <2>2
  <2>4. ASSUME NEW t \in Tasks, task[t].status = "completed", DestOf(t) \notin disk'
        PROVE  \E u \in Tasks : /\ task[u].status \notin {"absent", "completed"} /\ Leaf(u)
                                /\ DestOf(u) = DestOf(t)
    <3>1. CASE DestOf(t) \in disk
      <4>1. DestOf(imp.task) = DestOf(t)
        BY <2>1, <2>4, <3>1
      <4> QED BY <2>2, <2>3, <4>1
    <3>2. CASE DestOf(t) \notin disk
      BY <2>4, <3>2 DEF LibraryInv, LostFile
    <3> QED BY <3>1, <3>2
  <2>5. \A t \in Tasks : task[t].status # "absent" => DestOf(t)' = DestOf(t)
    BY <1>2
  <2>6. LostFile'
    <3>1. ASSUME NEW t \in Tasks, task'[t].status = "completed", DestOf(t)' \notin disk'
          PROVE  \E u \in Tasks : /\ task'[u].status \notin {"absent", "completed"} /\ Leaf(u)'
                                  /\ DestOf(u)' = DestOf(t)'
      BY <1>3, <2>1, <2>4, <2>5, <3>1
    <3> QED BY <3>1 DEF LostFile
  <2> QED BY <2>1, <2>6 DEF LibraryInv, Placed
<1>12. CASE Place
  <2>1. /\ imp.pc # "idle" /\ UNCHANGED task /\ disk' = disk \cup {DestOf(imp.task)}
        /\ imp'.task = imp.task
    BY <1>1, <1>12 DEF Place, ImpGoto, ImpState
  <2>2. DestOf(imp.task)' \in disk'
    <3>1. PICK h \in Tasks : h = imp.task /\ task[h].status # "absent"
      BY <1>7, <2>1 DEF ThisTask
    <3>2. DestOf(h)' = DestOf(h)
      BY <1>2, <3>1
    <3>3. DestOf(imp.task)' = DestOf(h)'
      BY <2>1, <3>1 DEF DestOf
    <3> QED BY <2>1, <3>1, <3>2, <3>3
  <2>3. LostFile'
    BY <1>5, <2>1
  <2> QED BY <2>2, <2>3 DEF LibraryInv, Placed
<1>13. CASE Commit
  <2>1. /\ imp.pc = "commit" /\ UNCHANGED disk /\ imp'.pc \in {"fail", "available"}
        /\ UNCHANGED task \/ task' = [task EXCEPT ![imp.task].status = "completed"]
    BY <1>1, <1>13 DEF Commit, ImpGoto, ImpState
  <2>2. PICK h \in Tasks : h = imp.task /\ task[h].status # "absent"
    BY <1>7, <2>1 DEF ThisTask
  <2>3. DestOf(h) \in disk /\ DestOf(h)' \in disk'
    BY <1>2, <2>1, <2>2 DEF LibraryInv, Placed
  <2>4. \A t \in Tasks : t # h => task'[t] = task[t]
    BY <1>1, <2>1, <2>2
  <2>5. LostFile'
    BY <1>5, <2>1, <2>3, <2>4
  <2> QED BY <2>1, <2>5 DEF LibraryInv, Placed
<1> QED BY <1>8, <1>9, <1>10, <1>11, <1>12, <1>13 DEF ImpStep, ImpHandle

\* What a task re-imports was imported, or failed.
NoneCancelled ==
    \A t \in Tasks : previousTask[t] # NoTask => task[previousTask[t]].status # "cancelled"

\* A task that is over stays as it ended.
LEMMA EndedTaskSame ==
    ASSUME StepOK, NEW t \in Tasks, task[t].status \in Finished
    PROVE  task'[t].status = task[t].status
<1>1. task[t].status # "absent" /\ ImportTaskTransitions[task[t].status] = {}
  BY DEF Finished, ImportTaskTransitions
<1> QED BY <1>1 DEF StepOK, TaskMove

\* A chain grows by tasks that are over and were not canceled.
LEMMA NoneCancelledStep ==
    ASSUME BoardInv, NoneCancelled, StepOK, ReimportsEnded,
           \A t \in Tasks : previousTask'[t] # previousTask[t] =>
               previousTask'[t] \in Tasks /\ task[previousTask'[t]].status \in Finished
    PROVE  NoneCancelled'
<1>1. ASSUME NEW t \in Tasks, previousTask'[t] # NoTask
      PROVE  task'[previousTask'[t]].status # "cancelled"
  <2>1. /\ previousTask'[t] \in Tasks /\ task[previousTask'[t]].status \in Finished
        /\ task[previousTask'[t]].status # "cancelled"
    BY <1>1 DEF BoardInv, TaskChain, NoneCancelled, ReimportsEnded
  <2> QED BY <2>1, EndedTaskSame
<1> QED BY <1>1 DEF NoneCancelled

\* A re-import takes the place of the task in the chain, for the same path.
LEMMA SuccessorLeaf ==
    ASSUME BoardInv, StepOK, NEW t \in Tasks, task[t].status \in Finished, ChainTask(t),
           NEW v \in Tasks, CreateImportTask(v, task[t].job, task[t].episode, NoWant, TRUE),
           UNCHANGED job
    PROVE  /\ NoTaskEnds
           /\ \A u \in Tasks : previousTask'[u] # previousTask[u] =>
                 previousTask'[u] \in Tasks /\ task[previousTask'[u]].status \in Finished
           /\ \A u \in Tasks : Leaf(u) /\ task[u].status # "absent" =>
                 \/ Leaf(u)'
                 \/ \E x \in Tasks : /\ task'[x].status \notin {"absent", "completed"} /\ Leaf(x)'
                                     /\ DestOf(x)' = DestOf(u)
<1> task \in [Tasks -> TaskRow]
  BY DEF BoardInv, IInv, TypeOK
<1>1. /\ task[v].status = "absent" /\ task'[v].status = "pending"
      /\ task'[v].job = task[t].job /\ task'[v].episode = task[t].episode
      /\ \A u \in Tasks : u # v => task'[u] = task[u]
  BY DEF CreateImportTask, FreshTask, NewTask
<1>2. \A u \in Tasks : u \in NewTasks <=> u = v
  BY <1>1 DEF NewTasks
<1>3. \A u \in Tasks : previousTask'[u] = IF u = v THEN t ELSE previousTask[u]
  BY <1>2 DEF ChainTask
<1>4. NoTaskEnds
  BY <1>1 DEF NoTaskEnds
<1>5. t # v /\ \A u \in Tasks : previousTask[u] # v
  BY <1>1 DEF Finished, BoardInv, TaskChain, NoTask, Tasks
<1>6. Leaf(v)'
  BY <1>3, <1>5 DEF Leaf
<1>7. DestOf(v)' = DestOf(t)
  BY <1>1 DEF DestOf
<1>8. ASSUME NEW u \in Tasks, Leaf(u), u # t
      PROVE  Leaf(u)'
  BY <1>3, <1>8 DEF Leaf
<1> QED BY <1>1, <1>3, <1>4, <1>6, <1>7, <1>8

DoneInv == FilingInv /\ Mirrored /\ LibraryInv /\ NoneCancelled /\ NothingProposed

LEMMA DoneStarts == BoardInit => DoneInv
<1> SUFFICES ASSUME BoardInit PROVE DoneInv
  OBVIOUS
<1>1. FilingInv
  BY FilingStarts DEF BoardInit
<1>2. Mirrored /\ LibraryInv /\ NoneCancelled /\ NothingProposed
  BY DEF BoardInit, Init, NoTaskRow, ImpIdle, AcqIdle, Mirrored, LibraryInv, LostFile, Placed,
         NoneCancelled, NothingProposed
<1> QED BY <1>1, <1>2 DEF DoneInv

\* Every step of the downloads page.
LEMMA DoneStep ==
    ASSUME BoardInv, DoneInv, BoardNext, JoinsLive, ReimportsEnded, MaxCrashes = 0,
           "propose" \notin Dials, "retry" \notin Ops, "rearm" \notin Ops,
           MediaType = "series" \/ "manual_grab" \notin Ops
    PROVE  DoneInv'
<1>1. IInv /\ StepOK /\ FilingInv' /\ FilingInv /\ Mirrored /\ LibraryInv /\ NoneCancelled /\ NothingProposed
  BY BoardKeeps, FilingStep DEF BoardInv, DoneInv
<1>2. UNCHANGED previousTask => /\ NoneCancelled'
                                /\ \A u \in Tasks : Leaf(u)' <=> Leaf(u)
  BY <1>1, NoneCancelledStep DEF Leaf
<1>3. ASSUME AcqStep \/ DlStep \/ UsrStep, UNCHANGED previousTask
      PROVE  DoneInv'
  <2>1. UNCHANGED <<disk, imp>> /\ NoTaskEnds /\ ~Revived /\ NothingProposed'
    BY <1>1, <1>3, LibraryKept, OthersEndNone, NotRevived
  <2>2. Mirrored' /\ LibraryInv'
    BY <1>1, <1>2, <1>3, <2>1, OthersMirrored, OthersLibrary
  <2> QED BY <1>1, <1>2, <1>3, <2>1, <2>2 DEF DoneInv
<1>4. ASSUME ImpStep, UNCHANGED previousTask
      PROVE  DoneInv'
  <2>1. NothingProposed'
    BY <1>1, <1>4, NotRevived
  <2> QED BY <1>1, <1>2, <1>4, <2>1, ImpMirrored, ImpLibrary DEF DoneInv
\* The two ways to make a successor of a task.
<1>5. ASSUME NEW t \in Tasks, task[t].status \in Finished, ChainTask(t),
             \E u \in Tasks : CreateImportTask(u, task[t].job, task[t].episode, NoWant, TRUE),
             UNCHANGED <<job, disk, imp, want, prop, acq>>
      PROVE  DoneInv'
  <2>1. PICK v \in Tasks : CreateImportTask(v, task[t].job, task[t].episode, NoWant, TRUE)
    BY <1>5
  <2>2. ~Revived /\ NothingProposed'
    BY <1>1, <1>5 DEF Revived, NothingProposed
  <2>3. NoTaskEnds /\ NoneCancelled'
    BY <1>1, <1>5, <2>1, SuccessorLeaf, NoneCancelledStep
  <2>4. Mirrored' /\ LibraryInv'
    BY <1>1, <1>5, <2>1, <2>2, <2>3, SuccessorLeaf, OthersMirrored, OthersLibrary
  <2> QED BY <1>1, <2>2, <2>3, <2>4 DEF DoneInv
<1>6. ASSUME NEW t \in Tasks, TaskReimported(t)
      PROVE  DoneInv'
  <2>1. /\ task[t].status \in Finished /\ ChainTask(t)
        /\ \E u \in Tasks : CreateImportTask(u, task[t].job, task[t].episode, NoWant, TRUE)
        /\ UNCHANGED <<job, disk, imp, want, prop, acq>>
    BY <1>6 DEF TaskReimported, Reimport, Finished, files
  <2> QED BY <1>5, <2>1
<1>7. ASSUME NEW t \in Tasks, ReimportNext(t)
      PROVE  DoneInv'
  <2>1. /\ task[t].status \in Finished /\ ChainTask(t)
        /\ \E u \in Tasks : CreateImportTask(u, task[t].job, task[t].episode, NoWant, TRUE)
        /\ UNCHANGED <<job, disk, imp, want, prop, acq>>
    BY <1>7 DEF ReimportNext, BoardInv, BatchOver, files
  <2> QED BY <1>5, <2>1
<1>8. ASSUME NEW j \in Jobs, NEW all \in BOOLEAN, ReimportFailed(j, all)
      PROVE  DoneInv'
  <2>1. UNCHANGED <<want, prop, task, disk, imp, acq, job, previousTask>>
    BY <1>8 DEF ReimportFailed, files, chains
  <2>2. ~Revived /\ NoTaskEnds /\ NothingProposed'
    BY <1>1, <2>1 DEF Revived, NoTaskEnds, NothingProposed
  <2>3. Mirrored' /\ LibraryInv'
    BY <1>1, <1>2, <2>1, <2>2, OthersMirrored, OthersLibrary
  <2> QED BY <1>1, <1>2, <2>1, <2>2, <2>3 DEF DoneInv
<1>9. BoardNext =>
         \/ (AcqStep \/ DlStep \/ ImpStep \/ UsrStep) /\ UNCHANGED previousTask
         \/ Crash
         \/ \E j \in Jobs, all \in BOOLEAN : ReimportFailed(j, all)
         \/ \E t \in Tasks : TaskReimported(t) \/ ReimportNext(t)
  BY DEF BoardNext, Ask, JobRetried, UsrStep, chains
<1> QED BY <1>1, <1>3, <1>4, <1>6, <1>7, <1>8, <1>9, NoRestart

LEMMA DoneStill ==
    ASSUME DoneInv, UNCHANGED boardVars
    PROVE  DoneInv'
<1>1. FilingInv'
  BY DEF DoneInv, FilingInv, OneIndexed, Indexed, TasksAfterDone, SpawnsForDone, NoneYet, Filing,
         Tasked, TasksOf, boardVars, vars
<1>2. Mirrored' /\ NoneCancelled' /\ NothingProposed'
  BY DEF DoneInv, Mirrored, InHand, NoneCancelled, NothingProposed, boardVars, vars
<1>3. LibraryInv'
  BY DEF DoneInv, LibraryInv, LostFile, Leaf, Placed, DestOf, boardVars, vars
<1> QED BY <1>1, <1>2, <1>3 DEF DoneInv

\* The invariant gives what the page shows.
LEMMA DoneShown ==
    ASSUME BoardInv, DoneInv, \A x, y \in Wants \X Releases : Dest[x] = Dest[y] => x = y
    PROVE  ShownDone
<1> SUFFICES ASSUME NEW j \in Existing, importStatus(j) = "fully_imported", dl.job # j, imp.pc = "idle"
             PROVE  /\ \A w \in job[j].wants : want[w].status \notin Claimable \cup InFlight
                    /\ \A t \in LeafTasks(j) : DestOf(t) \in disk
  BY DEF ShownDone
<1> /\ IInv /\ TaskChain /\ job \in [Jobs -> JobRow] /\ task \in [Tasks -> TaskRow] /\ j \in Jobs
    /\ TaskLinked /\ JobNamed
  BY DEF BoardInv, IInv, TypeOK, Existing, Linked
<1>1. /\ job[j].status = "completed" /\ LeafTasks(j) # {}
      /\ \A t \in LeafTasks(j) : task[t].status = "completed"
  <2> DEFINE having(S) == {t \in LeafTasks(j) : task[t].status \in S}
             settled == having({"pending", "in_progress"}) = {}
             imported == CASE having({"failed"}) = LeafTasks(j) -> "import_failed"
                           [] having({"completed"}) = LeafTasks(j) -> "fully_imported"
                           [] having({"failed"}) # {} /\ having({"completed"}) # {} -> "partial_failure"
                           [] OTHER -> "unknown"
  <2>1. importStatus(j) =
           CASE job[j].status \in ActiveJob -> "download_pending"
             [] job[j].status = "failed" -> "download_failed"
             [] job[j].status = "cancelled" -> "download_cancelled"
             [] job[j].status = "completed" /\ LeafTasks(j) = {} -> "awaiting_import"
             [] job[j].status = "completed" /\ LeafTasks(j) # {} /\ ~settled -> "importing"
             [] job[j].status = "completed" /\ LeafTasks(j) # {} /\ settled -> imported
    BY DEF importStatus
  <2>2. job[j].status \in ActiveJob \cup {"failed", "cancelled", "completed"}
    BY DEF Existing, JobRow, JobStatus, DeadJob
  <2> HIDE DEF settled, imported
  <2>3. job[j].status = "completed" /\ LeafTasks(j) # {} /\ imported = "fully_imported"
    BY <2>1, <2>2 DEF ActiveJob
  <2>4. having({"failed"}) # LeafTasks(j) => having({"completed"}) = LeafTasks(j)
    BY <2>3 DEF imported
  <2>5. having({"failed"}) # LeafTasks(j)
    BY <2>3 DEF imported
  <2> QED BY <2>3, <2>4, <2>5
<1>2. \A t \in Tasks : t \in Range(previousTask) <=> ~Leaf(t)
  BY DEF Range, Leaf, TaskChain
<1>3. ASSUME NEW w \in job[j].wants
      PROVE  want[w].status \notin Claimable \cup InFlight
  <2>1. w \in Wants
    BY <1>3 DEF JobRow
  <2>2. PICK t \in TasksOf(j) : task[t].want = w
    BY <1>1 DEF DoneInv, FilingInv, Tasked, Filing, LeafTasks
  <2>3. task[t].status \in {"completed", "failed"}
    <3>1. CASE t \in LeafTasks(j)
      BY <1>1, <3>1
    <3>2. CASE t \notin LeafTasks(j)
      <4>1. PICK u \in Tasks : previousTask[u] = t
        BY <1>2, <2>2, <3>2 DEF LeafTasks, TasksOf, Leaf
      <4>2. previousTask[u] # NoTask
        BY <4>1, <2>2 DEF TasksOf, Tasks, NoTask
      <4> QED BY <4>1, <4>2 DEF TaskChain, DoneInv, NoneCancelled, Finished
    <3> QED BY <3>1, <3>2
  <2>4. want[w].status \in TerminalWant
    BY <2>1, <2>2, <2>3 DEF DoneInv, Mirrored, InHand, TasksOf
  <2> QED BY <2>4 DEF TerminalWant, Claimable, InFlight
<1>4. ASSUME NEW t \in LeafTasks(j), DestOf(t) \notin disk
      PROVE  FALSE
  <2>1. t \in Tasks /\ task[t].job = j /\ task[t].status = "completed"
    BY <1>1 DEF LeafTasks, TasksOf
  <2>2. PICK u \in Tasks : /\ task[u].status \notin {"absent", "completed"} /\ Leaf(u)
                          /\ DestOf(u) = DestOf(t)
    BY <1>4, <2>1 DEF DoneInv, LibraryInv, LostFile
  <2>3. /\ task[u].job \in Jobs /\ job[task[u].job].status = "completed"
        /\ task[u].episode \in Wants /\ task[t].episode \in Wants
    BY <2>1, <2>2 DEF TaskLinked, DoneInv, FilingInv, TasksAfterDone
  <2>4. job[task[u].job].release \in Releases /\ job[j].release \in Releases
    BY <1>1, <2>3 DEF JobNamed
  <2>5. job[task[u].job].release = job[j].release
    <3>1. <<task[u].episode, job[task[u].job].release>> = <<task[t].episode, job[j].release>>
      BY <2>1, <2>2, <2>3, <2>4 DEF DestOf
    <3> QED BY <3>1
  <2>6. task[u].job = j
    BY <1>1, <2>3, <2>5 DEF DoneInv, FilingInv, OneIndexed, Indexed, DeadJob
  <2>7. u \in LeafTasks(j)
    BY <1>2, <2>2, <2>6 DEF LeafTasks, TasksOf
  <2> QED BY <1>1, <2>2, <2>7
<1> QED BY <1>3, <1>4

\* A job that the downloads page shows as fully imported has left none of its wants behind,
\* and every task the page counts has its file, whatever is canceled, retried and
\* re-imported, provided the process does not stop; no proposal, retry of the tracking,
\* re-request or manual grab of a movie brings an ended want back; no two files have
\* one path; no grab joins a completed job; and no canceled task is re-imported.
THEOREM ShownIsDone ==
    ASSUME MaxCrashes = 0, "propose" \notin Dials, "retry" \notin Ops, "rearm" \notin Ops,
           MediaType = "series" \/ "manual_grab" \notin Ops,
           \A x, y \in Wants \X Releases : Dest[x] = Dest[y] => x = y
    PROVE  TitleSpec /\ [][JoinsLive /\ ReimportsEnded]_titleVars => []ShownDone
<1>1. TitleInit => DoneInv
  BY DoneStarts DEF TitleInit
<1>2. TitleInv /\ DoneInv /\ [TitleNext]_titleVars /\ [JoinsLive /\ ReimportsEnded]_titleVars => DoneInv'
  <2>1. ASSUME BoardInv, DoneInv, BoardNext, JoinsLive, ReimportsEnded
        PROVE  DoneInv'
    BY <2>1, DoneStep
  <2>2. TitleNext => BoardNext \/ UNCHANGED boardVars
    BY DEF TitleNext, ReadWant, ReadFiles, ReadJobs
  <2>3. UNCHANGED titleVars => UNCHANGED boardVars
    BY DEF titleVars
  <2> QED BY <2>1, <2>2, <2>3, DoneStill DEF TitleInv
<1>3. TitleInv /\ DoneInv => ShownDone
  BY DoneShown DEF TitleInv
<1> QED BY <1>1, <1>2, <1>3, TitleInductive, PTL DEF TitleSpec
=============================================================================
