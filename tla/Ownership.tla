----------------------------- MODULE Ownership -----------------------------
(***************************************************************************)
(* Who carries a want: a live job, a live import task, or a worker that is *)
(* ending one of them.  Nothing in the tables records it; the guards of    *)
(* the statements of Wants are meant to imply it.  Owned says that they do *)
(* while no request cancels a want or a job or retries a job, and nothing  *)
(* is proposed.                                                            *)
(***************************************************************************)
EXTENDS Pipeline

\* Not up for a grab: carried, or filed.
Taken(w) == want[w].status \in InFlight \cup {"imported", "available"}

\* A task is live until the worker that has it in hand lets go of it.
Live(t) ==
    \/ task[t].status \in {"pending", "in_progress"}
    \/ imp.pc # "idle" /\ imp.task = t

ImportsOf(w) == {t \in Tasks : task[t].want = w /\ Live(t)}

\* Past its job, not yet with an import task.
BetweenOwners(w) == Taken(w) /\ ActiveJobsOf(w) = {} /\ ImportsOf(w) = {}

\* A want with a live job is taken, and has no other live job.
JobOwns ==
    \A w \in Wants, j \in Jobs :
        j \in ActiveJobsOf(w) => Taken(w) /\ ActiveJobsOf(w) = {j}

\* A want with a live import task is taken, and has no other and no live job.
TaskOwns ==
    \A w \in Wants, t \in Tasks :
        t \in ImportsOf(w) => Taken(w) /\ ActiveJobsOf(w) = {} /\ ImportsOf(w) = {t}

\* Nobody but the download worker moves the status of the job it has in hand.
SnapshotFresh ==
    /\ dl.pc = "process" => /\ dl.status \in ActiveJob
                            /\ job[dl.job].status = dl.status
    /\ dl.pc = "mirror" => /\ job[dl.job].status \in ActiveJob
                           /\ dl.todo \subseteq job[dl.job].wants
    /\ dl.pc \in {"spawn", "file", "uncover", "unlink"} => job[dl.job].status = "completed"

\* Released, and about to be unlinked.
Released(w) == dl.pc = "unlink" /\ w = dl.want

\* What the worker still has to release, and what it is about to file, is between
\* owners.
DlOwns ==
    /\ dl.pc \in {"file", "uncover", "unlink"} =>
          \A w \in dl.uncovered : Released(w) \/ BetweenOwners(w)
    /\ dl.pc = "file" => dl.todo \cap dl.uncovered = {}
    /\ (dl.pc = "file" /\ dl.linked) \/ dl.pc \in {"recover", "release", "restamp"} =>
          \A w \in dl.todo : BetweenOwners(w)
    /\ dl.pc = "release" => BetweenOwners(dl.want) /\ dl.want \notin dl.todo

\* So are the wants of a job the worker ends, until it has made an import task.
EndingOwns ==
    /\ dl.pc \in {"spawn", "file", "uncover", "unlink"} =>
          \A w \in job[dl.job].wants : Released(w) \/ dl.made \/ BetweenOwners(w)
    /\ dl.pc \in {"process", "spawn"} => ~dl.made
    /\ dl.pc = "fail" =>
          \A w \in job[dl.job].wants :
             Taken(w) /\ ActiveJobsOf(w) \subseteq {dl.job} /\ ImportsOf(w) = {}

\* A want that something carries is not up for a grab, and has one carrier at a time.
Owned == JobOwns /\ TaskOwns /\ SnapshotFresh /\ DlOwns /\ EndingOwns

\* A want parked for a decision is not carried: it can be taken for the proposal that is
\* approved, and re-arming it when the proposal goes takes it from nobody.
Parked ==
    /\ \A w \in Wants : want[w].hold = "proposed" =>
          want[w].status \in Claimable /\ "propose" \in Dials
    /\ acq.pc = "propose" => "propose" \in Dials
    /\ acq.pc = "fail" => "badstate" \in Faults

-----------------------------------------------------------------------------
\* An import of w may still be ahead: w can be grabbed, is being downloaded, or the
\* download worker is about to file it, to fail it or to release it.
Ahead(w) ==
    \/ want[w].status \in Claimable
    \/ ActiveJobsOf(w) # {}
    \/ dl.pc \in {"spawn", "file", "uncover", "unlink"} /\ ~dl.made /\ w \in job[dl.job].wants
    \/ dl.pc \in {"file", "uncover", "unlink"} /\ w \in dl.uncovered
    \/ dl.pc = "file" /\ dl.linked /\ w \in dl.todo
    \/ dl.pc = "fail" /\ w \in job[dl.job].wants
    \/ dl.pc \in {"recover", "release", "restamp"} /\ w \in dl.todo
    \/ dl.pc = "release" /\ w = dl.want

\* A want that has been given an import task is not given another.
ImportedOnce ==
    /\ SingleImport
    /\ \A w \in Wants, t \in Tasks : task[t].want = w => ~Ahead(w)
=============================================================================
