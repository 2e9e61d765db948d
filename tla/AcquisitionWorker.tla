------------------------- MODULE AcquisitionWorker -------------------------
(***************************************************************************)
(* The acquisition worker (jobs/acquisition/worker.go) and the selection   *)
(* it drives (service/acquisition.go, ProposeOrSupersede).                 *)
(*                                                                         *)
(* A tick reaps, claims a batch of due wants and handles them one after    *)
(* the other.  Handling a want is four separate reads and writes of the    *)
(* database with an indexer search in between, so other processes run      *)
(* between its steps: Start (the early skip, the siblings, the exclusions  *)
(* and the search), Route (the autonomy), Grab or Propose (one             *)
(* transaction), and the reschedule that follows a want not grabbed.       *)
(*                                                                         *)
(* What the indexers return and how quality ranks it are left open: the    *)
(* best single and the best pack are any eligible release, or none.        *)
(***************************************************************************)
EXTENDS Tables

AcqPc == {"tick", "route", "grab", "propose", "recheck", "retry", "fail"}

AcqState == [pc : AcqPc,
             batch : SUBSET Wants,
             want : Wants \cup {NoWant},
             release : Releases \cup {NoRelease},
             covered : SUBSET Wants]

AcqIdle == [pc |-> "tick", batch |-> {}, want |-> NoWant,
            release |-> NoRelease, covered |-> {}]

\* The worker is done with its current want.
AcqNext == [acq EXCEPT !.pc = "tick", !.want = NoWant,
                       !.release = NoRelease, !.covered = {}]

BetweenTicks == acq.pc = "tick" /\ acq.batch = {}

-----------------------------------------------------------------------------
(***************************************************************************)
(* The reaper runs in the worker's own goroutine, so what it finds stale   *)
(* is what no handler holds any more.                                      *)
(***************************************************************************)
Reap(w) ==
    /\ BetweenTicks
    /\ Stale(want[w])
    /\ Update({w}, ReclaimStale)
    /\ UNCHANGED <<tracking, excl, prop, job, task, files, acq, dl, imp, usr, budget>>

\* Which runnable wants are due is a matter of next_run_at: any of them.
ClaimRunnableWants(S) ==
    /\ BetweenTicks
    /\ S # {}
    /\ \A w \in S : Runnable(want[w])
    /\ Update(S, ClaimWant)
    /\ acq' = [acq EXCEPT !.batch = S]
    /\ UNCHANGED <<tracking, excl, prop, job, task, files, dl, imp, usr, budget>>

-----------------------------------------------------------------------------
AlreadyCoveredByPack(w) ==
    /\ MediaType = "series"
    /\ want[w].status = "grabbed"
    /\ ActiveJobsOf(w) # {}

SeasonSiblings == {v \in Wants : want[v].status \in Claimable}

\* The releases the relevance gate lets through and w has not excluded; only
\* the bound on jobs keeps one out besides.
Eligible(w) ==
    {r \in Releases : w \in Covers[r] /\ <<w, r>> \notin excl /\ RoomForJob(r)}

\* Bug: without the exclusions of the siblings.
CoveredSiblings(p) == {v \in SeasonSiblings : v \in Covers[p]}

\* A sibling's own exclusion only carves it out of the coverage.
CoveredWants(p) ==
    {v \in SeasonSiblings : v \in Covers[p] /\ <<v, p>> \notin excl}

\* Coverage first: a pack that stands for two wants or more, else the single,
\* else the pack for what it covers.
ChoosePick(s, p) ==
    IF p # NoRelease /\ (Cardinality(CoveredWants(p)) >= 2 \/ s = NoRelease)
    THEN p ELSE s

StartWant(w, pc, r, S) ==
    acq' = [acq EXCEPT !.pc = pc, !.batch = @ \ {w}, !.want = w,
                       !.release = r, !.covered = S]

SkipCovered(w) ==
    /\ acq.pc = "tick" /\ w \in acq.batch
    /\ AlreadyCoveredByPack(w)
    /\ acq' = [acq EXCEPT !.batch = @ \ {w}]
    /\ UNCHANGED <<tracking, want, excl, prop, job, task, files, dl, imp, usr, budget>>

Search(w) ==
    /\ acq.pc = "tick" /\ w \in acq.batch
    /\ ~AlreadyCoveredByPack(w)
    /\ \E s \in (Eligible(w) \ Packs) \cup {NoRelease},
          p \in (Eligible(w) \cap Packs) \cup {NoRelease} :
          LET r == ChoosePick(s, p) IN
          IF r = NoRelease
          THEN StartWant(w, "recheck", NoRelease, {})
          ELSE StartWant(w, "route", r,
                         IF r \in Packs THEN CoveredWants(r) ELSE {w})
    /\ UNCHANGED <<tracking, want, excl, prop, job, task, files, dl, imp, usr, budget>>

\* The search or a read of the database failed: retryable, or bad state.
SearchError(w) ==
    /\ acq.pc = "tick" /\ w \in acq.batch
    /\ \/ Fault("search") /\ StartWant(w, "retry", NoRelease, {})
       \/ Fault("badstate") /\ StartWant(w, "fail", NoRelease, {})
    /\ UNCHANGED <<tracking, want, excl, prop, job, task, files, dl, imp, usr>>

\* The tracking is loaded once, after the search.
Route ==
    /\ acq.pc = "route"
    /\ acq' = [acq EXCEPT !.pc =
                  IF AutonomyFor(acq.want) = "propose" THEN "propose" ELSE "grab"]
    /\ UNCHANGED <<tracking, want, excl, prop, job, task, files, dl, imp, usr, budget>>

-----------------------------------------------------------------------------
\* A lost compare-and-swap creates no job.
GrabSingle ==
    /\ acq.pc = "grab" /\ acq.release \notin Packs
    /\ IF CanGrabWant(want[acq.want])
       THEN /\ \E j \in Jobs : CreateDownloadJob(j, acq.release, {acq.want})
            /\ want' = [want EXCEPT ![acq.want] = Grabbed]
            /\ acq' = AcqNext
       ELSE /\ acq' = [acq EXCEPT !.pc = "recheck"]
            /\ UNCHANGED <<want, job>>
    /\ UNCHANGED <<tracking, excl, prop, task, files, dl, imp, usr, budget>>

ClaimedBy(S) == {v \in S : CanGrabForPack(want[v])}

\* The job is found or created before the wants are claimed, and stays when
\* none was.
GrabPack ==
    /\ acq.pc = "grab" /\ acq.release \in Packs
    /\ LET claimed == ClaimedBy(acq.covered) IN
       /\ \E j \in Jobs : CreateDownloadJob(j, acq.release, claimed)
       /\ want' = [w \in Wants |-> IF w \in claimed THEN Grabbed ELSE want[w]]
       /\ acq' = IF acq.want \in claimed THEN AcqNext
                 ELSE [acq EXCEPT !.pc = "recheck"]
    /\ UNCHANGED <<tracking, excl, prop, task, files, dl, imp, usr, budget>>

-----------------------------------------------------------------------------
OpenProposals(w) == {p \in prop : w \in p.wants}

Picked == [release |-> acq.release, wants |-> acq.covered]

\* Bug: the wants dropped from the coverage stay parked.
SupersedeOnly(p) ==
    /\ prop' = (prop \ {p}) \cup {Picked}
    /\ Update(acq.covered, HoldProposed)

\* Re-arms the wants the better release does not carry, holds the new ones; a
\* want in neither set keeps its row.
Supersede(p) ==
    /\ prop' = (prop \ {p}) \cup {Picked}
    /\ want' = [w \in Wants |->
                   IF w \in p.wants \ acq.covered THEN RearmProposed(want[w])
                   ELSE IF w \in acq.covered THEN HoldProposed(want[w])
                   ELSE want[w]]

CreateProposal ==
    LET held == {w \in acq.covered : CanHold(want[w])} IN
    /\ prop' = IF held = {} THEN prop
               ELSE prop \cup {[release |-> acq.release, wants |-> held]}
    /\ Update(held, HoldProposed)

ProposeOrSupersede ==
    /\ acq.pc = "propose"
    /\ IF OpenProposals(acq.want) = {}
       THEN CreateProposal
       ELSE \E p \in OpenProposals(acq.want) :
               IF <<acq.release, p.release>> \in Better
               THEN Supersede(p)
               ELSE UNCHANGED <<want, prop>>
    /\ acq' = AcqNext
    /\ UNCHANGED <<tracking, excl, job, task, files, dl, imp, usr, budget>>

-----------------------------------------------------------------------------
\* No release, or a transient error: back to pending while still searching.
Reschedule ==
    /\ acq.pc \in {"recheck", "retry"}
    /\ Update({acq.want}, BackToPending)
    /\ acq' = AcqNext
    /\ UNCHANGED <<tracking, excl, prop, job, task, files, dl, imp, usr, budget>>

FailWant ==
    /\ acq.pc = "fail"
    /\ Update({acq.want}, MarkWantFailed)
    /\ acq' = AcqNext
    /\ UNCHANGED <<tracking, excl, prop, job, task, files, dl, imp, usr, budget>>

-----------------------------------------------------------------------------
AcqHandle ==
    \/ \E w \in Wants : SkipCovered(w) \/ Search(w)
    \/ Route
    \/ GrabSingle \/ GrabPack
    \/ ProposeOrSupersede
    \/ Reschedule \/ FailWant

AcqStep ==
    \/ \E w \in Wants : Reap(w) \/ SearchError(w)
    \/ \E S \in SUBSET Wants : ClaimRunnableWants(S)
    \/ AcqHandle
=============================================================================
