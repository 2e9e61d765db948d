----------------------------- MODULE Enrichment -----------------------------
(***************************************************************************)
(* Metadata refresh (service/enrichment.go, jobs/enrichment/worker.go) and *)
(* everyone else who writes the season and episode rows of a series.       *)
(*                                                                         *)
(* The worker takes due items in batches.  Of a series it reads the list   *)
(* of seasons from the provider, fetches those that can still change or    *)
(* were never synced, upserts the episodes one by one, and deprecates what *)
(* is gone.  An HTTP handler that spawns a series and a scan that finds a  *)
(* new title do the same beside it; a match commit writes the one episode  *)
(* of its file, and the download worker a row without a provider id for an *)
(* episode it finds none for.                                              *)
(*                                                                         *)
(* Requests abstracts from all this to one atomic sync that may report     *)
(* and deprecate anything.                                                 *)
(***************************************************************************)
EXTENDS Naturals, Sequences, FiniteSets, SequencesExt

CONSTANTS
    Show,           \* the series
    Movies,         \* the other titles in the queue
    Ids,            \* the provider's episode ids; an id keeps its number
    Seasons,        \* season numbers, from 1
    Worker,         \* the enrichment worker
    Handlers,       \* requests and scans that sync or commit beside it
    Listings,       \* what the provider may list at the start
    BatchSize,
    MaxChanges,     \* changes of the provider's data in a behaviour
    MaxFaults       \* failures of a statement or of the fetch of a season, and crashes

Items == {Show} \cup Movies
Processes == {Worker} \cup Handlers

ASSUME EnrichmentAssumption ==
    /\ Show \notin Movies
    /\ Worker \notin Handlers
    /\ Seasons \subseteq Nat \ {0}
    /\ Listings \subseteq [Ids -> Seasons \cup {0}]
    /\ BatchSize \in Nat \ {0}

VARIABLES
    up,         \* season in which the provider lists an episode, or 0
    season,     \* media_season rows of the series
    row,        \* media_episode rows with a provider id
    due,        \* the items whose next_refresh_at has passed, oldest first
    batch,      \* what is left of the worker's batch
    sync,       \* what each process is doing
    changes, faults

evars == <<up, season, row, due, batch, sync, changes, faults>>

NoRow == [season |-> 0, deprecated |-> FALSE]
Live(s) == [season |-> s, deprecated |-> FALSE]

Resting == [pc |-> "idle", listed |-> {}, fetch |-> {}, season |-> 0,
            todo |-> {}, synced |-> {}, complete |-> FALSE, gone |-> {}]

EnrichTypeOK ==
    /\ up \in [Ids -> Seasons \cup {0}]
    /\ season \subseteq Seasons
    /\ row \in [Ids -> [season : Seasons \cup {0}, deprecated : BOOLEAN]]
    /\ due \in Seq(Items) /\ IsInjective(due)
    /\ batch \in Seq(Items)
    /\ \A p \in Processes : sync[p].pc \in {"idle", "consult", "apply", "sync", "commit"}

-----------------------------------------------------------------------------
(***************************************************************************)
(* The due queue.  Rows that were never scheduled come first.              *)
(***************************************************************************)
BecomeDue(i) ==
    /\ i \notin ToSet(due)
    /\ due' = Append(due, i)
    /\ UNCHANGED <<up, season, row, batch, sync, changes, faults>>

ListDueMediaItems == SubSeq(due, 1, BatchSize)

EnrichBatch ==
    /\ sync[Worker].pc = "idle" /\ batch = <<>> /\ due # <<>>
    /\ batch' = ListDueMediaItems
    /\ UNCHANGED <<up, season, row, due, sync, changes, faults>>

Fault == faults < MaxFaults /\ faults' = faults + 1

\* Bug: a failure leaves the item where it is in the queue.
NoBackoff(i) == due

\* The next date is at least 15 minutes off.
RecordMetadataFailure(i) == Remove(due, i)

\* UpdateMediaItemMetadata sets the next date, too.
Refreshed(i) == Remove(due, i)

\* A movie is one call and one statement, so it is one step here; a request
\* that spawns one does the same.
EnrichMovie(i) ==
    /\ sync[Worker].pc = "idle" /\ batch # <<>> /\ i = Head(batch)
    /\ batch' = Tail(batch)
    /\ \/ due' \in {Refreshed(i), RecordMetadataFailure(i)} /\ UNCHANGED faults
       \/ Fault /\ UNCHANGED due
    /\ UNCHANGED <<up, season, row, sync, changes>>

EnrichMovieNow(i) ==
    /\ due' = Refreshed(i) /\ due' # due
    /\ UNCHANGED <<up, season, row, batch, sync, changes, faults>>

EnrichNext ==
    /\ sync[Worker].pc = "idle" /\ batch # <<>> /\ Head(batch) = Show
    /\ sync' = [sync EXCEPT ![Worker].pc = "consult"]
    /\ batch' = Tail(batch)
    /\ UNCHANGED <<up, season, row, due, changes, faults>>

\* The provider does not answer, or the item cannot be written; only the worker
\* keeps account of it, and that may fail, too.
EnrichFails(p) ==
    /\ sync[p].pc \in {"consult", "apply"}
    /\ IF sync[p].pc = "apply" THEN Fault ELSE UNCHANGED faults
    /\ sync' = [sync EXCEPT ![p] = Resting]
    /\ due' = IF p = Worker THEN RecordMetadataFailure(Show) ELSE due
    /\ UNCHANGED <<up, season, row, batch, changes>>

RecordFails ==
    /\ sync[Worker].pc = "consult" /\ Fault
    /\ sync' = [sync EXCEPT ![Worker] = Resting]
    /\ UNCHANGED <<up, season, row, due, batch, changes>>

\* gone gathers what the provider does not list, or moves, while the pass runs.
Consulted(p) ==
    sync' = [sync EXCEPT ![p] = [Resting EXCEPT !.pc = "apply",
                                                !.listed = {up[e] : e \in Ids} \ {0},
                                                !.gone = {e \in Ids : up[e] = 0}]]

Consult ==
    /\ sync[Worker].pc = "consult"
    /\ Consulted(Worker)
    /\ UNCHANGED <<up, season, row, due, batch, changes, faults>>

\* A spawned request, or the scan that created the series.
EnrichNow(p) ==
    /\ p \in Handlers /\ sync[p].pc = "idle"
    /\ Consulted(p)
    /\ UNCHANGED <<up, season, row, due, batch, changes, faults>>

-----------------------------------------------------------------------------
(***************************************************************************)
(* SyncSeriesStructure.                                                    *)
(***************************************************************************)
Newest(listed) == {s \in listed : \A r \in listed : r <= s}

\* Bug: a season that is only just listed has no air date and is left out.
PointedAt(listed, pointers) == pointers

mutableSeasons(listed, pointers) == pointers \cup Newest(listed)

seasonsToFetch(listed, pointers, existing) ==
    {s \in listed : s \in mutableSeasons(listed, pointers) \/ s \notin existing}

\* The item's row is written and the next refresh set, then the seasons are
\* listed; the next and the last episode point at up to two of them.
ListSeasonsForMedia(p) ==
    /\ sync[p].pc = "apply"
    /\ due' = Refreshed(Show)
    /\ \E pointers \in SUBSET sync[p].listed, existing \in {season, {}} :
        /\ Cardinality(pointers) <= 2
        /\ IF existing = season THEN UNCHANGED faults ELSE Fault
        /\ LET fetch == seasonsToFetch(sync[p].listed, pointers, existing) IN
           sync' = [sync EXCEPT ![p].pc = "sync", ![p].fetch = fetch,
                                ![p].listed = {}, ![p].complete = (fetch = sync[p].listed)]
    /\ UNCHANGED <<up, season, row, batch, changes>>

NextSeason(p) == CHOOSE s \in sync[p].fetch : \A r \in sync[p].fetch : s <= r

\* GetTVSeasonDetails, past the response cache, and UpsertSeason.
FetchSeason(p) ==
    /\ sync[p].pc = "sync" /\ sync[p].todo = {} /\ sync[p].fetch # {}
    /\ LET s == NextSeason(p) IN
       /\ season' = season \cup {s}
       /\ sync' = [sync EXCEPT ![p].fetch = @ \ {s}, ![p].season = s,
                               ![p].todo = {e \in Ids : up[e] = s}]
    /\ UNCHANGED <<up, row, due, batch, changes, faults>>

\* Bug: a pass that skipped a season still counts as complete.
Forgiven(q) == q

Incomplete(q) == [q EXCEPT !.complete = FALSE]

SeasonFails(p) ==
    /\ sync[p].pc = "sync" /\ sync[p].todo = {} /\ sync[p].fetch # {}
    /\ Fault
    /\ sync' = [sync EXCEPT ![p] = Incomplete([sync[p] EXCEPT !.fetch = @ \ {NextSeason(p)}])]
    /\ UNCHANGED <<up, season, row, due, batch, changes>>

\* On conflict of the provider's id the row moves, and is live again.
Upserted(e, s) == [row EXCEPT ![e] = Live(s)]

UpsertEpisode(p, e) ==
    /\ sync[p].pc = "sync" /\ e \in sync[p].todo
    /\ row' = Upserted(e, sync[p].season)
    /\ sync' = [sync EXCEPT ![p].todo = @ \ {e}, ![p].synced = @ \cup {e}]
    /\ UNCHANGED <<up, season, due, batch, changes, faults>>

EpisodeFails(p, e) ==
    /\ sync[p].pc = "sync" /\ e \in sync[p].todo
    /\ Fault
    /\ sync' = [sync EXCEPT ![p] = Incomplete([sync[p] EXCEPT !.todo = @ \ {e}])]
    /\ UNCHANGED <<up, season, row, due, batch, changes>>

\* Every row with an id that the pass did not see.
DeprecateRemovedEpisodes(synced) ==
    [e \in Ids |-> IF row[e] # NoRow /\ e \notin synced
                   THEN [row[e] EXCEPT !.deprecated = TRUE] ELSE row[e]]

FinishSync(p) ==
    /\ sync[p].pc = "sync" /\ sync[p].fetch = {} /\ sync[p].todo = {}
    /\ sync' = [sync EXCEPT ![p] = Resting]
    /\ IF sync[p].complete /\ sync[p].synced # {}
       THEN \/ row' = DeprecateRemovedEpisodes(sync[p].synced) /\ UNCHANGED faults
            \/ Fault /\ UNCHANGED row
       ELSE UNCHANGED <<row, faults>>
    /\ UNCHANGED <<up, season, due, batch, changes>>

-----------------------------------------------------------------------------
(***************************************************************************)
(* The other writers of the tree.                                          *)
(***************************************************************************)
\* A match commit asks the provider for the episode, then writes its season
\* and row in one transaction.
LookUpEpisode(p, e) ==
    /\ p \in Handlers /\ sync[p].pc = "idle" /\ up[e] # 0
    /\ sync' = [sync EXCEPT ![p] = [Resting EXCEPT !.pc = "commit", !.season = up[e],
                                                   !.todo = {e}]]
    /\ UNCHANGED <<up, season, row, due, batch, changes, faults>>

CommitMatch(p) ==
    /\ sync[p].pc = "commit"
    /\ season' = season \cup {sync[p].season}
    /\ \E e \in sync[p].todo : row' = Upserted(e, sync[p].season)
    /\ sync' = [sync EXCEPT ![p] = Resting]
    /\ UNCHANGED <<up, due, batch, changes, faults>>

\* The download worker makes a row without a provider id for an episode it
\* finds none for; of that only the season's row matters here.
ResolveEpisodeID(s, n) ==
    /\ row[n].season # s
    /\ season' = season \cup {s}
    /\ UNCHANGED <<up, row, due, batch, sync, changes, faults>>

-----------------------------------------------------------------------------
(***************************************************************************)
(* The provider lists, moves and drops episodes; the process stops.        *)
(***************************************************************************)
Provide(e, s) ==
    /\ up[e] # s /\ changes < MaxChanges
    /\ changes' = changes + 1
    /\ up' = [up EXCEPT ![e] = s]
    /\ sync' = [p \in Processes |->
                   IF sync[p].pc \in {"idle", "consult", "commit"} THEN sync[p]
                   ELSE [sync[p] EXCEPT !.gone = @ \cup {e}]]
    /\ UNCHANGED <<season, row, due, batch, faults>>

EnrichCrash ==
    /\ Fault
    /\ sync' = [p \in Processes |-> Resting]
    /\ batch' = <<>>
    /\ UNCHANGED <<up, season, row, due, changes>>

-----------------------------------------------------------------------------
EnrichInit ==
    /\ up \in Listings
    /\ season = {} /\ row = [e \in Ids |-> NoRow]
    /\ due = SetToSeq(Items)
    /\ batch = <<>>
    /\ sync = [p \in Processes |-> Resting]
    /\ changes = 0 /\ faults = 0

Enrich(p) ==
    \/ EnrichFails(p)
    \/ ListSeasonsForMedia(p) \/ FetchSeason(p) \/ SeasonFails(p)
    \/ \E e \in Ids : UpsertEpisode(p, e) \/ EpisodeFails(p, e)
    \/ FinishSync(p)

EnrichStep ==
    \/ EnrichBatch \/ EnrichNext \/ Consult \/ RecordFails
    \/ \E i \in Movies : EnrichMovie(i) \/ EnrichMovieNow(i)
    \/ \E p \in Processes : Enrich(p)
    \/ \E i \in Items : BecomeDue(i)
    \/ \E p \in Handlers : \/ EnrichNow(p)
                           \/ \E e \in Ids : LookUpEpisode(p, e)
                           \/ CommitMatch(p)
    \/ \E s \in Seasons, n \in Ids : ResolveEpisodeID(s, n)
    \/ \E e \in Ids, s \in Seasons \cup {0} : Provide(e, s)
    \/ EnrichCrash

\* The worker goes on with what it began, the series falls due some time after
\* each refresh, and the provider answers for the series now and then.
EnrichFairness ==
    /\ WF_evars(EnrichBatch \/ EnrichNext \/ Consult \/ Enrich(Worker) \/ \E i \in Movies : EnrichMovie(i))
    /\ SF_evars(Consult)
    /\ WF_evars(BecomeDue(Show))

EnrichSpec == EnrichInit /\ [][EnrichStep]_evars /\ EnrichFairness

-----------------------------------------------------------------------------
(***************************************************************************)
(* Properties.                                                             *)
(***************************************************************************)
\* A pass deprecates only what the provider did not list, or moved, some time
\* since the pass began: never the episodes of a season that was skipped or
\* failed, nor those another process synced meanwhile.
SoundDeprecation ==
    [][\A e \in Ids : row[e] # NoRow /\ ~row[e].deprecated /\ row'[e].deprecated =>
          \E p \in Processes : sync[p].pc = "sync" /\ e \in sync[p].gone]_evars

\* An item that is due is refreshed or put off, however long the ones before it
\* in the queue fail.
NotStarved ==
    \A i \in Items : (i \in ToSet(due)) ~> (i \notin ToSet(due))

\* Once the provider's list has settled, the newest season comes to be listed
\* as it is there, whatever passes and commits were under way with older data.
NewestSeasonConverges ==
    <>[](\A e \in Ids : up[e] \in Newest({up[f] : f \in Ids} \ {0}) => row[e] = Live(up[e]))

\* Every episode the provider lists has its row in the end.
FullTree ==
    \A e \in Ids : []<>(up[e] = 0 \/ row[e] # NoRow)
=============================================================================
