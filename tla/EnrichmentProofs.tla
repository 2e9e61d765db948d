--------------------------- MODULE EnrichmentProofs ---------------------------
(***************************************************************************)
(* Proofs about the metadata refresh: whatever passes, commits, failures   *)
(* and changes of the provider interleave, a pass deprecates an episode    *)
(* only if the provider did not list it, or moved it, since it began.      *)
(*                                                                         *)
(* A pass that may still deprecate accounts for every episode: it has      *)
(* synced it, is about to, has yet to fetch the season that lists it now,  *)
(* or knows it to be gone.                                                 *)
(***************************************************************************)
EXTENDS Enrichment, TLAPS, WellFoundedInduction

Pass == [pc : {"idle", "consult", "apply", "sync", "commit"},
         listed : SUBSET Seasons, fetch : SUBSET Seasons, season : Seasons \cup {0},
         todo : SUBSET Ids, synced : SUBSET Ids, complete : BOOLEAN, gone : SUBSET Ids]

PassTyped ==
    /\ up \in [Ids -> Seasons \cup {0}]
    /\ season \subseteq Seasons
    /\ row \in [Ids -> [season : Seasons \cup {0}, deprecated : BOOLEAN]]
    /\ sync \in [Processes -> Pass]
    /\ \A p \in Processes : sync[p].pc = "commit" => sync[p].season \in Seasons

Accounts(q) ==
    /\ q.pc = "apply" => \A e \in Ids : e \in q.gone \/ up[e] \in q.listed
    /\ q.pc = "sync" /\ q.complete =>
          \A e \in Ids : e \in q.gone \cup q.synced \cup q.todo \/ up[e] \in q.fetch

Accounted == \A p \in Processes : Accounts(sync[p])

-----------------------------------------------------------------------------
\* A set of numbers that is not empty has a least one.
LEMMA LeastNumber ==
    ASSUME NEW T \in SUBSET Nat, T # {}
    PROVE  \E n \in T : \A m \in T : n <= m
<1>1. PICK x \in T : \A y \in T : <<y, x>> \notin OpToRel(<, Nat)
  BY WFMin, NatLessThanWellFounded
<1>2. \A y \in T : ~(y < x)
  BY <1>1 DEF OpToRel
<1> QED BY <1>2

\* The season a pass fetches next is one of those it has yet to fetch.
LEMMA NextSeasonFetched ==
    ASSUME PassTyped, NEW p \in Processes, sync[p].fetch # {}
    PROVE  NextSeason(p) \in sync[p].fetch
<1>1. sync[p].fetch \in SUBSET Nat
  BY EnrichmentAssumption DEF PassTyped, Pass
<1>2. \E s \in sync[p].fetch : \A r \in sync[p].fetch : s <= r
  BY <1>1, LeastNumber
<1> QED BY <1>2 DEF NextSeason

\* A step that changes what p does, and nothing another process relies on,
\* needs to be looked at for p only.
LEMMA OneMoves ==
    ASSUME PassTyped, Accounted, NEW p \in Processes, NEW q \in Pass,
           sync' = [sync EXCEPT ![p] = q], UNCHANGED up,
           q.pc = "commit" => q.season \in Seasons,
           Accounts(q)
    PROVE  /\ sync' \in [Processes -> Pass]
           /\ \A r \in Processes : sync'[r].pc = "commit" => sync'[r].season \in Seasons
           /\ Accounted'
<1>1. \A r \in Processes : sync'[r] = IF r = p THEN q ELSE sync[r]
  BY DEF PassTyped
<1>2. \A r \in Processes : Accounts(sync'[r])
  BY <1>1 DEF Accounted
<1>3. Accounted'
  BY <1>2 DEF Accounted, Accounts
<1> QED BY <1>1, <1>3 DEF PassTyped

LEMMA Rests == Resting \in Pass /\ Accounts(Resting) /\ Resting.pc = "idle"
BY DEF Resting, Pass, Accounts

LEMMA PassStarts == EnrichInit => PassTyped /\ Accounted
BY Rests, EnrichmentAssumption DEF EnrichInit, PassTyped, Accounted, NoRow

\* The statements of a pass, one by one.
LEMMA EnrichKept ==
    ASSUME PassTyped, Accounted, NEW p \in Processes, Enrich(p)
    PROVE  (PassTyped /\ Accounted)'
<1>1. CASE EnrichFails(p)
  BY <1>1, Rests, OneMoves DEF EnrichFails, PassTyped
<1>2. CASE ListSeasonsForMedia(p)
  <2>1. PICK pointers \in SUBSET sync[p].listed, existing \in {season, {}} :
          LET fetch == seasonsToFetch(sync[p].listed, pointers, existing)
          IN  sync' = [sync EXCEPT ![p].pc = "sync", ![p].fetch = fetch,
                                   ![p].listed = {}, ![p].complete = (fetch = sync[p].listed)]
    BY <1>2 DEF ListSeasonsForMedia
  <2> DEFINE fetch == seasonsToFetch(sync[p].listed, pointers, existing)
             q == [sync[p] EXCEPT !.pc = "sync", !.fetch = fetch, !.listed = {},
                                  !.complete = (fetch = sync[p].listed)]
  <2>2. fetch \subseteq sync[p].listed
    BY DEF seasonsToFetch
  <2>3. sync' = [sync EXCEPT ![p] = q]
    BY <2>1 DEF PassTyped
  <2>4. q \in Pass /\ q.pc = "sync"
    BY <2>2 DEF PassTyped, Pass
  <2>5. Accounts(q)
    <3>1. Accounts(sync[p]) /\ sync[p].pc = "apply"
      BY <1>2 DEF Accounted, ListSeasonsForMedia
    <3>2. /\ q.gone = sync[p].gone /\ q.fetch = fetch
          /\ q.complete = (fetch = sync[p].listed)
      BY DEF PassTyped, Pass
    <3> QED BY <2>4, <3>1, <3>2 DEF Accounts
  <2> QED BY <1>2, <2>3, <2>4, <2>5, OneMoves DEF ListSeasonsForMedia, PassTyped
<1>3. CASE FetchSeason(p)
  <2> DEFINE s == NextSeason(p)
             q == [sync[p] EXCEPT !.fetch = @ \ {s}, !.season = s,
                                  !.todo = {e \in Ids : up[e] = s}]
  <2>1. s \in Seasons
    BY <1>3, NextSeasonFetched DEF FetchSeason, PassTyped, Pass
  <2>2. sync' = [sync EXCEPT ![p] = q]
    BY <1>3 DEF FetchSeason, PassTyped
  <2>3. q \in Pass /\ q.pc = "sync"
    BY <1>3, <2>1 DEF FetchSeason, PassTyped, Pass
  <2>4. Accounts(q)
    <3>1. Accounts(sync[p]) /\ sync[p].todo = {}
      BY <1>3 DEF Accounted, FetchSeason
    <3>2. /\ q.gone = sync[p].gone /\ q.synced = sync[p].synced /\ q.complete = sync[p].complete
          /\ q.fetch = sync[p].fetch \ {s} /\ q.todo = {e \in Ids : up[e] = s}
          /\ sync[p].pc = "sync"
      BY <1>3 DEF PassTyped, Pass, FetchSeason
    <3> QED BY <2>3, <3>1, <3>2 DEF Accounts
  <2> QED BY <1>3, <2>1, <2>2, <2>3, <2>4, OneMoves DEF FetchSeason, PassTyped
<1>4. CASE SeasonFails(p)
  <2> DEFINE q == Incomplete([sync[p] EXCEPT !.fetch = @ \ {NextSeason(p)}])
  <2>1. sync' = [sync EXCEPT ![p] = q]
    BY <1>4 DEF SeasonFails, PassTyped
  <2>2. q \in Pass /\ q.pc = "sync" /\ ~q.complete
    BY <1>4 DEF SeasonFails, PassTyped, Pass, Incomplete
  <2> QED BY <1>4, <2>1, <2>2, OneMoves DEF SeasonFails, PassTyped, Accounts
<1>5. ASSUME NEW e \in Ids, UpsertEpisode(p, e)
      PROVE  (PassTyped /\ Accounted)'
  <2> DEFINE q == [sync[p] EXCEPT !.todo = @ \ {e}, !.synced = @ \cup {e}]
  <2>1. sync' = [sync EXCEPT ![p] = q]
    BY <1>5 DEF UpsertEpisode, PassTyped
  <2>2. q \in Pass /\ q.pc = "sync"
    BY <1>5 DEF UpsertEpisode, PassTyped, Pass
  <2>3. Accounts(q)
    <3>1. /\ q.gone = sync[p].gone /\ q.synced = sync[p].synced \cup {e}
          /\ q.complete = sync[p].complete /\ q.fetch = sync[p].fetch
          /\ q.todo = sync[p].todo \ {e} /\ sync[p].pc = "sync"
      BY <1>5 DEF PassTyped, Pass, UpsertEpisode
    <3>2. Accounts(sync[p])
      BY DEF Accounted
    <3> QED BY <2>2, <3>1, <3>2 DEF Accounts
  <2>4. row' \in [Ids -> [season : Seasons \cup {0}, deprecated : BOOLEAN]]
    BY <1>5 DEF UpsertEpisode, Upserted, Live, PassTyped, Pass
  <2> QED BY <1>5, <2>1, <2>2, <2>3, <2>4, OneMoves DEF UpsertEpisode, PassTyped
<1>6. ASSUME NEW e \in Ids, EpisodeFails(p, e)
      PROVE  (PassTyped /\ Accounted)'
  <2> DEFINE q == Incomplete([sync[p] EXCEPT !.todo = @ \ {e}])
  <2>1. sync' = [sync EXCEPT ![p] = q]
    BY <1>6 DEF EpisodeFails, PassTyped
  <2>2. q \in Pass /\ q.pc = "sync" /\ ~q.complete
    BY <1>6 DEF EpisodeFails, PassTyped, Pass, Incomplete
  <2> QED BY <1>6, <2>1, <2>2, OneMoves DEF EpisodeFails, PassTyped, Accounts
<1>7. CASE FinishSync(p)
  <2>1. row' \in [Ids -> [season : Seasons \cup {0}, deprecated : BOOLEAN]]
    <3>1. CASE row' = DeprecateRemovedEpisodes(sync[p].synced)
      <4>1. \A e \in Ids : [row[e] EXCEPT !.deprecated = TRUE]
                               \in [season : Seasons \cup {0}, deprecated : BOOLEAN]
        BY DEF PassTyped
      <4> QED BY <3>1, <4>1 DEF DeprecateRemovedEpisodes, PassTyped
    <3>2. CASE row' = row
      BY <3>2 DEF PassTyped
    <3> QED BY <1>7, <3>1, <3>2 DEF FinishSync
  <2>2. sync' = [sync EXCEPT ![p] = Resting] /\ UNCHANGED <<up, season>>
    BY <1>7 DEF FinishSync
  <2> QED BY <2>1, <2>2, Rests, OneMoves DEF PassTyped
<1> QED BY <1>1, <1>2, <1>3, <1>4, <1>5, <1>6, <1>7 DEF Enrich

\* The beginning of a pass: what is not listed is gone.
LEMMA ConsultedKept ==
    ASSUME PassTyped, Accounted, NEW p \in Processes, Consulted(p), UNCHANGED <<up, season, row>>
    PROVE  (PassTyped /\ Accounted)'
<1> DEFINE q == [Resting EXCEPT !.pc = "apply", !.listed = {up[e] : e \in Ids} \ {0},
                                !.gone = {e \in Ids : up[e] = 0}]
<1>1. sync' = [sync EXCEPT ![p] = q]
  BY DEF Consulted
<1>2. {up[e] : e \in Ids} \ {0} \subseteq Seasons /\ {e \in Ids : up[e] = 0} \subseteq Ids
  BY DEF PassTyped
<1>3. /\ q \in Pass /\ q.pc = "apply" /\ q.listed = {up[e] : e \in Ids} \ {0}
      /\ q.gone = {e \in Ids : up[e] = 0}
  BY <1>2 DEF Resting, Pass
<1>4. Accounts(q)
  <2>1. \A e \in Ids : e \in {f \in Ids : up[f] = 0} \/ up[e] \in {up[f] : f \in Ids} \ {0}
    OBVIOUS
  <2> QED BY <1>3, <2>1 DEF Accounts
<1> QED BY <1>1, <1>3, <1>4, OneMoves DEF PassTyped

LEMMA PassKept ==
    ASSUME PassTyped, Accounted, [EnrichStep]_evars
    PROVE  (PassTyped /\ Accounted)'
<1> Worker \in Processes /\ Handlers \subseteq Processes
  BY DEF Processes
<1>1. CASE UNCHANGED <<up, season, row, sync>>
  BY <1>1 DEF PassTyped, Accounted, Accounts
<1>2. CASE EnrichNext
  <2> DEFINE q == [sync[Worker] EXCEPT !.pc = "consult"]
  <2>1. q \in Pass /\ q.pc = "consult" /\ sync' = [sync EXCEPT ![Worker] = q]
    BY <1>2 DEF EnrichNext, PassTyped, Pass
  <2> QED BY <1>2, <2>1, OneMoves DEF EnrichNext, PassTyped, Accounts
<1>3. CASE Consult
  BY <1>3, ConsultedKept DEF Consult
<1>4. CASE RecordFails
  BY <1>4, Rests, OneMoves DEF RecordFails, PassTyped
<1>5. ASSUME NEW p \in Processes, Enrich(p)
      PROVE  (PassTyped /\ Accounted)'
  BY <1>5, EnrichKept
<1>6. ASSUME NEW p \in Handlers, EnrichNow(p)
      PROVE  (PassTyped /\ Accounted)'
  BY <1>6, ConsultedKept DEF EnrichNow
<1>7. ASSUME NEW p \in Handlers, NEW e \in Ids, LookUpEpisode(p, e)
      PROVE  (PassTyped /\ Accounted)'
  <2> DEFINE q == [Resting EXCEPT !.pc = "commit", !.season = up[e], !.todo = {e}]
  <2>1. q \in Pass /\ q.pc = "commit" /\ q.season \in Seasons
    BY <1>7 DEF LookUpEpisode, Resting, Pass, PassTyped
  <2> QED BY <1>7, <2>1, OneMoves DEF LookUpEpisode, PassTyped, Accounts
<1>8. ASSUME NEW p \in Handlers, CommitMatch(p)
      PROVE  (PassTyped /\ Accounted)'
  <2>1. PICK e \in sync[p].todo : row' = Upserted(e, sync[p].season)
    BY <1>8 DEF CommitMatch
  <2>2. sync[p].season \in Seasons
    BY <1>8 DEF CommitMatch, PassTyped
  <2>3. /\ row' \in [Ids -> [season : Seasons \cup {0}, deprecated : BOOLEAN]]
        /\ season' \subseteq Seasons
    BY <1>8, <2>1, <2>2 DEF CommitMatch, Upserted, Live, PassTyped
  <2> QED BY <1>8, <2>3, Rests, OneMoves DEF CommitMatch, PassTyped
<1>9. ASSUME NEW s \in Seasons, NEW n \in Ids, ResolveEpisodeID(s, n)
      PROVE  (PassTyped /\ Accounted)'
  BY <1>9 DEF ResolveEpisodeID, PassTyped, Accounted, Accounts
<1>10. ASSUME NEW e \in Ids, NEW s \in Seasons \cup {0}, Provide(e, s)
       PROVE  (PassTyped /\ Accounted)'
  <2>1. up' = [up EXCEPT ![e] = s] /\ up' \in [Ids -> Seasons \cup {0}]
    BY <1>10 DEF Provide, PassTyped
  <2>2. ASSUME NEW p \in Processes
        PROVE  /\ sync'[p] \in Pass /\ Accounts(sync[p])'
               /\ sync'[p].pc = "commit" => sync'[p].season \in Seasons
    <3>1. CASE sync[p].pc \in {"idle", "consult", "commit"}
      BY <1>10, <3>1 DEF Provide, PassTyped, Accounts
    <3>2. CASE sync[p].pc \notin {"idle", "consult", "commit"}
      <4>1. sync'[p] = [sync[p] EXCEPT !.gone = @ \cup {e}]
        BY <1>10, <3>2 DEF Provide
      <4>2. sync[p] \in Pass /\ Accounts(sync[p])
        BY DEF PassTyped, Accounted
      <4>3. /\ sync'[p] \in Pass
            /\ sync'[p].gone = sync[p].gone \cup {e} /\ sync'[p].pc = sync[p].pc
            /\ sync'[p].synced = sync[p].synced /\ sync'[p].todo = sync[p].todo
            /\ sync'[p].fetch = sync[p].fetch /\ sync'[p].listed = sync[p].listed
            /\ sync'[p].complete = sync[p].complete
        BY <4>1, <4>2 DEF Pass
      <4>4. \A f \in Ids : f # e => up'[f] = up[f]
        BY <2>1 DEF PassTyped
      <4> QED BY <3>2, <4>2, <4>3, <4>4 DEF Accounts
    <3> QED BY <3>1, <3>2
  <2>3. sync' \in [Processes -> Pass]
    BY <1>10, <2>2 DEF Provide
  <2> QED BY <1>10, <2>1, <2>2, <2>3 DEF Provide, PassTyped, Accounted
<1>11. CASE EnrichCrash
  <2>1. \A p \in Processes : sync'[p] = Resting
    BY <1>11 DEF EnrichCrash
  <2>2. Accounted'
    BY <2>1, Rests DEF Accounted, Accounts
  <2> QED BY <1>11, <2>1, <2>2, Rests DEF EnrichCrash, PassTyped
<1> QED
  BY <1>1, <1>2, <1>3, <1>4, <1>5, <1>6, <1>7, <1>8, <1>9, <1>10, <1>11
     DEF EnrichStep, EnrichBatch, EnrichMovie, EnrichMovieNow, BecomeDue, evars

-----------------------------------------------------------------------------
\* Passes keep their types, and account for every episode: PassTyped and Accounted.
THEOREM PassesAccount == EnrichSpec => [](PassTyped /\ Accounted)
<1>1. PassTyped /\ Accounted /\ [EnrichStep]_evars => (PassTyped /\ Accounted)'
  BY PassKept
<1> QED BY <1>1, PassStarts, PTL DEF EnrichSpec

\* SoundDeprecation: a pass deprecates only what the provider did not list, or
\* moved, since it began (SyncSeriesStructure, DeprecateRemovedEpisodes).
THEOREM DeprecatesWhatIsGone == EnrichSpec => SoundDeprecation
<1> DEFINE Sound ==
      \A e \in Ids : row[e] # NoRow /\ ~row[e].deprecated /\ row'[e].deprecated =>
          \E p \in Processes : sync[p].pc = "sync" /\ e \in sync[p].gone
<1>1. PassTyped /\ Accounted /\ [EnrichStep]_evars => [Sound]_evars
  <2> SUFFICES ASSUME PassTyped, Accounted, EnrichStep,
                      NEW e \in Ids, row[e] # NoRow, ~row[e].deprecated, row'[e].deprecated
               PROVE  \E p \in Processes : sync[p].pc = "sync" /\ e \in sync[p].gone
    OBVIOUS
  <2>1. row' # row
    OBVIOUS
  <2>2. ASSUME NEW f, NEW s, row' = Upserted(f, s)
        PROVE  FALSE
    BY <2>2 DEF Upserted, Live, PassTyped
  <2>3. PICK p \in Processes : Enrich(p)
    BY <2>1, <2>2
       DEF EnrichStep, EnrichBatch, EnrichNext, Consult, RecordFails, EnrichMovie, EnrichMovieNow,
           BecomeDue, EnrichNow, LookUpEpisode, CommitMatch, ResolveEpisodeID, Provide, EnrichCrash
  <2>4. FinishSync(p)
    BY <2>1, <2>2, <2>3
       DEF Enrich, EnrichFails, ListSeasonsForMedia, FetchSeason, SeasonFails, UpsertEpisode,
           EpisodeFails
  <2>5. /\ sync[p].pc = "sync" /\ sync[p].complete
        /\ sync[p].fetch = {} /\ sync[p].todo = {}
        /\ row' = DeprecateRemovedEpisodes(sync[p].synced)
    BY <2>1, <2>4 DEF FinishSync
  <2>6. e \notin sync[p].synced
    BY <2>5 DEF DeprecateRemovedEpisodes
  <2> QED BY <2>5, <2>6 DEF Accounted, Accounts
<1> QED BY <1>1, PassesAccount, PTL DEF EnrichSpec, SoundDeprecation
=============================================================================
