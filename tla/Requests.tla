------------------------------ MODULE Requests ------------------------------
(***************************************************************************)
(* Where wants come from: requests, their approval, the spawn of a         *)
(* tracking, the withdrawal of a requester, and the reconciler that makes  *)
(* the wants of a series follow its scope (service/request.go,             *)
(* service/reconcile.go, service/tracking.go, service/enrichment.go).      *)
(*                                                                         *)
(* A handler reads, decides and writes in statements that commit one by    *)
(* one, so each process keeps a local record that a restart erases.  The   *)
(* Enricher is the background worker that refreshes a series; a handler    *)
(* that spawns a series runs the same two stages after its commit.         *)
(*                                                                         *)
(* Of a want, only what these operations look at is kept: "live" is any of *)
(* the non-terminal statuses, between which the pipeline moves it.  Tier,  *)
(* autonomy and hold ride along unread and are left out.                   *)
(***************************************************************************)
EXTENDS Naturals, FiniteSets

CONSTANTS
    Users,
    Movies, Series,     \* the titles, a movie being its own single atom
    Episodes,           \* the episodes of a series
    Aired,              \* those that aired before anyone asked
    Handlers,           \* requests the HTTP server serves at a time
    Enricher,           \* the metadata refresh worker
    NoTitle,
    MaxRequests,        \* rows in the request table
    MaxTitles,          \* titles asked for in a run
    MaxCrashes

Titles == Movies \cup Series
Atoms(t) == IF t \in Movies THEN {t} ELSE Episodes[t]
AllEpisodes == UNION {Episodes[t] : t \in Series}
Requests == 1..MaxRequests
Processes == Handlers \cup {Enricher}

ASSUME TitlesAssumption ==
    /\ NoTitle \notin Titles
    /\ Movies \cap Series = {}
    /\ Enricher \notin Handlers
    /\ DOMAIN Episodes = Series
    /\ AllEpisodes \cap Titles = {}
    /\ \A t, u \in Series : t # u => Episodes[t] \cap Episodes[u] = {}
    /\ Aired \subseteq AllEpisodes
    /\ MaxRequests \in Nat /\ MaxTitles \in Nat /\ MaxCrashes \in Nat

VARIABLES
    req,        \* request
    tracking,   \* tracking.state of each title, "none" without a row
    scope,      \* tracking_requester: the scope rule of each user
    want,       \* want
    tree,       \* the episodes listed with an air date and not deprecated
    files,      \* the episodes with a live file row
    proc,       \* what each process is doing
    crashes     \* the restarts so far

vars == <<req, tracking, scope, want, tree, files, proc, crashes>>

Rules == {"all", "future_only"}
RequestStatus == {"pending", "approved", "spawned", "denied", "canceled"}
WantState == {"none", "live", "available", "failed", "canceled"}

NoRequest == [status |-> "absent"]
Asked == {req[r].title : r \in {q \in Requests : req[q] # NoRequest}}
RequestRow == [status : RequestStatus, user : Users, title : Titles, rule : Rules]

Steps == {"idle", "approve", "deny", "withdraw", "leave", "remove", "count",
          "cancel", "park", "spawn", "sync", "read", "write"}

Process == [pc : Steps, req : Requests \cup {0}, title : Titles \cup {NoTitle},
            todo : SUBSET (Movies \cup AllEpisodes),   \* wants to cancel
            create : SUBSET AllEpisodes]               \* wants to create

Idle == [pc |-> "idle", req |-> 0, title |-> NoTitle, todo |-> {}, create |-> {}]

TypeOK ==
    /\ req \in [Requests -> RequestRow \cup {NoRequest}]
    /\ tracking \in [Titles -> {"none", "active", "paused", "canceled"}]
    /\ scope \in [Titles -> [Users -> Rules \cup {"none"}]]
    /\ want \in [Movies \cup AllEpisodes -> WantState]
    /\ tree \subseteq AllEpisodes
    /\ files \subseteq AllEpisodes
    /\ proc \in [Processes -> Process]
    /\ crashes \in 0..MaxCrashes

-----------------------------------------------------------------------------
(***************************************************************************)
(* The scope of a tracking.                                                *)
(***************************************************************************)
Requesters(t) == {u \in Users : scope[t][u] # "none"}

Selects(rule, e) == rule = "all" \/ (rule = "future_only" /\ e \notin Aired)

Listed(t) == Episodes[t] \cap tree

EffectiveInScope(t) ==
    {e \in Listed(t) : \E u \in Requesters(t) : Selects(scope[t][u], e)}

\* What the scope justifies and the library lacks.
Missing(t) == EffectiveInScope(t) \ files

-----------------------------------------------------------------------------
Goto(p, pc) == proc' = [proc EXCEPT ![p].pc = pc]
Done(p) == proc' = [proc EXCEPT ![p] = Idle]
SetStatus(r, s) == req' = [req EXCEPT ![r].status = s]
Serve(p, pc, r) ==
    /\ p \in Handlers /\ proc[p].pc = "idle" /\ req[r] # NoRequest
    /\ proc' = [proc EXCEPT ![p] = [Idle EXCEPT !.pc = pc, !.req = r,
                                                !.title = req[r].title]]

(***************************************************************************)
(* RequestService.Create, Approve and Deny.  The status is checked in one  *)
(* statement and written in another, which has no guard.                   *)
(***************************************************************************)
Create(p, u, t, rule, auto) ==
    /\ p \in Handlers /\ proc[p].pc = "idle"
    /\ t \in Movies => rule = "all"
    /\ Cardinality(Asked \cup {t}) <= MaxTitles
    /\ \E r \in Requests :
        /\ req[r] = NoRequest /\ \A q \in 1..(r - 1) : req[q] # NoRequest
        /\ req' = [req EXCEPT ![r] = [status |-> IF auto THEN "approved" ELSE "pending",
                                      user |-> u, title |-> t, rule |-> rule]]
        /\ proc' = IF auto
                   THEN [proc EXCEPT ![p] = [Idle EXCEPT !.pc = "spawn", !.req = r,
                                                         !.title = t]]
                   ELSE proc
    /\ UNCHANGED <<tracking, scope, want, tree, files, crashes>>

Approve(p, r) ==
    /\ Serve(p, "approve", r)
    /\ req[r].status = "pending"
    /\ UNCHANGED <<req, tracking, scope, want, tree, files, crashes>>

Deny(p, r) ==
    /\ Serve(p, "deny", r)
    /\ req[r].status = "pending"
    /\ UNCHANGED <<req, tracking, scope, want, tree, files, crashes>>

SetRequestApproved(p) ==
    /\ proc[p].pc = "approve"
    /\ SetStatus(proc[p].req, "approved")
    /\ Goto(p, "spawn")
    /\ UNCHANGED <<tracking, scope, want, tree, files, crashes>>

SetRequestDenied(p) ==
    /\ proc[p].pc = "deny"
    /\ SetStatus(proc[p].req, "denied")
    /\ Done(p)
    /\ UNCHANGED <<tracking, scope, want, tree, files, crashes>>

(***************************************************************************)
(* spawnMovie and spawnSeries: one transaction, after reads that may fail  *)
(* and leave the request approved.                                         *)
(***************************************************************************)
SpawnFails(p) ==
    /\ proc[p].pc = "spawn"
    /\ Done(p)
    /\ UNCHANGED <<req, tracking, scope, want, tree, files, crashes>>

Join(r) ==
    scope' = [scope EXCEPT ![req[r].title][req[r].user] = req[r].rule]

\* The want of a new tracking, or the terminal want of an old one.
SpawnMovie(p) ==
    LET t == proc[p].title
        revived == want[t] \in {"none", "failed", "canceled"}
    IN  /\ proc[p].pc = "spawn" /\ t \in Movies
        /\ tracking' = IF tracking[t] = "none" \/ (revived /\ want[t] # "none")
                       THEN [tracking EXCEPT ![t] = "active"] ELSE tracking
        /\ Join(proc[p].req)
        /\ want' = IF revived THEN [want EXCEPT ![t] = "live"] ELSE want
        /\ SetStatus(proc[p].req, "spawned")
        /\ Done(p)
        /\ UNCHANGED <<tree, files, crashes>>

\* A tracking that exists keeps its state, whatever it is.
SpawnSeries(p) ==
    LET t == proc[p].title IN
    /\ proc[p].pc = "spawn" /\ t \in Series
    /\ tracking' = IF tracking[t] = "none" THEN [tracking EXCEPT ![t] = "active"]
                   ELSE tracking
    /\ Join(proc[p].req)
    /\ SetStatus(proc[p].req, "spawned")
    /\ Goto(p, "sync")
    /\ UNCHANGED <<want, tree, files, crashes>>

-----------------------------------------------------------------------------
(***************************************************************************)
(* RequestService.Cancel.  A request that spawned takes its requester off  *)
(* the tracking, and the last one to leave cancels the wants.              *)
(***************************************************************************)
Cancel(p, r) ==
    /\ \/ Serve(p, "withdraw", r) /\ req[r].status \in {"pending", "approved"}
       \/ Serve(p, "leave", r) /\ req[r].status = "spawned"
    /\ UNCHANGED <<req, tracking, scope, want, tree, files, crashes>>

SetRequestCanceled(p) ==
    /\ proc[p].pc \in {"withdraw", "leave"}
    /\ SetStatus(proc[p].req, "canceled")
    /\ IF proc[p].pc = "leave" THEN Goto(p, "remove") ELSE Done(p)
    /\ UNCHANGED <<tracking, scope, want, tree, files, crashes>>

\* Bug: only the last requester is taken off.
RemoveLast(p) ==
    LET r == req[proc[p].req] IN
    /\ proc[p].pc = "remove"
    /\ scope' = IF Requesters(r.title) = {r.user}
                THEN [scope EXCEPT ![r.title][r.user] = "none"] ELSE scope
    /\ Goto(p, "count")
    /\ UNCHANGED <<req, tracking, want, tree, files, crashes>>

RemoveRequester(p) ==
    LET r == req[proc[p].req] IN
    /\ proc[p].pc = "remove"
    /\ scope' = [scope EXCEPT ![r.title][r.user] = "none"]
    /\ Goto(p, "count")
    /\ UNCHANGED <<req, tracking, want, tree, files, crashes>>

LiveWants(t) == {w \in Atoms(t) : want[w] = "live"}

CountRemaining(p) ==
    LET t == proc[p].title IN
    /\ proc[p].pc = "count"
    /\ IF Requesters(t) # {} THEN Done(p)
       ELSE proc' = [proc EXCEPT ![p].pc = "cancel", ![p].todo = LiveWants(t)]
    /\ UNCHANGED <<req, tracking, scope, want, tree, files, crashes>>

\* WantService.CancelWant: a want that has meanwhile ended in another way is
\* a conflict, which gives up the rest.
CancelWant(p, w) ==
    /\ proc[p].pc = "cancel" /\ w \in proc[p].todo
    /\ IF want[w] = "live"
       THEN /\ want' = [want EXCEPT ![w] = "canceled"]
            /\ tracking' = [tracking EXCEPT ![proc[p].title] = "canceled"]
       ELSE UNCHANGED <<want, tracking>>
    /\ IF want[w] \in {"live", "canceled"}
       THEN proc' = [proc EXCEPT ![p].todo = @ \ {w}]
       ELSE Done(p)
    /\ UNCHANGED <<req, scope, tree, files, crashes>>

SetTrackingState(p) ==
    /\ proc[p].pc = "cancel" /\ proc[p].todo = {}
    /\ tracking' = [tracking EXCEPT ![proc[p].title] = "paused"]
    /\ Done(p)
    /\ UNCHANGED <<req, scope, want, tree, files, crashes>>

-----------------------------------------------------------------------------
(***************************************************************************)
(* Structure sync and ReconcileService.Reconcile.                          *)
(***************************************************************************)
Refresh(t) ==
    /\ proc[Enricher].pc = "idle"
    /\ proc' = [proc EXCEPT ![Enricher] = [Idle EXCEPT !.pc = "sync", !.title = t]]
    /\ UNCHANGED <<req, tracking, scope, want, tree, files, crashes>>

\* TMDB reports some dated episodes (a date is never lost); what it no longer
\* reports is deprecated, but only by a pass in which every season was fetched.
SyncSeriesStructure(p) ==
    /\ proc[p].pc = "sync"
    /\ \E reported \in SUBSET Episodes[proc[p].title], complete \in BOOLEAN :
        tree' = reported \cup
                (IF complete THEN tree \ Episodes[proc[p].title] ELSE tree)
    /\ IF tracking[proc[p].title] = "none" THEN Done(p) ELSE Goto(p, "read")
    /\ UNCHANGED <<req, tracking, scope, want, files, crashes>>

\* The reads and the writes of the transaction.  It is not serializable, so
\* what was read may have changed by the time it is acted upon.
ReadScope(p) ==
    LET t == proc[p].title IN
    /\ proc[p].pc = "read"
    /\ proc' = [proc EXCEPT ![p].pc = "write",
                            ![p].create = Missing(t) \ LiveWants(t),
                            ![p].todo = LiveWants(t) \ EffectiveInScope(t)]
    /\ UNCHANGED <<req, tracking, scope, want, tree, files, crashes>>

\* Bug: nothing is canceled.
CreateOnly(p) ==
    /\ proc[p].pc = "write"
    /\ want' = [w \in DOMAIN want |->
                   IF w \in proc[p].create /\ want[w] = "none" THEN "live" ELSE want[w]]
    /\ Done(p)
    /\ UNCHANGED <<req, tracking, scope, tree, files, crashes>>

\* Bug: a tracking that was paused, and joined again, gets no wants.
WriteActive(p) ==
    /\ proc[p].pc = "write"
    /\ want' = [w \in DOMAIN want |->
                   IF w \in proc[p].create /\ want[w] = "none"
                      /\ tracking[proc[p].title] = "active" THEN "live"
                   ELSE IF w \in proc[p].todo /\ want[w] = "live" THEN "canceled"
                   ELSE want[w]]
    /\ Done(p)
    /\ UNCHANGED <<req, tracking, scope, tree, files, crashes>>

\* CreateWantIfAbsent does nothing where there is a row, whatever its status.
WriteWants(p) ==
    /\ proc[p].pc = "write"
    /\ want' = [w \in DOMAIN want |->
                   IF w \in proc[p].create /\ want[w] = "none" THEN "live"
                   ELSE IF w \in proc[p].todo /\ want[w] = "live" THEN "canceled"
                   ELSE want[w]]
    /\ Done(p)
    /\ UNCHANGED <<req, tracking, scope, tree, files, crashes>>

-----------------------------------------------------------------------------
(***************************************************************************)
(* The rest of the system: the pipeline ends a want, a library scan finds  *)
(* the file of an episode, the process stops.                              *)
(***************************************************************************)
Acquire(w) ==
    /\ want[w] = "live"
    /\ \/ want' = [want EXCEPT ![w] = "available"] /\ files' = files \cup ({w} \cap AllEpisodes)
       \/ want' = [want EXCEPT ![w] = "failed"] /\ UNCHANGED files
    /\ UNCHANGED <<req, tracking, scope, tree, proc, crashes>>

ScanFile(e) ==
    /\ e \in tree
    /\ files' = files \cup {e}
    /\ UNCHANGED <<req, tracking, scope, want, tree, proc, crashes>>

Crash ==
    /\ crashes < MaxCrashes
    /\ crashes' = crashes + 1
    /\ proc' = [p \in Processes |-> Idle]
    /\ UNCHANGED <<req, tracking, scope, want, tree, files>>

-----------------------------------------------------------------------------
Init ==
    /\ req = [r \in Requests |-> NoRequest]
    /\ tracking = [t \in Titles |-> "none"]
    /\ scope = [t \in Titles |-> [u \in Users |-> "none"]]
    /\ want = [w \in Movies \cup AllEpisodes |-> "none"]
    /\ tree = {}
    /\ files = {}
    /\ proc = [p \in Processes |-> Idle]
    /\ crashes = 0

Ask(p) ==
    \/ \E u \in Users, t \in Titles, rule \in Rules, auto \in BOOLEAN :
          Create(p, u, t, rule, auto)
    \/ \E r \in Requests : Approve(p, r) \/ Deny(p, r) \/ Cancel(p, r)

Decide(p) ==
    \/ SetRequestApproved(p) \/ SetRequestDenied(p) \/ SetRequestCanceled(p)
    \/ SpawnMovie(p) \/ SpawnSeries(p) \/ SpawnFails(p)
    \/ RemoveRequester(p) \/ CountRemaining(p)
    \/ \E w \in proc[p].todo : CancelWant(p, w)
    \/ SetTrackingState(p)

Reconcile(p) == SyncSeriesStructure(p) \/ ReadScope(p) \/ WriteWants(p)

Next ==
    \/ \E p \in Handlers : Ask(p) \/ Decide(p)
    \/ \E p \in Processes : Reconcile(p)
    \/ \E t \in Series : Refresh(t)
    \/ \E w \in DOMAIN want : Acquire(w)
    \/ \E e \in AllEpisodes : ScanFile(e)
    \/ Crash

Spec == Init /\ [][Next]_vars

\* A handler finishes what it began, and every series is due for a refresh
\* again and again.
Fairness ==
    /\ \A p \in Handlers : WF_vars(Decide(p))
    /\ \A p \in Processes : WF_vars(Reconcile(p))
    /\ \A t \in Series : SF_vars(Refresh(t))

FairSpec == Spec /\ Fairness

-----------------------------------------------------------------------------
(***************************************************************************)
(* Properties.                                                             *)
(***************************************************************************)
\* Whoever is on a tracking has a request for it that spawned and was not
\* withdrawn, but for a withdrawal that is under way or that a restart cut
\* short (cancelSpawned).
Backed ==
    crashes = 0 =>
    \A t \in Titles : \A u \in Requesters(t) : \E r \in Requests :
        /\ req[r] # NoRequest /\ req[r].user = u /\ req[r].title = t
        /\ \/ req[r].status = "spawned"
           \/ \E p \in Handlers : proc[p].req = r /\ proc[p].pc = "remove"

\* An episode that comes into scope, or gets its date, gets a want: whatever
\* failed or was cut short before, the next pass of the reconciler sees to it.
ScopeServed ==
    \A t \in Series : \A e \in Episodes[t] :
        (e \in Missing(t) /\ tracking[t] # "none" /\ want[e] = "none")
            ~> ~(e \in Missing(t) /\ want[e] = "none")

\* A want of an episode that nobody has in scope any more does not stay live,
\* whether the requester left, the rule was narrowed or the episode is gone.
StoodDown ==
    \A t \in Series : \A e \in Episodes[t] :
        (want[e] = "live" /\ e \notin EffectiveInScope(t))
            ~> ~(want[e] = "live" /\ e \notin EffectiveInScope(t))
=============================================================================
