--------------------------- MODULE TitleNotifier ----------------------------
(***************************************************************************)
(* From a write to the acquisition tables to the browser that shows the    *)
(* title: the title notifier (titlenotify/notifier.go), which coalesces    *)
(* invalidations and sweeps for the ones nobody announced, over the SSE    *)
(* broker, and the browser that refetches (service/title_status.go) what   *)
(* it is told has moved.                                                   *)
(*                                                                         *)
(* A row's updated_at is the start of its transaction.  It is kept as      *)
(* where it lies relative to the sweep's watermark: after it, within the   *)
(* grace before it, or older.                                              *)
(***************************************************************************)
EXTENDS Broker

CONSTANTS
    maxPending,     \* capacity of the coalescing set
    MaxWrites, MaxRestarts

ASSUME NotifierAssumption ==
    maxPending \in Nat \ {0} /\ MaxWrites \in Nat /\ MaxRestarts \in Nat

VARIABLES
    db,         \* the version of each title in the database
    stamp,      \* updated_at of each title, relative to the watermark
    writer,     \* a worker's transaction
    pending,    \* Notifier.pending
    batch,      \* what the notifier is emitting
    lastId,     \* the last event id minted
    writes,
    restarts

titleVars == <<db, stamp, writer, pending, batch, lastId, restarts, writes>>
vars == <<brokerVars, titleVars>>

Stamps == {"after", "grace", "old"}
NoWriter == [pc |-> "idle", title |-> None, stamp |-> "old"]

Init ==
    /\ BrokerInit
    /\ view = [t \in Titles |-> 0]
    /\ db = [t \in Titles |-> 0]
    /\ stamp = [t \in Titles |-> "old"]
    /\ writer = NoWriter
    /\ pending = {} /\ batch = {}
    /\ lastId = 0 /\ restarts = 0 /\ writes = 0

-----------------------------------------------------------------------------
(* A worker *)

Begin(t) ==
    /\ writer.pc = "idle" /\ writes < MaxWrites
    /\ writer' = [pc |-> "open", title |-> t, stamp |-> "after"]
    /\ writes' = writes + 1
    /\ UNCHANGED <<brokerVars, db, stamp, pending, batch, lastId, restarts>>

Commit ==
    /\ writer.pc = "open"
    /\ db' = [db EXCEPT ![writer.title] = @ + 1]
    /\ stamp' = [stamp EXCEPT ![writer.title] = writer.stamp]
    /\ writer' = [writer EXCEPT !.pc = "committed"]
    /\ UNCHANGED <<brokerVars, pending, batch, lastId, restarts, writes>>

\* The invalidation is dropped when the set is full.
Notify ==
    /\ writer.pc = "committed"
    /\ pending' = IF Cardinality(pending) >= maxPending THEN pending
                  ELSE pending \cup {writer.title}
    /\ writer' = NoWriter
    /\ UNCHANGED <<brokerVars, db, stamp, batch, lastId, restarts, writes>>

\* A write nobody announces, and a restart of a worker before it could.
Forget ==
    /\ writer.pc = "committed"
    /\ writer' = NoWriter
    /\ UNCHANGED <<brokerVars, db, stamp, pending, batch, lastId, restarts, writes>>

-----------------------------------------------------------------------------
(* The notifier: one goroutine that flushes, sweeps and emits *)

flushPending ==
    /\ batch = {} /\ pending /= {}
    /\ batch' = pending
    /\ pending' = {}
    /\ UNCHANGED <<brokerVars, db, stamp, writer, lastId, restarts, writes>>

\* Bug: the sweep reads from the watermark on, without the grace.
TouchedNoGrace == {t \in Titles : stamp[t] = "after"}

ListMediaItemsTouchedSince == {t \in Titles : stamp[t] \in {"after", "grace"}}

\* The watermark moves to the start of the sweep: what was swept falls behind
\* it, and a transaction still open, which is younger than the grace, is
\* within the grace.
runSweep ==
    /\ batch = {}
    /\ \/ \E t \in Titles : stamp[t] /= "old"
       \/ writer.pc = "open" /\ writer.stamp = "after"
    /\ batch' = ListMediaItemsTouchedSince
    /\ stamp' = [t \in Titles |-> "old"]
    /\ writer' = IF writer.pc = "open" THEN [writer EXCEPT !.stamp = "grace"] ELSE writer
    /\ UNCHANGED <<brokerVars, db, pending, lastId, restarts, writes>>

emitAll ==
    \E t \in batch :
        /\ batch' = batch \ {t}
        /\ lastId' = lastId + 1
        /\ Publish([id |-> lastId + 1, title |-> t])
        /\ UNCHANGED <<client, view, stale, drops, db, stamp, writer, pending, restarts, writes>>

-----------------------------------------------------------------------------
(* The browser's queries, and a restart of the server *)

\* Pages are opened once the stream is up; a query reads the database when it
\* is invalidated.
Refetch ==
    \E t \in stale :
        /\ client.opened
        /\ view' = [view EXCEPT ![t] = db[t]]
        /\ stale' = stale \ {t}
        /\ UNCHANGED <<session, conn, client, drops, titleVars>>

Restart ==
    /\ restarts < MaxRestarts
    /\ restarts' = restarts + 1
    /\ session' = [s \in SessionIds |-> NoSession]
    /\ conn' = [h \in Handlers |-> NoConn]
    /\ client' = [client EXCEPT !.h = None]
    /\ writer' = NoWriter
    /\ pending' = {} /\ batch' = {}
    /\ stamp' = [t \in Titles |-> "old"]
    /\ UNCHANGED <<view, stale, drops, db, lastId, writes>>

Network == (Drop \/ sweep \/ Attach \/ \E h \in Handlers : Stream(h)) /\ UNCHANGED titleVars
Next ==
    \/ \E t \in Titles : Begin(t)
    \/ Commit \/ Notify \/ Forget
    \/ flushPending \/ runSweep \/ emitAll
    \/ Network \/ Refetch \/ Restart

Spec == Init /\ [][Next]_vars

\* The tickers of the notifier, the handlers, the browser's reconnect loop and
\* its queries go on; transactions, drops, restarts and the broker's sweeper
\* owe nothing.
Fairness ==
    /\ WF_vars(flushPending) /\ WF_vars(runSweep) /\ WF_vars(emitAll)
    /\ \A h \in Handlers : WF_vars(Stream(h) /\ UNCHANGED titleVars)
    /\ WF_vars(Attach /\ UNCHANGED titleVars) /\ WF_vars(Refetch)

FairSpec == Spec /\ Fairness

-----------------------------------------------------------------------------
TypeOK ==
    /\ BrokerTypeOK
    /\ view \in [Titles -> 0..MaxWrites] /\ db \in [Titles -> 0..MaxWrites]
    /\ stamp \in [Titles -> Stamps]
    /\ writer \in [pc : {"idle", "open", "committed"}, title : Titles \cup {None}, stamp : Stamps]
    /\ pending \subseteq Titles /\ Cardinality(pending) <= maxPending
    /\ batch \subseteq Titles
    /\ restarts \in 0..MaxRestarts /\ writes \in 0..MaxWrites

\* "A forgotten call site is a latency bug rather than a stale-UI bug"
\* (package titlenotify): whatever invalidations were dropped, forgotten or
\* lost with a connection or a restart, the browser comes to show what the
\* database holds.
Converges == <>[](view = db)
=============================================================================
