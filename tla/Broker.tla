------------------------------- MODULE Broker -------------------------------
(***************************************************************************)
(* The SSE broker (sse/broker.go, sse/ring.go), the stream handlers that   *)
(* serve it (http/handlers/events.go) and the browser's reconnect loop     *)
(* (web/src/lib/sseClient.ts, web/src/realtime/connection.ts).             *)
(*                                                                         *)
(* One client is watched.  A broker session outlives its connections: it   *)
(* keeps a replay ring, and at most one handler is attached to it.  A      *)
(* handler owns the channels of its attachment.  An event is an id, in     *)
(* publish order, and the title it is about.                               *)
(***************************************************************************)
EXTENDS Naturals, Sequences, FiniteSets

CONSTANTS
    Titles,
    SessionIds,     \* ids of broker sessions
    Handlers,       \* slots for stream requests in progress
    None,
    outboundDepth,  \* capacity of an attachment's channel
    replayMaxLen,   \* length of a session's ring
    MaxDrops        \* connections the network drops

ASSUME BrokerAssumption ==
    /\ None \notin SessionIds \cup Handlers \cup Titles
    /\ outboundDepth \in Nat \ {0} /\ replayMaxLen \in Nat \ {0} /\ MaxDrops \in Nat

VARIABLES
    session,    \* Broker.sessions
    conn,       \* the handlers
    client,     \* the browser's stream
    view,       \* the version of each title the browser shows
    stale,      \* titles whose query it has invalidated
    drops

brokerVars == <<session, conn, client, view, stale, drops>>

Event == [id : Nat, title : Titles]
NoSession == [exists |-> FALSE, ring |-> <<>>, att |-> None, detached |-> FALSE, epoch |-> 0]
NoConn == [pc |-> "none", sid |-> None, epoch |-> 0, replay |-> <<>>, gapped |-> FALSE,
           out |-> <<>>, kick |-> FALSE, closed |-> FALSE, gone |-> FALSE]
NoClient == [h |-> None, sid |-> None, last |-> 0, opened |-> FALSE]

BrokerInit ==
    /\ session = [s \in SessionIds |-> NoSession]
    /\ conn = [h \in Handlers |-> NoConn]
    /\ client = NoClient
    /\ stale = Titles
    /\ drops = 0

-----------------------------------------------------------------------------
(* The replay ring *)

\* The ring loses its oldest events to their age, then those beyond its length;
\* the one just appended is never too old.
Ring(ring, ev, aged) ==
    LET all == Append(ring, ev)
        drop == IF Len(all) - aged > replayMaxLen THEN Len(all) - replayMaxLen ELSE aged
    IN SubSeq(all, drop + 1, Len(all))

Gapped(ring, last) == last /= 0 /\ ring /= <<>> /\ last < ring[1].id

\* Bug: the ring is replayed from its start.
SinceStart(ring, last) == IF last = 0 \/ Gapped(ring, last) THEN <<>> ELSE ring

\* The events after the last one received; without a resume point, or with
\* one that has aged out, none.
since(ring, last) ==
    LET newer == {i \in DOMAIN ring : ring[i].id > last} IN
    IF last = 0 \/ Gapped(ring, last) \/ newer = {} THEN <<>>
    ELSE SubSeq(ring, CHOOSE i \in newer : \A j \in newer : i <= j, Len(ring))

-----------------------------------------------------------------------------
(* The broker *)

Attached(s, epoch, replay, gapped) ==
    [pc |-> "ready", sid |-> s, epoch |-> epoch, replay |-> replay, gapped |-> gapped,
     out |-> <<>>, kick |-> FALSE, closed |-> FALSE, gone |-> FALSE]

\* A known session is taken over from the handler it may still have, whose
\* channel is closed.
reattach(h, s) ==
    LET old == session[s].att
        new == Attached(s, session[s].epoch + 1, since(session[s].ring, client.last),
                        Gapped(session[s].ring, client.last))
    IN /\ session' = [session EXCEPT ![s].epoch = @ + 1, ![s].att = h, ![s].detached = FALSE]
       /\ conn' = [x \in Handlers |-> CASE x = h -> new
                                        [] x /= h /\ x = old -> [conn[x] EXCEPT !.closed = TRUE]
                                        [] OTHER -> conn[x]]

\* A new id: none that the browser or a handler still knows.
Unused == {s \in SessionIds :
              ~session[s].exists /\ s /= client.sid /\ \A h \in Handlers : conn[h].sid /= s}

uuidNew == CHOOSE s \in Unused : TRUE

fresh(h) ==
    /\ Unused /= {}
    /\ session' = [session EXCEPT ![uuidNew] = [NoSession EXCEPT !.exists = TRUE, !.att = h,
                                                                !.epoch = 1]]
    /\ conn' = [conn EXCEPT ![h] = Attached(uuidNew, 1, <<>>, FALSE)]

\* The browser (re)connects, presenting its session and last event id.
Attach ==
    LET h == CHOOSE x \in Handlers : conn[x] = NoConn IN
    /\ client.h = None /\ \E x \in Handlers : conn[x] = NoConn
    /\ IF client.sid /= None /\ session[client.sid].exists
       THEN reattach(h, client.sid)
       ELSE fresh(h)
    /\ client' = [client EXCEPT !.h = h]
    /\ UNCHANGED <<view, stale, drops>>

\* Bug: a teardown does not look at the epoch.
AnyEpoch(h) == TRUE

CurrentEpoch(h) == session[conn[h].sid].epoch = conn[h].epoch

\* The handler has returned: its session is detached unless it has been taken
\* over, and the browser sees the stream end.
Cancel(h) ==
    /\ conn[h].pc = "exit"
    /\ session' = IF CurrentEpoch(h)
                  THEN [session EXCEPT ![conn[h].sid].att = None,
                                       ![conn[h].sid].detached = TRUE]
                  ELSE session
    /\ conn' = [x \in Handlers |->
                  CASE x = h -> NoConn
                    [] x /= h /\ CurrentEpoch(h) /\ x = session[conn[h].sid].att ->
                            [conn[x] EXCEPT !.closed = TRUE]
                    [] OTHER -> conn[x]]
    /\ client' = [client EXCEPT !.h = IF @ = h THEN None ELSE @]
    /\ UNCHANGED <<view, stale, drops>>

\* Every session's ring takes the event; an attached handler gets it unless
\* its channel is full, which kicks the handler instead.
Publish(ev) ==
    /\ \E aged \in [{s \in SessionIds : session[s].exists} -> 0..replayMaxLen] :
          /\ \A s \in DOMAIN aged : aged[s] <= Len(session[s].ring)
          /\ session' = [s \in SessionIds |->
                           IF session[s].exists
                           THEN [session[s] EXCEPT !.ring = Ring(@, ev, aged[s])]
                           ELSE session[s]]
    /\ conn' = [h \in Handlers |->
                  IF conn[h].pc = "none" \/ session[conn[h].sid].att /= h THEN conn[h]
                  ELSE IF Len(conn[h].out) < outboundDepth
                       THEN [conn[h] EXCEPT !.out = Append(@, ev)]
                       ELSE [conn[h] EXCEPT !.kick = TRUE]]

\* Sessions detached for five minutes are forgotten.
sweep ==
    /\ \E s \in SessionIds : session[s].exists /\ session[s].detached
    /\ session' = [s \in SessionIds |->
                     IF session[s].exists /\ session[s].detached THEN NoSession ELSE session[s]]
    /\ UNCHANGED <<conn, client, view, stale, drops>>

-----------------------------------------------------------------------------
(* A stream handler, and what its frames do in the browser *)

Reads(h) == client.h = h

\* The browser refetches everything when it is connected again after a drop.
Resync == IF client.opened THEN Titles ELSE {}

Ready(h) ==
    /\ conn[h].pc = "ready"
    /\ conn' = [conn EXCEPT ![h].pc = "replay"]
    /\ IF Reads(h)
       THEN /\ client' = [client EXCEPT !.sid = conn[h].sid, !.opened = TRUE]
            /\ stale' = stale \cup Resync
       ELSE UNCHANGED <<client, stale>>
    /\ UNCHANGED <<session, view, drops>>

ResumeGap(h) ==
    /\ conn[h].pc = "replay" /\ conn[h].gapped
    /\ conn' = [conn EXCEPT ![h].gapped = FALSE]
    /\ stale' = IF Reads(h) THEN Titles ELSE stale
    /\ UNCHANGED <<session, client, view, drops>>

\* A frame moves the resume cursor and invalidates the title's query.
Frame(h, ev) ==
    IF Reads(h)
    THEN client' = [client EXCEPT !.last = ev.id] /\ stale' = stale \cup {ev.title}
    ELSE UNCHANGED <<client, stale>>

Replay(h) ==
    /\ conn[h].pc = "replay" /\ ~conn[h].gapped
    /\ IF conn[h].replay /= <<>>
       THEN /\ Frame(h, Head(conn[h].replay))
            /\ conn' = [conn EXCEPT ![h].replay = Tail(@)]
       ELSE /\ conn' = [conn EXCEPT ![h].pc = "live"]
            /\ UNCHANGED <<client, stale>>
    /\ UNCHANGED <<session, view, drops>>

\* The select of the live loop: any of the ready cases.
SendOut(h) ==
    /\ conn[h].pc = "live" /\ conn[h].out /= <<>>
    /\ Frame(h, Head(conn[h].out))
    /\ conn' = [conn EXCEPT ![h].out = Tail(@)]
    /\ UNCHANGED <<session, view, drops>>

Kicked(h) == conn[h].pc = "live" /\ conn[h].kick
OutClosed(h) == conn[h].pc = "live" /\ conn[h].closed /\ conn[h].out = <<>>
ClientGone(h) == conn[h].pc \in {"ready", "replay", "live"} /\ conn[h].gone

Return(h) ==
    /\ Kicked(h) \/ OutClosed(h) \/ ClientGone(h)
    /\ conn' = [conn EXCEPT ![h].pc = "exit"]
    /\ UNCHANGED <<session, client, view, stale, drops>>

-----------------------------------------------------------------------------
(* The network *)

\* The browser loses the connection; the server learns of it later.
Drop ==
    /\ client.h /= None /\ drops < MaxDrops
    /\ conn' = [conn EXCEPT ![client.h].gone = TRUE]
    /\ client' = [client EXCEPT !.h = None]
    /\ drops' = drops + 1
    /\ UNCHANGED <<session, view, stale>>

Stream(h) ==
    \/ Ready(h) \/ ResumeGap(h) \/ Replay(h) \/ SendOut(h)
    \/ Return(h) \/ Cancel(h)

-----------------------------------------------------------------------------
BrokerTypeOK ==
    /\ session \in [SessionIds -> [exists : BOOLEAN, ring : Seq(Event), epoch : Nat,
                                   att : Handlers \cup {None}, detached : BOOLEAN]]
    /\ conn \in [Handlers -> [pc : {"none", "ready", "replay", "live", "exit"},
                              sid : SessionIds \cup {None}, epoch : Nat, replay : Seq(Event),
                              gapped : BOOLEAN, out : Seq(Event), kick : BOOLEAN,
                              closed : BOOLEAN, gone : BOOLEAN]]
    /\ client \in [h : Handlers \cup {None}, sid : SessionIds \cup {None},
                   last : Nat, opened : BOOLEAN]
    /\ stale \subseteq Titles
    /\ drops \in 0..MaxDrops
    /\ \A s \in SessionIds : Len(session[s].ring) <= replayMaxLen
    /\ \A h \in Handlers : Len(conn[h].out) <= outboundDepth

\* "A stale handler's teardown can't kill a fresh connection" (Session.epoch):
\* as long as the browser reads a stream whose handler has not returned, the
\* session is in the broker and its events go to that handler.
FreshNotTornDown ==
    \A h \in Handlers :
        client.h = h /\ conn[h].pc \in {"ready", "replay", "live"} =>
            session[conn[h].sid].exists /\ session[conn[h].sid].att = h /\ ~conn[h].closed

\* On a connection and across reconnects the browser reads events in publish
\* order and none twice: the replay ends where the live channel begins, and
\* what a handler has still to send is newer than all that the browser read.
ToSend(h) == conn[h].replay \o conn[h].out

InOrder ==
    \A h \in Handlers : client.h = h =>
        \A i \in DOMAIN ToSend(h) :
            /\ ToSend(h)[i].id > client.last
            /\ \A j \in 1..(i - 1) : ToSend(h)[j].id < ToSend(h)[i].id
=============================================================================
