---------------------------- MODULE BrokerProofs ----------------------------
(***************************************************************************)
(* A stream handler that returns late takes nothing from the one that took *)
(* its session over, and the browser reads events in publish order: for    *)
(* any number of titles, sessions, handlers, drops and restarts, and any   *)
(* length of the channels and of the ring.                                 *)
(*                                                                         *)
(* Held is the invariant for the first: a handler whose epoch is its       *)
(* session's is the one attached to it, and the browser's stream is        *)
(* attached.  Ordered is the invariant for the second: the ring, the       *)
(* replay and the channel are in order, the replay ends where the channel  *)
(* begins, and all of it is newer than what the browser read.              *)
(***************************************************************************)
EXTENDS TitleNotifier, WellFoundedInduction, SequenceTheorems, TLAPS

Present(h) == conn[h].pc /= "none"

\* No two handlers believe that a session is theirs, and a late one is behind.
Epochs ==
    /\ \A s \in SessionIds :
          /\ session[s].exists => session[s].epoch >= 1
          /\ ~session[s].exists => session[s].epoch = 0
          /\ session[s].detached => session[s].att = None
    /\ \A h \in Handlers :
          Present(h) =>
             /\ conn[h].sid \in SessionIds /\ conn[h].epoch >= 1
             /\ session[conn[h].sid].exists => conn[h].epoch <= session[conn[h].sid].epoch
             /\ conn[h].epoch = session[conn[h].sid].epoch => session[conn[h].sid].att = h

\* The stream that the browser reads is attached to its session.
ReaderAttached ==
    client.h /= None =>
        /\ Present(client.h) /\ ~conn[client.h].closed
        /\ session[conn[client.h].sid].exists
        /\ session[conn[client.h].sid].att = client.h

Held == Epochs /\ ReaderAttached

Types ==
    /\ BrokerTypeOK
    /\ lastId \in Nat
    /\ pending \subseteq Titles /\ batch \subseteq Titles
    /\ writer.pc /= "idle" => writer.title \in Titles

-----------------------------------------------------------------------------
(* Sequences of events *)
Events == Seq(Event)

InOrderSeq(q) == \A i, j \in 1..Len(q) : i < j => q[i].id < q[j].id

Within(q, lo, hi) == \A i \in 1..Len(q) : lo < q[i].id /\ q[i].id <= hi

Before(q, r) == \A i \in 1..Len(q), j \in 1..Len(r) : q[i].id < r[j].id

\* What a handler has to send to a browser that has read up to last.
Sending(c, last, n) ==
    /\ InOrderSeq(c.replay) /\ Within(c.replay, last, n)
    /\ InOrderSeq(c.out) /\ Within(c.out, last, n)
    /\ Before(c.replay, c.out)
    /\ c.pc = "live" => c.replay = <<>>

Reading == client.h /= None => Sending(conn[client.h], client.last, lastId)

Ordered ==
    /\ client.last <= lastId
    /\ \A s \in SessionIds :
          InOrderSeq(session[s].ring) /\ Within(session[s].ring, 0, lastId)
    /\ Reading

\* A nonempty set of numbers has a least one.
LEMMA Least ==
    ASSUME NEW S \in SUBSET Nat, S /= {}
    PROVE  LET n == CHOOSE i \in S : \A j \in S : i <= j
           IN  n \in S /\ \A j \in S : n <= j
<1>1. PICK x \in S : \A y \in S : x <= y
  <2> DEFINE R == {p \in Nat \X Nat : p[1] < p[2]}
  <2>1. IsWellFoundedOn(R, Nat)
    BY NatLessThanWellFounded DEF OpToRel
  <2>2. PICK x \in S : \A y \in S : ~(<<y, x>> \in R)
    BY <2>1, WFMin
  <2>3. ASSUME NEW y \in S, y < x
        PROVE  <<y, x>> \in R
    BY <2>3
  <2> HIDE DEF R
  <2>4. \A y \in S : ~(y < x)
    BY <2>2, <2>3
  <2> QED BY <2>4
<1> QED BY <1>1

LEMMA EventAt ==
    ASSUME NEW q \in Events, NEW i \in 1..Len(q)
    PROVE  q[i] \in Event /\ q[i].id \in Nat
<1>1. q[i] \in Event
  BY ElementOfSeq DEF Events
<1> QED BY <1>1 DEF Event

\* The end of a sequence of events.
LEMMA Suffix ==
    ASSUME NEW q \in Events, NEW k \in 1..(Len(q) + 1)
    PROVE  LET r == SubSeq(q, k, Len(q)) IN
           /\ r \in Events /\ Len(r) = Len(q) - (k - 1)
           /\ \A i \in 1..Len(r) : i + (k - 1) \in 1..Len(q) /\ r[i] = q[i + (k - 1)]
  BY DEF Events

\* A sequence within one that is in order.
LEMMA Part ==
    ASSUME NEW q \in Events, NEW r \in Events, NEW d \in Int,
           \A i \in 1..Len(r) : i + d \in 1..Len(q) /\ r[i] = q[i + d]
    PROVE  /\ InOrderSeq(q) => InOrderSeq(r)
           /\ \A lo, hi : Within(q, lo, hi) => Within(r, lo, hi)
<1>1. ASSUME InOrderSeq(q), NEW i \in 1..Len(r), NEW j \in 1..Len(r), i < j
      PROVE  r[i].id < r[j].id
  <2>1. i + d < j + d
    BY <1>1 DEF Events
  <2>2. q[i + d].id < q[j + d].id
    BY <1>1, <2>1 DEF InOrderSeq
  <2> QED BY <2>2
<1>2. ASSUME NEW lo, NEW hi, Within(q, lo, hi)
      PROVE  Within(r, lo, hi)
  BY <1>2 DEF Within
<1> QED BY <1>1, <1>2 DEF InOrderSeq

\* The ring with one more event.
LEMMA RingOrdered ==
    ASSUME NEW q \in Events, NEW ev \in Event, NEW aged \in 0..Len(q), NEW n \in Nat,
           Len(q) <= replayMaxLen, InOrderSeq(q), Within(q, 0, n), ev.id = n + 1
    PROVE  /\ Ring(q, ev, aged) \in Events /\ Len(Ring(q, ev, aged)) <= replayMaxLen
           /\ InOrderSeq(Ring(q, ev, aged)) /\ Within(Ring(q, ev, aged), 0, n + 1)
<1> DEFINE all == Append(q, ev)
           drop == IF Len(all) - aged > replayMaxLen THEN Len(all) - replayMaxLen ELSE aged
           k == drop + 1
           r == SubSeq(all, k, Len(all))
<1>1. /\ all \in Events /\ Len(all) = Len(q) + 1 /\ Len(q) \in Nat
      /\ \A i \in 1..Len(all) : all[i] = IF i = Len(q) + 1 THEN ev ELSE q[i]
  BY DEF Events
<1>2. k \in 1..(Len(all) + 1) /\ Len(all) - (k - 1) <= replayMaxLen
  <2> HIDE DEF all
  <2> QED BY <1>1, BrokerAssumption
<1>3. r = Ring(q, ev, aged)
  BY DEF Ring
<1> HIDE DEF r, all, k
<1>4. InOrderSeq(all)
  <2>1. ASSUME NEW i \in 1..Len(all), NEW j \in 1..Len(all), i < j
        PROVE  all[i].id < all[j].id
    <3>1. i \in 1..Len(q) /\ all[i] = q[i]
      BY <1>1, <2>1
    <3>2. CASE j = Len(q) + 1
      BY <1>1, <3>1, <3>2, EventAt DEF Within
    <3>3. CASE j \in 1..Len(q)
      BY <1>1, <2>1, <3>1, <3>3 DEF InOrderSeq
    <3> QED BY <1>1, <3>2, <3>3
  <2> QED BY <2>1 DEF InOrderSeq
<1>5. Within(all, 0, n + 1)
  <2>1. ASSUME NEW i \in 1..Len(all)
        PROVE  0 < all[i].id /\ all[i].id <= n + 1
    <3>1. CASE i = Len(q) + 1
      BY <1>1, <3>1
    <3>2. CASE i \in 1..Len(q)
      BY <1>1, <3>2, EventAt DEF Within
    <3> QED BY <1>1, <3>1, <3>2
  <2> QED BY <2>1 DEF Within
<1>6. /\ r \in Events /\ Len(r) = Len(all) - (k - 1)
      /\ \A i \in 1..Len(r) : i + (k - 1) \in 1..Len(all) /\ r[i] = all[i + (k - 1)]
  BY <1>1, <1>2, Suffix DEF r
<1>7. InOrderSeq(r) /\ Within(r, 0, n + 1)
  <2> DEFINE d == k - 1
  <2>1. d \in Int
    BY <1>1, <1>2
  <2>2. \A i \in 1..Len(r) : i + d \in 1..Len(all) /\ r[i] = all[i + d]
    BY <1>6
  <2> HIDE DEF d
  <2> QED BY <1>1, <1>4, <1>5, <1>6, <2>1, <2>2, Part
<1> QED BY <1>2, <1>3, <1>6, <1>7

\* What is replayed is newer than the last event read.
LEMMA SinceOrdered ==
    ASSUME NEW q \in Events, NEW last \in Nat, NEW n \in Nat,
           InOrderSeq(q), Within(q, 0, n)
    PROVE  /\ since(q, last) \in Events
           /\ InOrderSeq(since(q, last)) /\ Within(since(q, last), last, n)
<1> DEFINE newer == {i \in DOMAIN q : q[i].id > last}
           k == CHOOSE i \in newer : \A j \in newer : i <= j
<1>1. <<>> \in Events /\ InOrderSeq(<<>>) /\ Within(<<>>, last, n)
  BY DEF Events, InOrderSeq, Within
<1>2. ASSUME newer /= {}
      PROVE  LET r == SubSeq(q, k, Len(q)) IN
             r \in Events /\ InOrderSeq(r) /\ Within(r, last, n)
  <2> DEFINE r == SubSeq(q, k, Len(q))
  <2>1. newer \in SUBSET Nat /\ newer \subseteq 1..Len(q)
    BY DEF Events
  <2>2. k \in newer
    BY <1>2, <2>1, Least
  <2>3. k \in 1..Len(q) /\ q[k].id > last /\ Len(q) \in Nat
    BY <2>1, <2>2 DEF Events
  <2> HIDE DEF k
  <2>4. /\ r \in Events /\ Len(r) = Len(q) - (k - 1)
        /\ \A i \in 1..Len(r) : i + (k - 1) \in 1..Len(q) /\ r[i] = q[i + (k - 1)]
    BY <2>3, Suffix
  <2> HIDE DEF r
  <2>5. \A i \in 1..Len(q) : q[i].id \in Nat
    BY EventAt
  <2>6. \A i \in 1..Len(q) : k <= i => q[i].id > last
    BY <2>3, <2>5 DEF InOrderSeq
  <2> DEFINE d == k - 1
  <2>7. d \in Int /\ \A i \in 1..Len(r) : i + d \in 1..Len(q) /\ r[i] = q[i + d]
    BY <2>3, <2>4
  <2>8. InOrderSeq(r)
    <3> HIDE DEF d
    <3> QED BY <2>4, <2>7, Part
  <2>9. ASSUME NEW i \in 1..Len(r)
        PROVE  last < r[i].id /\ r[i].id <= n
    <3>1. k <= i + d
      BY <2>3, <2>4
    <3> HIDE DEF d
    <3> QED BY <2>5, <2>6, <2>7, <3>1 DEF Within
  <2> QED BY <2>4, <2>8, <2>9 DEF r, Within
<1>3. \/ since(q, last) = <<>>
      \/ newer /= {} /\ since(q, last) = SubSeq(q, k, Len(q))
  BY DEF since
<1> QED BY <1>1, <1>2, <1>3

-----------------------------------------------------------------------------
(***************************************************************************)
(* Types.                                                                  *)
(***************************************************************************)
SessionRow == [exists : BOOLEAN, ring : Seq(Event), epoch : Nat,
               att : Handlers \cup {None}, detached : BOOLEAN]

ConnRow == [pc : {"none", "ready", "replay", "live", "exit"},
            sid : SessionIds \cup {None}, epoch : Nat, replay : Seq(Event),
            gapped : BOOLEAN, out : Seq(Event), kick : BOOLEAN,
            closed : BOOLEAN, gone : BOOLEAN]

ClientRow == [h : Handlers \cup {None}, sid : SessionIds \cup {None},
              last : Nat, opened : BOOLEAN]

LEMMA EmptyRows ==
    /\ <<>> \in Events /\ Len(<<>>) = 0
    /\ NoSession \in SessionRow /\ NoSession.ring = <<>>
    /\ NoConn \in ConnRow /\ NoConn.out = <<>>
<1>1. <<>> \in Seq(Event) /\ Len(<<>>) = 0
  OBVIOUS
<1>2. NoSession \in SessionRow /\ NoSession.ring = <<>>
  BY <1>1 DEF NoSession, SessionRow
<1>3. NoConn \in ConnRow /\ NoConn.out = <<>>
  BY <1>1 DEF NoConn, ConnRow
<1> QED BY <1>1, <1>2, <1>3 DEF Events

\* The writes of a handler's row, and what they leave alone.
SameHold(c, d) == d.sid = c.sid /\ d.epoch = c.epoch

SameQueue(c, d) == d.replay = c.replay /\ d.out = c.out

LEMMA ConnWrites ==
    ASSUME NEW c \in ConnRow
    PROVE  /\ \A pc \in {"none", "ready", "replay", "live", "exit"} :
                 LET d == [c EXCEPT !.pc = pc] IN
                 /\ d \in ConnRow /\ d.pc = pc
                 /\ SameHold(c, d) /\ SameQueue(c, d) /\ d.closed = c.closed
           /\ LET d == [c EXCEPT !.gapped = FALSE] IN
                 /\ d \in ConnRow /\ d.pc = c.pc
                 /\ SameHold(c, d) /\ SameQueue(c, d) /\ d.closed = c.closed
           /\ LET d == [c EXCEPT !.kick = TRUE] IN
                 /\ d \in ConnRow /\ d.pc = c.pc
                 /\ SameHold(c, d) /\ SameQueue(c, d) /\ d.closed = c.closed
           /\ LET d == [c EXCEPT !.gone = TRUE] IN
                 /\ d \in ConnRow /\ d.pc = c.pc
                 /\ SameHold(c, d) /\ SameQueue(c, d) /\ d.closed = c.closed
           /\ LET d == [c EXCEPT !.closed = TRUE] IN
                 d \in ConnRow /\ d.pc = c.pc /\ SameHold(c, d) /\ SameQueue(c, d)
           /\ \A q \in Events :
                 LET d == [c EXCEPT !.replay = q] IN
                 /\ d \in ConnRow /\ d.pc = c.pc /\ SameHold(c, d) /\ d.closed = c.closed
                 /\ d.replay = q /\ d.out = c.out
           /\ \A q \in Events :
                 LET d == [c EXCEPT !.out = q] IN
                 /\ d \in ConnRow /\ d.pc = c.pc /\ SameHold(c, d) /\ d.closed = c.closed
                 /\ d.out = q /\ d.replay = c.replay
<1>1. ASSUME NEW pc \in {"none", "ready", "replay", "live", "exit"}
      PROVE  LET d == [c EXCEPT !.pc = pc] IN
             /\ d \in ConnRow /\ d.pc = pc
             /\ SameHold(c, d) /\ SameQueue(c, d) /\ d.closed = c.closed
  BY DEF ConnRow, SameHold, SameQueue
<1>2. LET d == [c EXCEPT !.gapped = FALSE] IN
      /\ d \in ConnRow /\ d.pc = c.pc
      /\ SameHold(c, d) /\ SameQueue(c, d) /\ d.closed = c.closed
  BY DEF ConnRow, SameHold, SameQueue
<1>3. LET d == [c EXCEPT !.kick = TRUE] IN
      /\ d \in ConnRow /\ d.pc = c.pc
      /\ SameHold(c, d) /\ SameQueue(c, d) /\ d.closed = c.closed
  BY DEF ConnRow, SameHold, SameQueue
<1>4. LET d == [c EXCEPT !.gone = TRUE] IN
      /\ d \in ConnRow /\ d.pc = c.pc
      /\ SameHold(c, d) /\ SameQueue(c, d) /\ d.closed = c.closed
  BY DEF ConnRow, SameHold, SameQueue
<1>5. LET d == [c EXCEPT !.closed = TRUE] IN
      d \in ConnRow /\ d.pc = c.pc /\ SameHold(c, d) /\ SameQueue(c, d)
  BY DEF ConnRow, SameHold, SameQueue
<1>6. ASSUME NEW q \in Events
      PROVE  LET d == [c EXCEPT !.replay = q] IN
             /\ d \in ConnRow /\ d.pc = c.pc /\ SameHold(c, d) /\ d.closed = c.closed
             /\ d.replay = q /\ d.out = c.out
  BY DEF ConnRow, SameHold, Events
<1>7. ASSUME NEW q \in Events
      PROVE  LET d == [c EXCEPT !.out = q] IN
             /\ d \in ConnRow /\ d.pc = c.pc /\ SameHold(c, d) /\ d.closed = c.closed
             /\ d.out = q /\ d.replay = c.replay
  BY DEF ConnRow, SameHold, Events
<1> QED BY <1>1, <1>2, <1>3, <1>4, <1>5, <1>6, <1>7

LEMMA AttachedRow ==
    ASSUME NEW s \in SessionIds, NEW e \in Nat, NEW q \in Events, NEW g \in BOOLEAN
    PROVE  Attached(s, e, q, g) \in ConnRow
  BY EmptyRows DEF Attached, ConnRow, Events

\* The writes of a session, and what they leave alone.
LEMMA SessionWrites ==
    ASSUME NEW c \in SessionRow, NEW h \in Handlers \cup {None}
    PROVE  /\ LET d == [c EXCEPT !.epoch = c.epoch + 1, !.att = h, !.detached = FALSE] IN
                 /\ d \in SessionRow /\ d.ring = c.ring /\ d.exists = c.exists
                 /\ d.epoch = c.epoch + 1 /\ d.att = h /\ d.detached = FALSE
           /\ LET d == [c EXCEPT !.att = None, !.detached = TRUE] IN
                 /\ d \in SessionRow /\ d.ring = c.ring /\ d.exists = c.exists
                 /\ d.epoch = c.epoch /\ d.att = None
           /\ LET d == [NoSession EXCEPT !.exists = TRUE, !.att = h, !.epoch = 1] IN
                 /\ d \in SessionRow /\ d.ring = <<>> /\ d.exists
                 /\ d.epoch = 1 /\ d.att = h /\ d.detached = FALSE
           /\ \A q \in Events :
                 LET d == [c EXCEPT !.ring = q] IN
                 /\ d \in SessionRow /\ d.ring = q /\ d.exists = c.exists
                 /\ d.epoch = c.epoch /\ d.att = c.att /\ d.detached = c.detached
<1>1. LET d == [c EXCEPT !.epoch = c.epoch + 1, !.att = h, !.detached = FALSE] IN
      /\ d \in SessionRow /\ d.ring = c.ring /\ d.exists = c.exists
      /\ d.epoch = c.epoch + 1 /\ d.att = h /\ d.detached = FALSE
  <2> DEFINE e == c.epoch + 1
  <2>1. e \in Nat
    BY DEF SessionRow
  <2> HIDE DEF e
  <2>2. LET d == [c EXCEPT !.epoch = e, !.att = h, !.detached = FALSE] IN
        /\ d \in SessionRow /\ d.ring = c.ring /\ d.exists = c.exists
        /\ d.epoch = e /\ d.att = h /\ d.detached = FALSE
    BY <2>1 DEF SessionRow
  <2> QED BY <2>2 DEF e
<1>2. LET d == [c EXCEPT !.att = None, !.detached = TRUE] IN
      /\ d \in SessionRow /\ d.ring = c.ring /\ d.exists = c.exists
      /\ d.epoch = c.epoch /\ d.att = None
  BY DEF SessionRow
<1>3. LET d == [NoSession EXCEPT !.exists = TRUE, !.att = h, !.epoch = 1] IN
      /\ d \in SessionRow /\ d.ring = <<>> /\ d.exists
      /\ d.epoch = 1 /\ d.att = h /\ d.detached = FALSE
  BY EmptyRows DEF SessionRow, NoSession, Events
<1>4. ASSUME NEW q \in Events
      PROVE  LET d == [c EXCEPT !.ring = q] IN
             /\ d \in SessionRow /\ d.ring = q /\ d.exists = c.exists
             /\ d.epoch = c.epoch /\ d.att = c.att /\ d.detached = c.detached
  BY DEF SessionRow, Events
<1> QED BY <1>1, <1>2, <1>3, <1>4

\* A new session id is of the ids, and nobody knows it.
LEMMA NewId ==
    ASSUME Unused /= {}
    PROVE  uuidNew \in Unused
  BY DEF uuidNew

\* The slot that a new stream takes is a free one.
LEMMA FreeSlot ==
    ASSUME \E x \in Handlers : conn[x] = NoConn
    PROVE  LET h == CHOOSE x \in Handlers : conn[x] = NoConn
           IN  h \in Handlers /\ conn[h] = NoConn
  OBVIOUS

\* A connection is made to a session taken over or to a new one.
LEMMA Attaches ==
    ASSUME Attach
    PROVE  \E h \in Handlers :
              /\ conn[h] = NoConn /\ client.h = None
              /\ client' = [client EXCEPT !.h = h]
              /\ UNCHANGED <<view, stale, drops>>
              /\ \/ client.sid /= None /\ session[client.sid].exists /\ reattach(h, client.sid)
                 \/ fresh(h)
<1> DEFINE h == CHOOSE x \in Handlers : conn[x] = NoConn
<1>1. h \in Handlers /\ conn[h] = NoConn
  BY FreeSlot DEF Attach
<1>2. /\ client.h = None /\ client' = [client EXCEPT !.h = h]
      /\ UNCHANGED <<view, stale, drops>>
      /\ \/ client.sid /= None /\ session[client.sid].exists /\ reattach(h, client.sid)
         \/ fresh(h)
  BY DEF Attach
<1> HIDE DEF h
<1> QED BY <1>1, <1>2

LEMMA TypedStep ==
    ASSUME Types, Ordered, Next
    PROVE  Types'
<1>1. /\ session \in [SessionIds -> SessionRow] /\ conn \in [Handlers -> ConnRow]
      /\ client \in ClientRow /\ stale \subseteq Titles /\ drops \in 0..MaxDrops
      /\ \A s \in SessionIds : Len(session[s].ring) <= replayMaxLen
      /\ \A h \in Handlers : Len(conn[h].out) <= outboundDepth
      /\ MaxDrops \in Nat /\ outboundDepth \in Nat \ {0} /\ replayMaxLen \in Nat \ {0}
  BY BrokerAssumption DEF Types, BrokerTypeOK, SessionRow, ConnRow, ClientRow
<1> DEFINE Typed == /\ session' \in [SessionIds -> SessionRow] /\ conn' \in [Handlers -> ConnRow]
                    /\ client' \in ClientRow /\ stale' \subseteq Titles /\ drops' \in 0..MaxDrops
                    /\ \A s \in SessionIds : Len(session'[s].ring) <= replayMaxLen
                    /\ \A h \in Handlers : Len(conn'[h].out) <= outboundDepth
<1>11. \A c \in ConnRow : /\ [c EXCEPT !.closed = TRUE] \in ConnRow
                         /\ [c EXCEPT !.closed = TRUE].out = c.out
  BY ConnWrites DEF SameQueue
<1>2. Typed => BrokerTypeOK'
  BY DEF BrokerTypeOK, SessionRow, ConnRow, ClientRow
<1>3. ASSUME Typed, UNCHANGED titleVars
      PROVE  Types'
  BY <1>2, <1>3 DEF Types, titleVars
<1>4. UNCHANGED brokerVars => Typed
  BY <1>1 DEF brokerVars
<1> HIDE DEF Typed
<1>5. ASSUME NEW t \in Titles, Begin(t)
      PROVE  Types'
  BY <1>2, <1>4, <1>5 DEF Begin, Types
<1>6. CASE Commit \/ Notify \/ Forget \/ flushPending \/ runSweep
  <2>1. UNCHANGED <<brokerVars, lastId>>
    BY <1>6 DEF Commit, Notify, Forget, flushPending, runSweep
  <2>2. CASE Commit
    BY <1>2, <1>4, <2>1, <2>2 DEF Commit, Types
  <2>3. CASE Notify \/ Forget
    BY <1>2, <1>4, <2>1, <2>3 DEF Notify, Forget, Types, NoWriter
  <2>4. CASE flushPending
    BY <1>2, <1>4, <2>1, <2>4 DEF flushPending, Types
  <2>5. CASE runSweep
    <3>1. writer'.pc /= "idle" => writer.pc /= "idle" /\ writer'.title = writer.title
      BY <1>1, <2>5 DEF runSweep
    <3> QED BY <1>2, <1>4, <2>1, <2>5, <3>1 DEF runSweep, Types, ListMediaItemsTouchedSince
  <2> QED BY <1>6, <2>2, <2>3, <2>4, <2>5
<1>7. CASE emitAll
  <2>1. PICK t \in batch : /\ batch' = batch \ {t} /\ lastId' = lastId + 1
                           /\ Publish([id |-> lastId + 1, title |-> t])
                           /\ UNCHANGED <<client, view, stale, drops, pending, writer>>
    BY <1>7 DEF emitAll
  <2> DEFINE ev == [id |-> lastId + 1, title |-> t]
  <2>2. ev \in Event /\ ev.id = lastId + 1 /\ lastId \in Nat
    BY DEF Types, Event
  <2> HIDE DEF ev
  <2>3. Publish(ev)
    BY <2>1 DEF ev
  <2>4. session' \in [SessionIds -> SessionRow]
        /\ \A s \in SessionIds : Len(session'[s].ring) <= replayMaxLen
    <3>1. PICK aged \in [{s \in SessionIds : session[s].exists} -> 0..replayMaxLen] :
             /\ \A s \in DOMAIN aged : aged[s] <= Len(session[s].ring)
             /\ session' = [s \in SessionIds |->
                              IF session[s].exists
                              THEN [session[s] EXCEPT !.ring = Ring(@, ev, aged[s])]
                              ELSE session[s]]
      BY <2>3 DEF Publish
    <3>2. ASSUME NEW s \in SessionIds, session[s].exists
          PROVE  /\ Ring(session[s].ring, ev, aged[s]) \in Events
                 /\ Len(Ring(session[s].ring, ev, aged[s])) <= replayMaxLen
      <4>1. session[s].ring \in Events /\ aged[s] \in 0..Len(session[s].ring)
        BY <1>1, <3>1, <3>2 DEF SessionRow, Events
      <4>2. /\ InOrderSeq(session[s].ring) /\ Within(session[s].ring, 0, lastId)
            /\ Len(session[s].ring) <= replayMaxLen
        BY <1>1 DEF Ordered
      <4> QED BY <2>2, <4>1, <4>2, RingOrdered
    <3>3. \A s \in SessionIds :
             session'[s] = IF session[s].exists
                           THEN [session[s] EXCEPT !.ring = Ring(@, ev, aged[s])]
                           ELSE session[s]
      BY <3>1
    <3>4. \A s \in SessionIds : session'[s] \in SessionRow
      BY <1>1, <3>2, <3>3 DEF SessionRow, Events
    <3>5. \A s \in SessionIds : Len(session'[s].ring) <= replayMaxLen
      BY <1>1, <3>2, <3>3 DEF SessionRow
    <3> QED BY <3>1, <3>4, <3>5
  <2>5. conn' \in [Handlers -> ConnRow]
        /\ \A h \in Handlers : Len(conn'[h].out) <= outboundDepth
    <3>1. \A h \in Handlers : Len(conn[h].out) < outboundDepth =>
             /\ Append(conn[h].out, ev) \in Events
             /\ Len(Append(conn[h].out, ev)) <= outboundDepth
      BY <1>1, <2>2 DEF ConnRow, Events
    <3>2. conn' = [h \in Handlers |->
                  IF conn[h].pc = "none" \/ session[conn[h].sid].att /= h THEN conn[h]
                  ELSE IF Len(conn[h].out) < outboundDepth
                       THEN [conn[h] EXCEPT !.out = Append(@, ev)]
                       ELSE [conn[h] EXCEPT !.kick = TRUE]]
      BY <2>3 DEF Publish
    <3>3. \A h \in Handlers : conn'[h] \in ConnRow
      BY <1>1, <3>1, <3>2, ConnWrites
    <3>4. \A h \in Handlers : Len(conn'[h].out) <= outboundDepth
      BY <1>1, <3>1, <3>2 DEF ConnRow
    <3> QED BY <3>2, <3>3, <3>4
  <2>6. Typed
    BY <1>1, <2>1, <2>4, <2>5 DEF Typed
  <2> QED BY <1>2, <2>1, <2>2, <2>6 DEF Types
<1>8. CASE Network
  <2>1. CASE Drop
    <3>1. client.h \in Handlers /\ client' \in ClientRow /\ drops' \in 0..MaxDrops
      BY <1>1, <2>1 DEF Drop, ClientRow
    <3>2. conn' = [conn EXCEPT ![client.h] = [conn[client.h] EXCEPT !.gone = TRUE]]
      BY <2>1 DEF Drop
    <3>3. conn' \in [Handlers -> ConnRow]
      BY <1>1, <3>1, <3>2, ConnWrites
    <3>4. \A h \in Handlers : conn'[h].out = conn[h].out
      BY <1>1, <3>1, <3>2 DEF ConnRow
    <3> QED BY <1>1, <1>3, <1>8, <2>1, <3>1, <3>3, <3>4 DEF Drop, Network, Typed
  <2>2. CASE sweep
    <3>1. session' \in [SessionIds -> SessionRow]
          /\ \A s \in SessionIds : Len(session'[s].ring) <= replayMaxLen
      BY <1>1, <2>2, EmptyRows DEF sweep
    <3> QED BY <1>1, <1>3, <1>8, <2>2, <3>1 DEF sweep, Network, Typed
  <2>3. CASE Attach
    <3>1. PICK h \in Handlers :
              /\ conn[h] = NoConn /\ client' = [client EXCEPT !.h = h]
              /\ UNCHANGED <<view, stale, drops>>
              /\ \/ client.sid /= None /\ session[client.sid].exists /\ reattach(h, client.sid)
                 \/ fresh(h)
      BY <2>3, Attaches
    <3>2. client' \in ClientRow /\ \A s \in Events, n \in Nat : Gapped(s, n) \in BOOLEAN
      BY <1>1, <3>1 DEF ClientRow, Gapped
    <3>3. CASE client.sid /= None /\ session[client.sid].exists /\ reattach(h, client.sid)
      <4> DEFINE s == client.sid
                 q == since(session[s].ring, client.last)
      <4>1. s \in SessionIds /\ session[s].ring \in Events /\ client.last \in Nat
        BY <1>1, <3>3 DEF ClientRow, SessionRow, Events
      <4>2. q \in Events
        BY <4>1, SinceOrdered DEF Ordered, Types
      <4> DEFINE row == Attached(s, session[s].epoch + 1, q, Gapped(session[s].ring, client.last))
      <4>3. row \in ConnRow /\ row.out = <<>>
        <5>1. session[s].epoch + 1 \in Nat /\ Gapped(session[s].ring, client.last) \in BOOLEAN
          BY <1>1, <3>2, <4>1 DEF SessionRow
        <5> HIDE DEF q, s
        <5> QED BY <4>1, <4>2, <5>1, AttachedRow DEF Attached
      <4>4. /\ \A x \in Handlers : conn'[x] \in {conn[x], [conn[x] EXCEPT !.closed = TRUE], row}
            /\ conn' = [x \in Handlers |-> conn'[x]]
        BY <3>3 DEF reattach
      <4> HIDE DEF row
      <4>6. \A x \in Handlers : conn'[x] \in ConnRow
        BY <1>1, <1>11, <4>3, <4>4
      <4>7. conn' \in [Handlers -> ConnRow] /\ \A x \in Handlers : Len(conn'[x].out) <= outboundDepth
        <5>1. \A x \in Handlers : conn'[x].out \in {conn[x].out, <<>>}
          BY <1>1, <4>3, <4>4 DEF ConnRow
        <5> QED BY <1>1, <4>4, <4>6, <5>1, EmptyRows
      <4>8. /\ session' \in [SessionIds -> SessionRow]
            /\ \A x \in SessionIds : Len(session'[x].ring) <= replayMaxLen
        <5>1. session' = [session EXCEPT ![s] = [session[s] EXCEPT !.epoch = session[s].epoch + 1,
                                                                  !.att = h, !.detached = FALSE]]
          BY <3>3 DEF reattach
        <5>2. [session[s] EXCEPT !.epoch = session[s].epoch + 1, !.att = h, !.detached = FALSE]
                 \in SessionRow
          BY <1>1, <4>1, SessionWrites
        <5> HIDE DEF s
        <5>3. session' \in [SessionIds -> SessionRow]
          BY <1>1, <5>1, <5>2
        <5>4. \A x \in SessionIds : session'[x].ring = session[x].ring
          BY <1>1, <4>1, <5>1 DEF SessionRow
        <5> QED BY <1>1, <5>3, <5>4
      <4> QED BY <1>1, <1>3, <1>8, <3>1, <3>2, <4>6, <4>7, <4>8 DEF Typed, Network
    <3>4. CASE fresh(h)
      <4>1. uuidNew \in SessionIds
        BY <3>4, NewId DEF fresh, Unused
      <4> DEFINE row == Attached(uuidNew, 1, <<>>, FALSE)
                 new == [NoSession EXCEPT !.exists = TRUE, !.att = h, !.epoch = 1]
      <4>3. row \in ConnRow /\ row.out = <<>>
        BY <4>1, EmptyRows, AttachedRow DEF Attached
      <4>4. new \in SessionRow /\ new.ring = <<>>
        BY EmptyRows, SessionWrites
      <4>5. conn' = [conn EXCEPT ![h] = row] /\ session' = [session EXCEPT ![uuidNew] = new]
        BY <3>4 DEF fresh
      <4> HIDE DEF row, new
      <4>6. /\ conn' \in [Handlers -> ConnRow]
            /\ \A x \in Handlers : Len(conn'[x].out) <= outboundDepth
        BY <1>1, <4>3, <4>5, EmptyRows
      <4>7. /\ session' \in [SessionIds -> SessionRow]
            /\ \A x \in SessionIds : Len(session'[x].ring) <= replayMaxLen
        BY <1>1, <4>1, <4>4, <4>5, EmptyRows
      <4> QED BY <1>1, <1>3, <1>8, <3>1, <3>2, <4>6, <4>7 DEF Typed, Network
    <3> QED BY <3>1, <3>3, <3>4
  <2>4. ASSUME NEW h \in Handlers, NEW c \in ConnRow, conn' = [conn EXCEPT ![h] = c],
               Len(c.out) <= outboundDepth, client' \in ClientRow, stale' \subseteq Titles,
               UNCHANGED <<session, drops>>
        PROVE  Types'
    <3>1. /\ conn' \in [Handlers -> ConnRow]
          /\ \A x \in Handlers : Len(conn'[x].out) <= outboundDepth
      BY <1>1, <2>4
    <3> QED BY <1>1, <1>3, <1>8, <2>4, <3>1 DEF Typed, Network
  <2>5. ASSUME NEW h \in Handlers, NEW ev \in Event, Frame(h, ev)
        PROVE  client' \in ClientRow /\ stale' \subseteq Titles
    BY <1>1, <2>5 DEF Frame, ClientRow, Event
  <2>6. ASSUME NEW q \in Events, q /= <<>>
        PROVE  Head(q) \in Event /\ Tail(q) \in Events /\ Len(Tail(q)) <= Len(q)
    BY <2>6 DEF Events
  <2>7. ASSUME NEW h \in Handlers, Ready(h)
        PROVE  Types'
    <3>1. conn' = [conn EXCEPT ![h] = [conn[h] EXCEPT !.pc = "replay"]]
      BY <2>7 DEF Ready
    <3>2. /\ [conn[h] EXCEPT !.pc = "replay"] \in ConnRow
          /\ [conn[h] EXCEPT !.pc = "replay"].out = conn[h].out
      BY <1>1, ConnWrites DEF SameQueue
    <3>3. client' \in ClientRow /\ stale' \subseteq Titles /\ UNCHANGED <<session, drops>>
      BY <1>1, <2>7 DEF Ready, ConnRow, ClientRow, Resync
    <3> QED BY <1>1, <2>4, <3>1, <3>2, <3>3
  <2>8. ASSUME NEW h \in Handlers, ResumeGap(h)
        PROVE  Types'
    <3>1. /\ conn' = [conn EXCEPT ![h] = [conn[h] EXCEPT !.gapped = FALSE]]
          /\ UNCHANGED <<session, drops, client>>
          /\ stale' \subseteq Titles
      BY <1>1, <2>8 DEF ResumeGap
    <3>2. /\ [conn[h] EXCEPT !.gapped = FALSE] \in ConnRow
          /\ [conn[h] EXCEPT !.gapped = FALSE].out = conn[h].out
      BY <1>1, ConnWrites DEF SameQueue
    <3> QED BY <1>1, <2>4, <3>1, <3>2
  <2>9. ASSUME NEW h \in Handlers, Return(h)
        PROVE  Types'
    <3>1. /\ conn' = [conn EXCEPT ![h] = [conn[h] EXCEPT !.pc = "exit"]]
          /\ UNCHANGED <<session, drops, client, stale>>
      BY <2>9 DEF Return
    <3>2. /\ [conn[h] EXCEPT !.pc = "exit"] \in ConnRow
          /\ [conn[h] EXCEPT !.pc = "exit"].out = conn[h].out
      BY <1>1, ConnWrites DEF SameQueue
    <3> QED BY <1>1, <2>4, <3>1, <3>2
  <2>10. ASSUME NEW h \in Handlers, Replay(h)
         PROVE  Types'
    <3>1. UNCHANGED <<session, drops>> /\ conn[h].replay \in Events
      BY <1>1, <2>10 DEF Replay, ConnRow, Events
    <3>2. CASE conn[h].replay /= <<>>
      <4>1. /\ conn' = [conn EXCEPT ![h] = [conn[h] EXCEPT !.replay = Tail(conn[h].replay)]]
            /\ Frame(h, Head(conn[h].replay))
        BY <2>10, <3>2 DEF Replay
      <4>2. [conn[h] EXCEPT !.replay = Tail(conn[h].replay)] \in ConnRow
        BY <1>1, <2>6, <3>1, <3>2, ConnWrites
      <4>3. [conn[h] EXCEPT !.replay = Tail(conn[h].replay)].out = conn[h].out
        BY <1>1 DEF ConnRow
      <4>4. client' \in ClientRow /\ stale' \subseteq Titles
        BY <2>5, <2>6, <3>1, <3>2, <4>1
      <4> QED BY <1>1, <2>4, <3>1, <4>1, <4>2, <4>3, <4>4
    <3>3. CASE conn[h].replay = <<>>
      <4>1. /\ conn' = [conn EXCEPT ![h] = [conn[h] EXCEPT !.pc = "live"]]
            /\ UNCHANGED <<client, stale>>
        BY <2>10, <3>3 DEF Replay
      <4>2. /\ [conn[h] EXCEPT !.pc = "live"] \in ConnRow
            /\ [conn[h] EXCEPT !.pc = "live"].out = conn[h].out
        BY <1>1, ConnWrites DEF SameQueue
      <4> QED BY <1>1, <2>4, <3>1, <4>1, <4>2
    <3> QED BY <3>2, <3>3
  <2>11. ASSUME NEW h \in Handlers, SendOut(h)
         PROVE  Types'
    <3>1. UNCHANGED <<session, drops>> /\ conn[h].out \in Events /\ conn[h].out /= <<>>
      BY <1>1, <2>11 DEF SendOut, ConnRow, Events
    <3>2. /\ conn' = [conn EXCEPT ![h] = [conn[h] EXCEPT !.out = Tail(conn[h].out)]]
          /\ Frame(h, Head(conn[h].out))
      BY <2>11 DEF SendOut
    <3>3. [conn[h] EXCEPT !.out = Tail(conn[h].out)] \in ConnRow
      BY <1>1, <2>6, <3>1, ConnWrites
    <3>4. [conn[h] EXCEPT !.out = Tail(conn[h].out)].out = Tail(conn[h].out)
      BY <1>1 DEF ConnRow
    <3>5. client' \in ClientRow /\ stale' \subseteq Titles
      BY <2>5, <2>6, <3>1, <3>2
    <3>6. Len(Tail(conn[h].out)) <= outboundDepth
      BY <1>1, <2>6, <3>1 DEF Events
    <3> QED BY <1>1, <2>4, <3>1, <3>2, <3>3, <3>4, <3>5, <3>6
  <2>12. ASSUME NEW h \in Handlers, Cancel(h)
         PROVE  Types'
    <3>1. /\ \A x \in Handlers : conn'[x] \in {conn[x], [conn[x] EXCEPT !.closed = TRUE], NoConn}
          /\ conn' = [x \in Handlers |-> conn'[x]]
          /\ UNCHANGED <<stale, drops>>
      BY <2>12 DEF Cancel
    <3>2. conn' \in [Handlers -> ConnRow]
      BY <1>1, <1>11, <3>1, EmptyRows
    <3>3. \A x \in Handlers : Len(conn'[x].out) <= outboundDepth
      <4>1. \A x \in Handlers : conn'[x].out \in {conn[x].out, <<>>}
        BY <1>1, <1>11, <3>1, EmptyRows
      <4> QED BY <1>1, <4>1, EmptyRows
    <3>4. client' \in ClientRow
      BY <1>1, <2>12 DEF Cancel, ClientRow
    <3>5. /\ session' \in [SessionIds -> SessionRow]
          /\ \A s \in SessionIds : Len(session'[s].ring) <= replayMaxLen
      <4>1. CASE UNCHANGED session
        BY <1>1, <4>1
      <4>2. ASSUME session' = [session EXCEPT ![conn[h].sid] =
                      [session[conn[h].sid] EXCEPT !.att = None, !.detached = TRUE]]
            PROVE  /\ session' \in [SessionIds -> SessionRow]
                   /\ \A s \in SessionIds : Len(session'[s].ring) <= replayMaxLen
        <5>1. \A s \in SessionIds :
                 /\ [session[s] EXCEPT !.att = None, !.detached = TRUE] \in SessionRow
                 /\ [session[s] EXCEPT !.att = None, !.detached = TRUE].ring = session[s].ring
          BY <1>1 DEF SessionRow
        <5> QED BY <1>1, <4>2, <5>1
      <4> QED BY <2>12, <4>1, <4>2 DEF Cancel
    <3> QED BY <1>1, <1>3, <1>8, <3>1, <3>2, <3>3, <3>4, <3>5 DEF Typed, Network
  <2> QED BY <1>8, <2>1, <2>2, <2>3, <2>7, <2>8, <2>9, <2>10, <2>11, <2>12
           DEF Network, Stream
<1>9. CASE Refetch
  BY <1>1, <1>3, <1>9 DEF Refetch, Typed
<1>10. CASE Restart
  <2>1. /\ session' \in [SessionIds -> SessionRow] /\ conn' \in [Handlers -> ConnRow]
        /\ \A s \in SessionIds : session'[s].ring = <<>>
        /\ \A h \in Handlers : conn'[h].out = <<>>
    BY <1>10, EmptyRows DEF Restart
  <2>2. client' \in ClientRow /\ UNCHANGED <<stale, drops>>
    BY <1>1, <1>10 DEF Restart, ClientRow
  <2>3. Typed
    BY <1>1, <2>1, <2>2, EmptyRows DEF Typed
  <2> QED BY <1>2, <1>10, <2>3 DEF Restart, Types, NoWriter
<1> QED BY <1>5, <1>6, <1>7, <1>8, <1>9, <1>10 DEF Next

LEMMA TypedRows ==
    ASSUME Types
    PROVE  /\ session \in [SessionIds -> SessionRow] /\ conn \in [Handlers -> ConnRow]
           /\ client \in ClientRow /\ lastId \in Nat
  BY DEF Types, BrokerTypeOK, SessionRow, ConnRow, ClientRow

-----------------------------------------------------------------------------
(***************************************************************************)
(* The sessions and who is attached to them.                               *)
(***************************************************************************)
\* A step that leaves attachments alone; the browser may lose its stream.
Keeps ==
    /\ \A s \in SessionIds :
          /\ session'[s].exists = session[s].exists /\ session'[s].epoch = session[s].epoch
          /\ session'[s].att = session[s].att /\ session'[s].detached = session[s].detached
    /\ \A h \in Handlers :
          /\ SameHold(conn[h], conn'[h]) /\ conn'[h].closed = conn[h].closed
          /\ Present(h)' = Present(h)
    /\ client'.h \in {client.h, None}

LEMMA KeepsHeld ==
    ASSUME Types, Held, Keeps
    PROVE  Held'
<1>1. client.h \in Handlers \cup {None}
  BY TypedRows DEF ClientRow
<1>2. Epochs'
  BY DEF Held, Epochs, Keeps, SameHold
<1>3. ReaderAttached'
  BY <1>1 DEF Held, Epochs, ReaderAttached, Keeps, SameHold
<1> QED BY <1>2, <1>3 DEF Held

LEMMA StepKeepsHold ==
    ASSUME Types, Next, ~Attach, ~sweep, ~Restart, \A h \in Handlers : ~Cancel(h)
    PROVE  Keeps
<1>1. /\ session \in [SessionIds -> SessionRow] /\ conn \in [Handlers -> ConnRow]
      /\ client \in ClientRow
  BY TypedRows
<1>2. UNCHANGED <<session, conn>> /\ client'.h = client.h => Keeps
  BY DEF Keeps, SameHold, Present
<1>3. CASE UNCHANGED brokerVars
  BY <1>2, <1>3 DEF brokerVars
<1>4. CASE emitAll
  <2>1. PICK ev : Publish(ev) /\ UNCHANGED client
    BY <1>4 DEF emitAll
  <2>2. \A s \in SessionIds :
           /\ session'[s].exists = session[s].exists /\ session'[s].epoch = session[s].epoch
           /\ session'[s].att = session[s].att /\ session'[s].detached = session[s].detached
    BY <1>1, <2>1 DEF Publish, SessionRow
  <2>3. \A h \in Handlers :
           conn'[h] = conn[h] \/ conn'[h] = [conn[h] EXCEPT !.out = Append(@, ev)]
                             \/ conn'[h] = [conn[h] EXCEPT !.kick = TRUE]
    BY <2>1 DEF Publish
  <2>4. \A c \in ConnRow :
           /\ LET d == [c EXCEPT !.out = Append(@, ev)] IN
                 d.pc = c.pc /\ SameHold(c, d) /\ d.closed = c.closed
           /\ LET d == [c EXCEPT !.kick = TRUE] IN
                 d.pc = c.pc /\ SameHold(c, d) /\ d.closed = c.closed
    BY DEF ConnRow, SameHold
  <2>5. \A h \in Handlers :
           conn'[h].pc = conn[h].pc /\ SameHold(conn[h], conn'[h])
           /\ conn'[h].closed = conn[h].closed
    BY <1>1, <2>3, <2>4 DEF SameHold
  <2> QED BY <2>1, <2>2, <2>5 DEF Keeps, Present
<1>5. CASE Drop
  <2>1. client.h \in Handlers /\ UNCHANGED session /\ client'.h = None
    BY <1>1, <1>5 DEF Drop, ClientRow
  <2>2. \A h \in Handlers : conn'[h] = conn[h] \/ conn'[h] = [conn[h] EXCEPT !.gone = TRUE]
    BY <1>1, <1>5, <2>1 DEF Drop
  <2>3. \A c \in ConnRow : LET d == [c EXCEPT !.gone = TRUE] IN
                             d.pc = c.pc /\ SameHold(c, d) /\ d.closed = c.closed
    BY DEF ConnRow, SameHold
  <2> QED BY <1>1, <2>1, <2>2, <2>3 DEF Keeps, Present, SameHold
<1>6. ASSUME NEW h \in Handlers, Ready(h) \/ ResumeGap(h) \/ Replay(h) \/ SendOut(h) \/ Return(h)
      PROVE  Keeps
  <2>1. UNCHANGED session /\ client'.h = client.h
    BY <1>1, <1>6 DEF Ready, ResumeGap, Replay, SendOut, Return, Frame, ClientRow
  <2>2. \A x \in Handlers \ {h} : conn'[x] = conn[x]
    BY <1>1, <1>6 DEF Ready, ResumeGap, Replay, SendOut, Return
  <2>3. \E q : \E pc \in {"replay", "live", "exit"} :
           /\ conn[h].pc /= "none"
           /\ conn'[h] \in {[conn[h] EXCEPT !.pc = pc], [conn[h] EXCEPT !.gapped = FALSE],
                            [conn[h] EXCEPT !.replay = q], [conn[h] EXCEPT !.out = q]}
    <3>1. CASE Ready(h) \/ ResumeGap(h) \/ Return(h)
      BY <1>1, <3>1 DEF Ready, ResumeGap, Return, Kicked, OutClosed, ClientGone
    <3>2. CASE Replay(h)
      BY <1>1, <3>2 DEF Replay
    <3>3. CASE SendOut(h)
      BY <1>1, <3>3 DEF SendOut
    <3> QED BY <1>6, <3>1, <3>2, <3>3
  <2>4. \A c \in ConnRow : \A q, pc :
           /\ LET d == [c EXCEPT !.pc = pc] IN
                 SameHold(c, d) /\ d.closed = c.closed /\ d.pc = pc
           /\ LET d == [c EXCEPT !.gapped = FALSE] IN
                 SameHold(c, d) /\ d.closed = c.closed /\ d.pc = c.pc
           /\ LET d == [c EXCEPT !.replay = q] IN
                 SameHold(c, d) /\ d.closed = c.closed /\ d.pc = c.pc
           /\ LET d == [c EXCEPT !.out = q] IN
                 SameHold(c, d) /\ d.closed = c.closed /\ d.pc = c.pc
    BY DEF ConnRow, SameHold
  <2>5. /\ SameHold(conn[h], conn'[h]) /\ conn'[h].closed = conn[h].closed
        /\ conn[h].pc /= "none" /\ conn'[h].pc /= "none"
    <3>1. PICK q : \E pc \in {"replay", "live", "exit"} :
             /\ conn[h].pc /= "none"
             /\ conn'[h] \in {[conn[h] EXCEPT !.pc = pc], [conn[h] EXCEPT !.gapped = FALSE],
                              [conn[h] EXCEPT !.replay = q], [conn[h] EXCEPT !.out = q]}
      BY <2>3
    <3>2. PICK pc \in {"replay", "live", "exit"} :
             /\ conn[h].pc /= "none"
             /\ conn'[h] \in {[conn[h] EXCEPT !.pc = pc], [conn[h] EXCEPT !.gapped = FALSE],
                              [conn[h] EXCEPT !.replay = q], [conn[h] EXCEPT !.out = q]}
      BY <3>1
    <3>3. SameHold(conn[h], conn'[h]) /\ conn'[h].closed = conn[h].closed
          /\ conn'[h].pc \in {conn[h].pc, pc}
      <4>1. conn[h] \in ConnRow
        BY <1>1
      <4>2. CASE conn'[h] = [conn[h] EXCEPT !.pc = pc]
        BY <2>4, <4>1, <4>2 DEF SameHold
      <4>3. CASE conn'[h] = [conn[h] EXCEPT !.gapped = FALSE]
        BY <2>4, <4>1, <4>3 DEF SameHold
      <4>4. CASE conn'[h] = [conn[h] EXCEPT !.replay = q]
        BY <2>4, <4>1, <4>4 DEF SameHold
      <4>5. CASE conn'[h] = [conn[h] EXCEPT !.out = q]
        BY <2>4, <4>1, <4>5 DEF SameHold
      <4> QED BY <3>2, <4>2, <4>3, <4>4, <4>5
    <3> QED BY <3>2, <3>3
  <2> QED BY <2>1, <2>2, <2>5 DEF Keeps, Present, SameHold
<1>7. CASE Refetch
  BY <1>2, <1>7 DEF Refetch
<1>8. \/ UNCHANGED brokerVars
      \/ emitAll \/ Drop \/ Refetch
      \/ \E h \in Handlers : Ready(h) \/ ResumeGap(h) \/ Replay(h) \/ SendOut(h) \/ Return(h)
  BY DEF Next, Begin, Commit, Notify, Forget, flushPending, runSweep, Network, Stream
<1> QED BY <1>3, <1>4, <1>5, <1>6, <1>7, <1>8

\* A session taken over: the handlers that had it are behind from here on.
LEMMA ReattachHeld ==
    ASSUME Types, Held, NEW h \in Handlers, conn[h] = NoConn, client.h = None,
           client' = [client EXCEPT !.h = h],
           client.sid /= None, session[client.sid].exists, reattach(h, client.sid)
    PROVE  Held'
<1> DEFINE s == client.sid
           row == Attached(s, session[s].epoch + 1, since(session[s].ring, client.last),
                           Gapped(session[s].ring, client.last))
<1>1. /\ session \in [SessionIds -> SessionRow] /\ conn \in [Handlers -> ConnRow]
      /\ client \in ClientRow
  BY TypedRows
<1>2. s \in SessionIds /\ client'.h = h /\ h /= None
  BY <1>1, BrokerAssumption DEF ClientRow
<1>3. /\ row.pc = "ready" /\ row.sid = s /\ row.epoch = session[s].epoch + 1 /\ ~row.closed
  BY DEF Attached
<1>4. conn'[h] = row /\ \A x \in Handlers \ {h} : conn'[x] \in {conn[x], [conn[x] EXCEPT !.closed = TRUE]}
  BY DEF reattach
<1> HIDE DEF row
<1>5. session' = [session EXCEPT ![s] = [session[s] EXCEPT !.epoch = session[s].epoch + 1,
                                                          !.att = h, !.detached = FALSE]]
  BY DEF reattach
<1> HIDE DEF s
<1>6. /\ session'[s].exists /\ session'[s].epoch = session[s].epoch + 1
      /\ session'[s].att = h /\ ~session'[s].detached /\ session[s].epoch \in Nat
      /\ \A x \in SessionIds \ {s} : session'[x] = session[x]
  <2>1. session[s] \in SessionRow /\ session[s].epoch \in Nat /\ session[s].exists
    BY <1>1, <1>2 DEF SessionRow, s
  <2>2. session'[s] = [session[s] EXCEPT !.epoch = session[s].epoch + 1, !.att = h,
                                        !.detached = FALSE]
    BY <1>1, <1>2, <1>5
  <2>3. LET d == [session[s] EXCEPT !.epoch = session[s].epoch + 1, !.att = h,
                                    !.detached = FALSE] IN
        /\ d.exists = session[s].exists /\ d.epoch = session[s].epoch + 1
        /\ d.att = h /\ d.detached = FALSE
    <3> DEFINE e == session[s].epoch + 1
    <3> HIDE DEF e
    <3>1. LET d == [session[s] EXCEPT !.epoch = e, !.att = h, !.detached = FALSE] IN
          d.exists = session[s].exists /\ d.epoch = e /\ d.att = h /\ d.detached = FALSE
      BY <2>1 DEF SessionRow
    <3> QED BY <3>1 DEF e
  <2>4. \A x \in SessionIds \ {s} : session'[x] = session[x]
    BY <1>1, <1>5
  <2> QED BY <2>1, <2>2, <2>3, <2>4
<1>7. \A x \in Handlers \ {h} : SameHold(conn[x], conn'[x]) /\ conn'[x].pc = conn[x].pc
  <2>1. \A c \in ConnRow : LET d == [c EXCEPT !.closed = TRUE] IN
                             d.pc = c.pc /\ SameHold(c, d)
    BY DEF ConnRow, SameHold
  <2> QED BY <1>1, <1>4, <2>1 DEF SameHold
<1>8. ASSUME NEW x \in Handlers, conn'[x].pc /= "none"
      PROVE  /\ conn'[x].sid \in SessionIds /\ conn'[x].epoch >= 1
             /\ session'[conn'[x].sid].exists => conn'[x].epoch <= session'[conn'[x].sid].epoch
             /\ conn'[x].epoch = session'[conn'[x].sid].epoch => session'[conn'[x].sid].att = x
  <2>1. CASE x = h
    BY <1>2, <1>3, <1>4, <1>6, <2>1
  <2>2. CASE x /= h
    <3>1. conn[x].pc /= "none" /\ SameHold(conn[x], conn'[x]) /\ conn[x].epoch \in Nat
      BY <1>1, <1>7, <1>8, <2>2 DEF ConnRow
    <3>2. CASE conn[x].sid = s
      <4>1. conn[x].epoch <= session[s].epoch /\ conn[x].epoch >= 1
        BY <3>1, <3>2 DEF Held, Epochs, Present, s
      <4> QED BY <1>2, <1>6, <3>1, <3>2, <4>1 DEF SameHold
    <3>3. CASE conn[x].sid /= s
      BY <1>6, <3>1, <3>3 DEF Held, Epochs, Present, SameHold
    <3> QED BY <3>2, <3>3
  <2> QED BY <2>1, <2>2
<1>9. Epochs'
  BY <1>6, <1>8 DEF Held, Epochs, Present
<1>10. ReaderAttached'
  BY <1>2, <1>3, <1>4, <1>6 DEF ReaderAttached, Present
<1> QED BY <1>9, <1>10 DEF Held

\* A session of its own, under an id that no handler holds.
LEMMA FreshHeld ==
    ASSUME Types, Held, NEW h \in Handlers, conn[h] = NoConn, client.h = None,
           client' = [client EXCEPT !.h = h], fresh(h)
    PROVE  Held'
<1> DEFINE s == uuidNew
           row == Attached(s, 1, <<>>, FALSE)
           new == [NoSession EXCEPT !.exists = TRUE, !.att = h, !.epoch = 1]
<1>1. /\ session \in [SessionIds -> SessionRow] /\ conn \in [Handlers -> ConnRow]
      /\ client \in ClientRow
  BY TypedRows
<1>2. /\ s \in SessionIds /\ \A x \in Handlers : conn[x].sid /= s
      /\ client'.h = h /\ h /= None
  BY <1>1, NewId, BrokerAssumption DEF ClientRow, fresh, Unused
<1>3. row.pc = "ready" /\ row.sid = s /\ row.epoch = 1 /\ ~row.closed
  BY DEF Attached
<1>4. new.exists /\ new.epoch = 1 /\ new.att = h /\ ~new.detached
  BY EmptyRows, SessionWrites
<1>5. conn' = [conn EXCEPT ![h] = row] /\ session' = [session EXCEPT ![s] = new]
  BY DEF fresh
<1> HIDE DEF row, new, s
<1>6. /\ conn'[h] = row /\ session'[s] = new
      /\ \A x \in Handlers \ {h} : conn'[x] = conn[x]
      /\ \A x \in SessionIds \ {s} : session'[x] = session[x]
  BY <1>1, <1>2, <1>5
<1>7. Epochs'
  BY <1>2, <1>3, <1>4, <1>6 DEF Held, Epochs, Present
<1>8. ReaderAttached'
  BY <1>2, <1>3, <1>4, <1>6 DEF ReaderAttached, Present
<1> QED BY <1>7, <1>8 DEF Held

\* A handler that returns detaches the session only if it has it still.
LEMMA CancelHeld ==
    ASSUME Types, Held, NEW h \in Handlers, Cancel(h)
    PROVE  Held'
<1>1. /\ session \in [SessionIds -> SessionRow] /\ conn \in [Handlers -> ConnRow]
      /\ client \in ClientRow /\ Present(h)
  BY TypedRows DEF Cancel, Present
<1>2. /\ conn[h].sid \in SessionIds
      /\ CurrentEpoch(h) => session[conn[h].sid].att = h
  BY <1>1 DEF Held, Epochs, CurrentEpoch
<1>3. conn'[h] = NoConn /\ \A x \in Handlers \ {h} : conn'[x] = conn[x]
  BY <1>2 DEF Cancel
<1>4. ~Present(h)' /\ \A x \in Handlers \ {h} : Present(x)' = Present(x)
  BY <1>3 DEF Present, NoConn
<1>5. client'.h = IF client.h = h THEN None ELSE client.h
  BY <1>1 DEF Cancel, ClientRow
<1>6. CASE ~CurrentEpoch(h)
  <2>1. UNCHANGED session
    BY <1>6 DEF Cancel
  <2>2. Epochs'
    BY <1>3, <1>4, <2>1 DEF Held, Epochs
  <2>3. ReaderAttached'
    BY <1>1, <1>3, <1>4, <1>5, <2>1 DEF Held, ReaderAttached, ClientRow
  <2> QED BY <2>2, <2>3 DEF Held
<1>7. CASE CurrentEpoch(h)
  <2> DEFINE s == conn[h].sid
  <2>1. session' = [session EXCEPT ![s] = [session[s] EXCEPT !.att = None, !.detached = TRUE]]
    BY <1>1, <1>2, <1>7 DEF Cancel
  <2>2. /\ session'[s].exists = session[s].exists /\ session'[s].epoch = session[s].epoch
        /\ session'[s].att = None
        /\ \A x \in SessionIds \ {s} : session'[x] = session[x]
    BY <1>1, <1>2, <2>1, SessionWrites
  <2>3. session[s].att = h
    BY <1>2, <1>7
  <2>4. \A x \in Handlers \ {h} : Present(x) /\ conn[x].sid = s => conn[x].epoch /= session[s].epoch
    BY <2>3 DEF Held, Epochs
  <2> HIDE DEF s
  <2>5. Epochs'
    <3>1. \A x \in SessionIds :
             /\ session'[x].exists => session'[x].epoch >= 1
             /\ ~session'[x].exists => session'[x].epoch = 0
             /\ session'[x].detached => session'[x].att = None
      BY <2>2 DEF Held, Epochs
    <3>2. ASSUME NEW x \in Handlers, Present(x)'
          PROVE  /\ conn'[x].sid \in SessionIds /\ conn'[x].epoch >= 1
                 /\ session'[conn'[x].sid].exists => conn'[x].epoch <= session'[conn'[x].sid].epoch
                 /\ conn'[x].epoch = session'[conn'[x].sid].epoch => session'[conn'[x].sid].att = x
      <4>1. x /= h /\ Present(x) /\ conn'[x] = conn[x]
        BY <1>3, <1>4, <3>2
      <4> QED BY <2>2, <2>4, <4>1 DEF Held, Epochs
    <3> QED BY <3>1, <3>2 DEF Epochs
  <2>6. ReaderAttached'
    <3>1. ASSUME client'.h /= None
          PROVE  /\ client.h /= h /\ client.h \in Handlers /\ client'.h = client.h
                 /\ session[conn[client.h].sid].att = client.h
      BY <1>1, <1>5, <3>1 DEF Held, ReaderAttached, ClientRow
    <3>2. client'.h /= None => conn[client.h].sid /= s /\ conn[client.h].sid \in SessionIds
      BY <2>3, <3>1 DEF Held, ReaderAttached, Epochs
    <3> QED BY <1>3, <1>4, <2>2, <3>1, <3>2 DEF Held, ReaderAttached
  <2> QED BY <2>5, <2>6 DEF Held
<1> QED BY <1>6, <1>7

LEMMA HeldStep ==
    ASSUME Types, Held, Next
    PROVE  Held'
<1>1. /\ session \in [SessionIds -> SessionRow] /\ conn \in [Handlers -> ConnRow]
      /\ client \in ClientRow
  BY TypedRows
<1>2. CASE Attach
  BY <1>2, Attaches, ReattachHeld, FreshHeld
<1>3. CASE sweep
  <2>1. UNCHANGED <<conn, client>>
    BY <1>3 DEF sweep
  <2>2. \A s \in SessionIds :
           \/ session'[s] = session[s]
           \/ /\ session'[s] = NoSession /\ session[s].exists /\ session[s].detached
              /\ session[s].att = None /\ session[s].epoch >= 1
    BY <1>3 DEF sweep, Held, Epochs
  <2>3. ~NoSession.exists /\ NoSession.epoch = 0 /\ NoSession.att = None
    BY DEF NoSession
  <2>4. Epochs'
    <3>1. \A s \in SessionIds :
             /\ session'[s].exists => session'[s].epoch >= 1
             /\ ~session'[s].exists => session'[s].epoch = 0
             /\ session'[s].detached => session'[s].att = None
      BY <2>2, <2>3 DEF Held, Epochs
    <3>2. ASSUME NEW x \in Handlers, Present(x)'
          PROVE  /\ conn'[x].sid \in SessionIds /\ conn'[x].epoch >= 1
                 /\ session'[conn'[x].sid].exists => conn'[x].epoch <= session'[conn'[x].sid].epoch
                 /\ conn'[x].epoch = session'[conn'[x].sid].epoch => session'[conn'[x].sid].att = x
      <4>1. Present(x) /\ conn'[x] = conn[x] /\ conn[x].epoch \in Nat
        BY <1>1, <2>1, <3>2 DEF Present, ConnRow
      <4> QED BY <2>2, <2>3, <4>1 DEF Held, Epochs
    <3> QED BY <3>1, <3>2 DEF Epochs
  <2>5. ReaderAttached'
    <3>1. ASSUME client.h /= None
          PROVE  session'[conn[client.h].sid] = session[conn[client.h].sid]
      <4>1. client.h \in Handlers /\ conn[client.h].sid \in SessionIds
            /\ session[conn[client.h].sid].att = client.h
        BY <1>1, <3>1 DEF Held, Epochs, ReaderAttached, ClientRow
      <4> QED BY <2>2, <3>1, <4>1
    <3> QED BY <2>1, <3>1 DEF Held, ReaderAttached, Present
  <2> QED BY <2>4, <2>5 DEF Held
<1>4. CASE Restart
  BY <1>1, <1>4 DEF Restart, Held, Epochs, ReaderAttached, Present, NoSession, NoConn, ClientRow
<1>5. CASE \E h \in Handlers : Cancel(h)
  BY <1>5, CancelHeld
<1> QED BY <1>2, <1>3, <1>4, <1>5, StepKeepsHold, KeepsHeld

-----------------------------------------------------------------------------
(***************************************************************************)
(* The order of what the browser reads.                                    *)
(***************************************************************************)
LEMMA EmptyOrdered ==
    /\ InOrderSeq(<<>>) /\ \A lo, hi : Within(<<>>, lo, hi)
    /\ \A q : Before(q, <<>>) /\ Before(<<>>, q)
  BY DEF InOrderSeq, Within, Before

\* The first event of what is to be sent is read: the rest is newer.
LEMMA TailOrdered ==
    ASSUME NEW q \in Events, q /= <<>>, NEW lo \in Nat, NEW hi \in Nat,
           InOrderSeq(q), Within(q, lo, hi)
    PROVE  /\ Tail(q) \in Events /\ Head(q) \in Event /\ Head(q).id \in Nat
           /\ lo < Head(q).id /\ Head(q).id <= hi
           /\ InOrderSeq(Tail(q)) /\ Within(Tail(q), Head(q).id, hi)
           /\ \A r : Before(q, r) => Before(Tail(q), r)
<1>1. /\ Tail(q) \in Events /\ Head(q) = q[1] /\ 1 \in 1..Len(q) /\ Len(Tail(q)) = Len(q) - 1
      /\ \A i \in 1..Len(Tail(q)) : i + 1 \in 1..Len(q) /\ Tail(q)[i] = q[i + 1] /\ 1 < i + 1
  BY DEF Events
<1>2. Head(q) \in Event /\ Head(q).id \in Nat /\ \A i \in 1..Len(q) : q[i].id \in Nat
  BY <1>1, EventAt
<1>3. lo < Head(q).id /\ Head(q).id <= hi
  BY <1>1 DEF Within
<1>4. InOrderSeq(Tail(q))
  <2> DEFINE d == 1
  <2>1. d \in Int /\ \A i \in 1..Len(Tail(q)) : i + d \in 1..Len(q) /\ Tail(q)[i] = q[i + d]
    BY <1>1
  <2> HIDE DEF d
  <2> QED BY <1>1, <2>1, Part
<1>5. Within(Tail(q), Head(q).id, hi)
  BY <1>1 DEF Within, InOrderSeq
<1>6. \A r : Before(q, r) => Before(Tail(q), r)
  BY <1>1 DEF Before
<1> QED BY <1>1, <1>2, <1>3, <1>4, <1>5, <1>6

\* An event published goes last.
LEMMA AppendOrdered ==
    ASSUME NEW q \in Events, NEW p \in Events, NEW ev \in Event, NEW lo \in Nat, NEW n \in Nat,
           InOrderSeq(q), Within(q, lo, n), lo <= n, ev.id = n + 1,
           Within(p, lo, n), Before(p, q)
    PROVE  /\ InOrderSeq(Append(q, ev)) /\ Within(Append(q, ev), lo, n + 1)
           /\ Before(p, Append(q, ev))
<1> DEFINE all == Append(q, ev)
<1>1. /\ Len(all) = Len(q) + 1 /\ Len(q) \in Nat
      /\ \A i \in 1..Len(all) : all[i] = IF i = Len(q) + 1 THEN ev ELSE q[i]
  BY DEF Events
<1> HIDE DEF all
<1>2. /\ \A i \in 1..Len(q) : q[i].id \in Nat /\ q[i].id < ev.id
      /\ \A i \in 1..Len(p) : p[i].id \in Nat /\ p[i].id < ev.id
  BY EventAt DEF Within
<1>3. InOrderSeq(all)
  <2>1. ASSUME NEW i \in 1..Len(all), NEW j \in 1..Len(all), i < j
        PROVE  all[i].id < all[j].id
    <3>1. i \in 1..Len(q) /\ all[i] = q[i]
      BY <1>1, <2>1
    <3>2. CASE j = Len(q) + 1
      BY <1>1, <1>2, <3>1, <3>2
    <3>3. CASE j \in 1..Len(q)
      BY <1>1, <2>1, <3>1, <3>3 DEF InOrderSeq
    <3> QED BY <1>1, <3>2, <3>3
  <2> QED BY <2>1 DEF InOrderSeq
<1>4. Within(all, lo, n + 1)
  BY <1>1, <1>2 DEF Within
<1>5. Before(p, all)
  <2>1. ASSUME NEW i \in 1..Len(p), NEW j \in 1..Len(all)
        PROVE  p[i].id < all[j].id
    <3>1. CASE j = Len(q) + 1
      BY <1>1, <1>2, <3>1
    <3>2. CASE j \in 1..Len(q)
      BY <1>1, <3>2 DEF Before
    <3> QED BY <1>1, <3>1, <3>2
  <2> QED BY <2>1 DEF Before
<1> QED BY <1>3, <1>4, <1>5 DEF all

LEMMA WidenOrdered ==
    ASSUME NEW q \in Events, NEW lo \in Nat, NEW n \in Nat, Within(q, lo, n)
    PROVE  Within(q, lo, n + 1)
  BY EventAt DEF Within

\* What was read moves on, and the other queue is newer than it.
LEMMA RaiseOrdered ==
    ASSUME NEW q \in Events, NEW r \in Events, q /= <<>>, NEW lo, NEW hi,
           Within(r, lo, hi), Before(q, r)
    PROVE  Within(r, Head(q).id, hi)
<1>1. Head(q) = q[1] /\ 1 \in 1..Len(q)
  BY DEF Events
<1> QED BY <1>1 DEF Within, Before

LEMMA SendingSame ==
    ASSUME NEW c, NEW d, NEW lo, NEW hi, SameQueue(c, d), Sending(c, lo, hi),
           d.pc /= "live" \/ c.replay = <<>> \/ d.pc = c.pc
    PROVE  Sending(d, lo, hi)
  BY DEF SameQueue, Sending

\* A step that publishes, reads and connects nothing.
LEMMA KeepsOrdered ==
    ASSUME Types, Ordered, lastId' = lastId, client'.last = client.last,
           \A s \in SessionIds : session'[s].ring \in {session[s].ring, <<>>},
           client'.h /= None =>
              /\ client'.h = client.h /\ SameQueue(conn[client.h], conn'[client.h])
              /\ \/ conn'[client.h].pc /= "live"
                 \/ conn[client.h].replay = <<>>
                 \/ conn'[client.h].pc = conn[client.h].pc
    PROVE  Ordered'
<1>1. \A s \in SessionIds : InOrderSeq(session'[s].ring) /\ Within(session'[s].ring, 0, lastId)
  BY EmptyOrdered DEF Ordered
<1>2. Reading'
  BY SendingSame DEF Ordered, Reading
<1> QED BY <1>1, <1>2 DEF Ordered

LEMMA PublishOrdered ==
    ASSUME Types, Ordered, emitAll
    PROVE  Ordered'
<1>1. /\ session \in [SessionIds -> SessionRow] /\ conn \in [Handlers -> ConnRow]
      /\ client \in ClientRow /\ lastId \in Nat
      /\ \A s \in SessionIds : Len(session[s].ring) <= replayMaxLen
  BY TypedRows DEF Types, BrokerTypeOK
<1>2. PICK t \in batch : /\ lastId' = lastId + 1
                         /\ Publish([id |-> lastId + 1, title |-> t])
                         /\ UNCHANGED client
  BY DEF emitAll
<1> DEFINE ev == [id |-> lastId + 1, title |-> t]
<1>3. ev \in Event /\ ev.id = lastId + 1 /\ Publish(ev)
  BY <1>1, <1>2 DEF Types, Event
<1> HIDE DEF ev
<1>4. ASSUME NEW s \in SessionIds
      PROVE  InOrderSeq(session'[s].ring) /\ Within(session'[s].ring, 0, lastId + 1)
  <2>1. session[s].ring \in Events /\ session[s] \in SessionRow
    BY <1>1 DEF SessionRow, Events
  <2>2. InOrderSeq(session[s].ring) /\ Within(session[s].ring, 0, lastId)
    BY DEF Ordered
  <2>3. CASE session'[s] = session[s]
    BY <1>1, <2>1, <2>2, <2>3, WidenOrdered
  <2>4. CASE session[s].exists
    <3>1. PICK aged \in [{x \in SessionIds : session[x].exists} -> 0..replayMaxLen] :
             /\ \A x \in DOMAIN aged : aged[x] <= Len(session[x].ring)
             /\ session' = [x \in SessionIds |->
                              IF session[x].exists
                              THEN [session[x] EXCEPT !.ring = Ring(@, ev, aged[x])]
                              ELSE session[x]]
      BY <1>3 DEF Publish
    <3> DEFINE r == Ring(session[s].ring, ev, aged[s])
    <3>2. aged[s] \in 0..Len(session[s].ring)
      BY <2>1, <2>4, <3>1 DEF Events
    <3>3. r \in Events /\ InOrderSeq(r) /\ Within(r, 0, lastId + 1)
      BY <1>1, <1>3, <2>1, <2>2, <3>2, RingOrdered
    <3>4. session'[s] = [session[s] EXCEPT !.ring = r]
      BY <2>4, <3>1
    <3> HIDE DEF r
    <3>5. session'[s].ring = r
      BY <2>1, <3>4 DEF SessionRow
    <3> QED BY <3>3, <3>5
  <2> QED BY <1>3, <2>3, <2>4 DEF Publish
<1>5. ASSUME client.h /= None
      PROVE  Sending(conn'[client.h], client.last, lastId + 1)
  <2> DEFINE c == conn[client.h]
             d == conn'[client.h]
             out == Append(c.out, ev)
  <2>1. /\ client.h \in Handlers /\ c \in ConnRow /\ client.last \in Nat
        /\ c.replay \in Events /\ c.out \in Events
    BY <1>1, <1>5 DEF ConnRow, ClientRow, Events
  <2>2. client.last <= lastId /\ Sending(c, client.last, lastId)
    BY <1>5 DEF Ordered, Reading
  <2>3. d \in {c, [c EXCEPT !.out = out], [c EXCEPT !.kick = TRUE]}
    BY <1>3, <2>1 DEF Publish
  <2> HIDE DEF c, d
  <2>4. /\ Within(c.replay, client.last, lastId + 1) /\ Within(c.out, client.last, lastId + 1)
        /\ InOrderSeq(out) /\ Within(out, client.last, lastId + 1) /\ Before(c.replay, out)
    BY <1>1, <1>3, <2>1, <2>2, WidenOrdered, AppendOrdered DEF Sending
  <2> HIDE DEF out
  <2>5. /\ [c EXCEPT !.kick = TRUE].replay = c.replay /\ [c EXCEPT !.kick = TRUE].out = c.out
        /\ [c EXCEPT !.kick = TRUE].pc = c.pc
        /\ [c EXCEPT !.out = out].replay = c.replay /\ [c EXCEPT !.out = out].out = out
        /\ [c EXCEPT !.out = out].pc = c.pc
    BY <2>1 DEF ConnRow
  <2>6. d.replay = c.replay /\ d.out \in {c.out, out} /\ d.pc = c.pc
    BY <2>3, <2>5
  <2>7. Sending(d, client.last, lastId + 1)
    BY <2>2, <2>4, <2>6 DEF Sending
  <2> QED BY <2>7 DEF d
<1>6. client.last <= lastId + 1
  BY <1>1 DEF Ordered, ClientRow
<1> QED BY <1>2, <1>4, <1>5, <1>6 DEF Ordered, Reading

LEMMA AttachOrdered ==
    ASSUME Types, Ordered, Attach, lastId' = lastId
    PROVE  Ordered'
<1>1. /\ session \in [SessionIds -> SessionRow] /\ conn \in [Handlers -> ConnRow]
      /\ client \in ClientRow /\ lastId \in Nat /\ client.last \in Nat
  BY TypedRows DEF ClientRow
<1>2. PICK h \in Handlers :
              /\ client' = [client EXCEPT !.h = h]
              /\ \/ client.sid /= None /\ session[client.sid].exists /\ reattach(h, client.sid)
                 \/ fresh(h)
  BY Attaches
<1>3. client'.h = h /\ client'.last = client.last
  BY <1>1, <1>2 DEF ClientRow
<1>4. CASE client.sid /= None /\ session[client.sid].exists /\ reattach(h, client.sid)
  <2> DEFINE s == client.sid
             q == since(session[s].ring, client.last)
             e == session[s].epoch + 1
             g == Gapped(session[s].ring, client.last)
  <2>1. s \in SessionIds /\ session[s].ring \in Events /\ session[s] \in SessionRow
    BY <1>1, <1>4 DEF ClientRow, SessionRow, Events
  <2>2. q \in Events /\ InOrderSeq(q) /\ Within(q, client.last, lastId)
    BY <1>1, <2>1, SinceOrdered DEF Ordered
  <2>3. conn'[h] = Attached(s, e, q, g)
    BY <1>4 DEF reattach
  <2>4. /\ conn'[h].replay = q /\ conn'[h].out = <<>> /\ conn'[h].pc = "ready"
    BY <2>3 DEF Attached
  <2>5. \A x \in SessionIds : session'[x].ring = session[x].ring
    <3>1. session' = [session EXCEPT ![s] = [session[s] EXCEPT !.epoch = e,
                                                              !.att = h, !.detached = FALSE]]
      BY <1>4 DEF reattach
    <3> HIDE DEF s, e
    <3>2. [session[s] EXCEPT !.epoch = e, !.att = h, !.detached = FALSE].ring = session[s].ring
      BY <2>1 DEF SessionRow
    <3> QED BY <1>1, <2>1, <3>1, <3>2
  <2> HIDE DEF q
  <2>6. Sending(conn'[h], client.last, lastId)
    BY <2>2, <2>4, EmptyOrdered DEF Sending
  <2> QED BY <1>3, <2>5, <2>6 DEF Ordered, Reading
<1>5. CASE fresh(h)
  <2> DEFINE new == [NoSession EXCEPT !.exists = TRUE, !.att = h, !.epoch = 1]
  <2>1. uuidNew \in SessionIds
    BY <1>5, NewId DEF fresh, Unused
  <2>2. new.ring = <<>>
    BY EmptyRows, SessionWrites
  <2>3. session' = [session EXCEPT ![uuidNew] = new] /\ conn'[h] = Attached(uuidNew, 1, <<>>, FALSE)
    BY <1>1, <1>5 DEF fresh
  <2> HIDE DEF new
  <2>4. \A x \in SessionIds : session'[x].ring \in {session[x].ring, <<>>}
    BY <1>1, <2>1, <2>2, <2>3
  <2>5. Sending(conn'[h], client.last, lastId)
    BY <2>3, EmptyOrdered DEF Sending, Attached
  <2>6. \A x \in SessionIds : InOrderSeq(session'[x].ring) /\ Within(session'[x].ring, 0, lastId)
    BY <2>4, EmptyOrdered DEF Ordered
  <2> QED BY <1>3, <2>5, <2>6 DEF Ordered, Reading
<1> QED BY <1>2, <1>4, <1>5

\* The browser reads the first event of the replay, or of the channel once
\* the replay is over.
LEMMA FrameOrdered ==
    ASSUME Types, Ordered, NEW h \in Handlers, Replay(h) \/ SendOut(h), lastId' = lastId
    PROVE  Ordered'
<1>1. /\ session \in [SessionIds -> SessionRow] /\ conn \in [Handlers -> ConnRow]
      /\ client \in ClientRow /\ lastId \in Nat /\ client.last \in Nat
      /\ UNCHANGED session
  BY TypedRows DEF ClientRow, Replay, SendOut
<1> DEFINE c == conn[h]
           d == conn'[h]
<1>2. c \in ConnRow /\ c.replay \in Events /\ c.out \in Events
  BY <1>1 DEF ConnRow, Events
<1>3. CASE client.h /= h
  <2>1. UNCHANGED client /\ \A x \in Handlers \ {h} : conn'[x] = conn[x]
    BY <1>1, <1>3 DEF Replay, SendOut, Frame, Reads
  <2>2. client.h /= None => client.h \in Handlers \ {h}
    BY <1>1, <1>3 DEF ClientRow
  <2> QED BY <1>1, <2>1, <2>2, KeepsOrdered DEF SameQueue
<1>4. CASE client.h = h
  <2>1. h /= None /\ client.last <= lastId /\ Sending(c, client.last, lastId)
    BY <1>1, <1>4, BrokerAssumption DEF Ordered, Reading
  <2>2. CASE c.replay = <<>> /\ d = [c EXCEPT !.pc = "live"] /\ UNCHANGED client
    <3>1. SameQueue(c, d)
      BY <1>2, <2>2 DEF ConnRow, SameQueue
    <3> QED BY <1>1, <1>4, <2>2, <3>1, KeepsOrdered
  <2>3. ASSUME NEW q \in Events, q /= <<>>, InOrderSeq(q), Within(q, client.last, lastId),
               Frame(h, Head(q)), Sending(d, Head(q).id, lastId)
        PROVE  Ordered'
    <3>1. /\ client'.h = h /\ client'.last = Head(q).id /\ Head(q).id <= lastId
      BY <1>1, <1>4, <2>3, TailOrdered DEF Frame, Reads, ClientRow
    <3> QED BY <1>1, <2>3, <3>1 DEF Ordered, Reading
  <2>4. CASE c.replay /= <<>> /\ Frame(h, Head(c.replay))
                /\ d = [c EXCEPT !.replay = Tail(c.replay)] /\ c.pc = "replay"
    <3>1. /\ Tail(c.replay) \in Events /\ InOrderSeq(Tail(c.replay))
          /\ Within(Tail(c.replay), Head(c.replay).id, lastId)
          /\ Before(Tail(c.replay), c.out)
      BY <1>1, <1>2, <2>1, <2>4, TailOrdered DEF Sending
    <3>2. Within(c.out, Head(c.replay).id, lastId)
      BY <1>2, <2>1, <2>4, RaiseOrdered DEF Sending
    <3>3. d.replay = Tail(c.replay) /\ d.out = c.out /\ d.pc = "replay"
      BY <1>2, <2>4, <3>1, ConnWrites
    <3>4. Sending(d, Head(c.replay).id, lastId)
      BY <2>1, <3>1, <3>2, <3>3 DEF Sending
    <3> QED BY <1>2, <2>1, <2>3, <2>4, <3>4 DEF Sending
  <2>5. CASE c.out /= <<>> /\ Frame(h, Head(c.out))
                /\ d = [c EXCEPT !.out = Tail(c.out)] /\ c.pc = "live"
    <3>1. /\ Tail(c.out) \in Events /\ InOrderSeq(Tail(c.out))
          /\ Within(Tail(c.out), Head(c.out).id, lastId)
      BY <1>1, <1>2, <2>1, <2>5, TailOrdered DEF Sending
    <3>2. d.replay = c.replay /\ d.out = Tail(c.out) /\ c.replay = <<>>
      BY <1>2, <2>1, <2>5, <3>1, ConnWrites DEF Sending
    <3>3. Sending(d, Head(c.out).id, lastId)
      BY <3>1, <3>2, EmptyOrdered DEF Sending
    <3> QED BY <1>2, <2>1, <2>3, <2>5, <3>3 DEF Sending
  <2>6. \/ c.replay = <<>> /\ d = [c EXCEPT !.pc = "live"] /\ UNCHANGED client
        \/ c.replay /= <<>> /\ Frame(h, Head(c.replay))
              /\ d = [c EXCEPT !.replay = Tail(c.replay)] /\ c.pc = "replay"
        \/ c.out /= <<>> /\ Frame(h, Head(c.out))
              /\ d = [c EXCEPT !.out = Tail(c.out)] /\ c.pc = "live"
    BY <1>1 DEF Replay, SendOut
  <2> QED BY <2>2, <2>4, <2>5, <2>6
<1> QED BY <1>3, <1>4

LEMMA OrderedStep ==
    ASSUME Types, Held, Ordered, Next
    PROVE  Ordered'
<1>1. /\ session \in [SessionIds -> SessionRow] /\ conn \in [Handlers -> ConnRow]
      /\ client \in ClientRow
  BY TypedRows
<1>2. \A c \in ConnRow : SameQueue(c, c)
  BY DEF SameQueue
<1>3. client.h /= None => client.h \in Handlers
  BY <1>1 DEF ClientRow
<1>4. CASE emitAll
  BY <1>4, PublishOrdered
<1>5. CASE UNCHANGED <<session, conn, client, lastId>>
  BY <1>1, <1>2, <1>3, <1>5, KeepsOrdered
<1>6. CASE Network /\ Attach
  BY <1>6, AttachOrdered DEF Network, titleVars
<1>7. ASSUME NEW h \in Handlers, Network, Replay(h) \/ SendOut(h)
      PROVE  Ordered'
  BY <1>7, FrameOrdered DEF Network, titleVars
<1>8. CASE Drop \/ Restart
  <2>1. client'.h = None /\ client'.last = client.last
    BY <1>1, <1>8 DEF Drop, Restart, ClientRow
  <2>2. \A s \in SessionIds : session'[s].ring \in {session[s].ring, <<>>}
    BY <1>1, <1>8 DEF Drop, Restart, NoSession
  <2>3. lastId' = lastId \/ emitAll
    BY <1>8 DEF Next, Drop, Restart, Network, titleVars, Begin, Commit, Notify, Forget,
                flushPending, runSweep, Refetch
  <2> QED BY <1>4, <2>1, <2>2, <2>3, KeepsOrdered
<1>9. CASE sweep /\ Network
  <2>1. UNCHANGED <<conn, client, lastId>>
    BY <1>9 DEF sweep, Network, titleVars
  <2>2. \A s \in SessionIds : session'[s].ring \in {session[s].ring, <<>>}
    BY <1>1, <1>9 DEF sweep, NoSession
  <2> QED BY <1>1, <1>2, <1>3, <2>1, <2>2, KeepsOrdered
<1>10. ASSUME NEW h \in Handlers, Network, Ready(h) \/ ResumeGap(h) \/ Return(h)
       PROVE  Ordered'
  <2>1. /\ UNCHANGED <<session, lastId>>
        /\ client'.h = client.h /\ client'.last = client.last
    BY <1>1, <1>10 DEF Ready, ResumeGap, Return, Network, titleVars, ClientRow
  <2>2. \A x \in Handlers \ {h} : conn'[x] = conn[x]
    BY <1>1, <1>10 DEF Ready, ResumeGap, Return
  <2>3. /\ SameQueue(conn[h], conn'[h])
        /\ conn'[h].pc /= "live" \/ conn'[h].pc = conn[h].pc
    <3>1. CASE Ready(h)
      BY <1>1, <3>1 DEF Ready, ConnRow, SameQueue
    <3>2. CASE ResumeGap(h)
      BY <1>1, <3>2 DEF ResumeGap, ConnRow, SameQueue
    <3>3. CASE Return(h)
      BY <1>1, <3>3 DEF Return, ConnRow, SameQueue
    <3> QED BY <1>10, <3>1, <3>2, <3>3
  <2> QED BY <1>1, <1>2, <1>3, <2>1, <2>2, <2>3, KeepsOrdered
<1>11. ASSUME NEW h \in Handlers, Network, Cancel(h)
       PROVE  Ordered'
  <2>1. client'.h = (IF client.h = h THEN None ELSE client.h) /\ client'.last = client.last
    BY <1>1, <1>11 DEF Cancel, ClientRow
  <2>2. \A x \in Handlers \ {h} : conn'[x] \in {conn[x], [conn[x] EXCEPT !.closed = TRUE]}
    BY <1>11 DEF Cancel
  <2>3. \A x \in Handlers \ {h} : SameQueue(conn[x], conn'[x]) /\ conn'[x].pc = conn[x].pc
    <3>1. \A c \in ConnRow : LET d == [c EXCEPT !.closed = TRUE] IN
                              d.pc = c.pc /\ SameQueue(c, d)
      BY DEF ConnRow, SameQueue
    <3> QED BY <1>1, <1>2, <2>2, <3>1
  <2>4. \A s \in SessionIds : session'[s].ring = session[s].ring
    BY <1>1, <1>11 DEF Cancel, SessionRow
  <2> QED BY <1>3, <1>11, <2>1, <2>3, <2>4, KeepsOrdered DEF Network, titleVars
<1> QED BY <1>4, <1>5, <1>6, <1>7, <1>8, <1>9, <1>10, <1>11
        DEF Next, Network, Stream, titleVars, brokerVars, Begin, Commit, Notify, Forget,
            flushPending, runSweep, Refetch

-----------------------------------------------------------------------------
(***************************************************************************)
(* The theorems.                                                           *)
(***************************************************************************)
BrokerInv == Types /\ Held /\ Ordered

LEMMA BrokerInitial == Init => BrokerInv
<1> SUFFICES ASSUME Init
             PROVE  BrokerInv
  OBVIOUS
<1>1. /\ session = [s \in SessionIds |-> NoSession] /\ conn = [h \in Handlers |-> NoConn]
      /\ client = NoClient /\ stale = Titles /\ drops = 0 /\ lastId = 0
      /\ writer = NoWriter /\ pending = {} /\ batch = {}
  BY DEF Init, BrokerInit
<1>2. /\ session \in [SessionIds -> SessionRow] /\ conn \in [Handlers -> ConnRow]
      /\ client \in ClientRow
      /\ \A s \in SessionIds : session[s].ring = <<>>
      /\ \A h \in Handlers : conn[h].out = <<>>
  BY <1>1, EmptyRows DEF NoClient, ClientRow
<1>3. Types
  BY <1>1, <1>2, EmptyRows, BrokerAssumption
     DEF Types, BrokerTypeOK, SessionRow, ConnRow, ClientRow, NoWriter
<1>4. Held
  BY <1>1 DEF Held, Epochs, ReaderAttached, Present, NoSession, NoConn, NoClient
<1>5. Ordered
  BY <1>1, <1>2, EmptyOrdered DEF Ordered, Reading, NoClient
<1> QED BY <1>3, <1>4, <1>5 DEF BrokerInv

LEMMA BrokerInductive ==
    ASSUME BrokerInv, [Next]_vars
    PROVE  BrokerInv'
<1>1. CASE Next
  BY <1>1, TypedStep, HeldStep, OrderedStep DEF BrokerInv
<1>2. CASE UNCHANGED vars
  <2>1. UNCHANGED <<session, conn, client, stale, drops, lastId, pending, batch, writer>>
    BY <1>2 DEF vars, brokerVars, titleVars
  <2>2. Types'
    BY <2>1 DEF BrokerInv, Types, BrokerTypeOK
  <2>3. Held'
    BY <2>1 DEF BrokerInv, Held, Epochs, ReaderAttached, Present
  <2>4. Ordered'
    BY <2>1 DEF BrokerInv, Ordered, Reading
  <2> QED BY <2>2, <2>3, <2>4 DEF BrokerInv
<1> QED BY <1>1, <1>2

LEMMA BrokerInvariant == Spec => []BrokerInv
<1>1. BrokerInv /\ [Next]_vars => BrokerInv'
  BY BrokerInductive
<1> QED BY <1>1, BrokerInitial, PTL DEF Spec

\* The broker's and its handlers' variables keep their types: no ring grows
\* beyond its length and no channel beyond its capacity.
THEOREM BrokerTyped == Spec => []BrokerTypeOK
<1>1. BrokerInv => BrokerTypeOK
  BY DEF BrokerInv, Types
<1> QED BY <1>1, BrokerInvariant, PTL

\* "A stale handler's teardown can't kill a fresh connection" (Session.epoch in
\* sse/broker.go): whatever drops, takeovers, late returns, sweeps and restarts
\* came before, the stream that the browser reads is the one its session's
\* events go to.
THEOREM FreshSurvives == Spec => []FreshNotTornDown
<1>1. BrokerInv => FreshNotTornDown
  <2> SUFFICES ASSUME BrokerInv, NEW h \in Handlers, client.h = h
               PROVE  session[conn[h].sid].exists /\ session[conn[h].sid].att = h /\ ~conn[h].closed
    BY DEF FreshNotTornDown
  <2>1. h /= None
    BY BrokerAssumption
  <2> QED BY <2>1 DEF BrokerInv, Held, ReaderAttached
<1> QED BY <1>1, BrokerInvariant, PTL

\* The browser reads events in publish order and none twice, on a connection
\* and across the replays of its reconnects (sse/ring.go Since, http/handlers/
\* events.go).
THEOREM ReadInOrder == Spec => []InOrder
<1>1. BrokerInv => InOrder
  <2> SUFFICES ASSUME BrokerInv, NEW h \in Handlers, client.h = h, NEW i \in DOMAIN ToSend(h)
               PROVE  /\ ToSend(h)[i].id > client.last
                      /\ \A j \in 1..(i - 1) : ToSend(h)[j].id < ToSend(h)[i].id
    BY DEF InOrder
  <2> DEFINE p == conn[h].replay
             q == conn[h].out
             all == p \o q
  <2>1. p \in Events /\ q \in Events /\ client.last \in Nat
    BY TypedRows DEF BrokerInv, ConnRow, ClientRow, Events
  <2>2. Sending(conn[h], client.last, lastId)
    BY BrokerAssumption DEF BrokerInv, Ordered, Reading
  <2>3. /\ InOrderSeq(p) /\ InOrderSeq(q) /\ Before(p, q)
        /\ Within(p, client.last, lastId) /\ Within(q, client.last, lastId)
    BY <2>2 DEF Sending
  <2>4. all = ToSend(h)
    BY DEF ToSend
  <2> HIDE DEF p, q
  <2>5. /\ Len(p) \in Nat /\ Len(q) \in Nat /\ DOMAIN all = 1..(Len(p) + Len(q))
        /\ \A k \in 1..(Len(p) + Len(q)) :
              all[k] = IF k <= Len(p) THEN p[k] ELSE q[k - Len(p)]
    BY <2>1 DEF Events
  <2> HIDE DEF all
  <2>6. i \in 1..(Len(p) + Len(q))
    BY <2>4, <2>5
  <2>7. /\ \A k \in 1..Len(p) : p[k].id \in Nat
        /\ \A k \in 1..Len(q) : q[k].id \in Nat
    BY <2>1, EventAt
  <2>8. all[i].id > client.last
    <3>1. CASE i <= Len(p)
      BY <2>1, <2>3, <2>5, <2>6, <2>7, <3>1 DEF Within
    <3>2. CASE ~(i <= Len(p))
      <4>1. i - Len(p) \in 1..Len(q) /\ all[i] = q[i - Len(p)]
        BY <2>5, <2>6, <3>2
      <4> QED BY <2>1, <2>3, <2>7, <4>1 DEF Within
    <3> QED BY <3>1, <3>2
  <2>9. ASSUME NEW j \in 1..(i - 1)
        PROVE  all[j].id < all[i].id
    <3>1. j \in 1..(Len(p) + Len(q)) /\ j < i
      BY <2>5, <2>6
    <3>2. CASE i <= Len(p)
      <4>1. j \in 1..Len(p) /\ i \in 1..Len(p) /\ all[j] = p[j] /\ all[i] = p[i]
        BY <2>5, <2>6, <3>1, <3>2
      <4> QED BY <2>3, <3>1, <4>1 DEF InOrderSeq
    <3>3. CASE ~(i <= Len(p))
      <4>1. i - Len(p) \in 1..Len(q) /\ all[i] = q[i - Len(p)]
        BY <2>5, <2>6, <3>3
      <4>2. CASE j <= Len(p)
        BY <2>3, <2>5, <3>1, <4>1, <4>2 DEF Before
      <4>3. CASE ~(j <= Len(p))
        <5>1. /\ j - Len(p) \in 1..Len(q) /\ all[j] = q[j - Len(p)]
              /\ j - Len(p) < i - Len(p)
          BY <2>5, <2>6, <3>1, <4>3
        <5> QED BY <2>3, <4>1, <5>1 DEF InOrderSeq
      <4> QED BY <4>2, <4>3
    <3> QED BY <3>2, <3>3
  <2> QED BY <2>4, <2>8, <2>9
<1> QED BY <1>1, BrokerInvariant, PTL
=============================================================================
