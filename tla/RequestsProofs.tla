--------------------------- MODULE RequestsProofs ---------------------------
(***************************************************************************)
(* Who is on a tracking has a request that brought them there: for any     *)
(* users, titles, episodes and rows of the request table, and any number   *)
(* of requests served at a time.                                           *)
(*                                                                         *)
(* The statements of an operation on a request commit one by one and the   *)
(* writes of its status have no guard, so two operations on one request    *)
(* can undo each other: a withdrawal that read "approved" and writes       *)
(* "canceled" after the spawn leaves a requester whom no request backs.    *)
(* The theorem is therefore about the runs in which no two operations      *)
(* decide on the same request at once (Uncontended); operations on         *)
(* different requests, of the same user and title too, interleave freely.  *)
(***************************************************************************)
EXTENDS Requests, TLAPS

\* Between reading the status of a request and writing it.
Deciding == {"approve", "deny", "spawn", "withdraw", "leave"}

Uncontended ==
    \A p, q \in Handlers :
        proc[p].pc \in Deciding /\ proc[q].pc \in Deciding /\ proc[p].req = proc[q].req => p = q

\* What an operation is about.
Named ==
    \A p \in Processes :
        /\ proc[p].pc \in {"sync", "read", "write"} => proc[p].title \in Series
        /\ proc[p].pc \in Deciding \cup {"remove", "count", "cancel"} =>
              /\ p \in Handlers
              /\ proc[p].req \in Requests /\ req[proc[p].req] # NoRequest
              /\ proc[p].title = req[proc[p].req].title

\* The status that an operation has read is still the request's.
StillRead ==
    \A p \in Handlers :
        LET s == req[proc[p].req].status IN
        /\ proc[p].pc \in {"approve", "deny"} => s = "pending"
        /\ proc[p].pc = "withdraw" => s \in {"pending", "approved"}
        /\ proc[p].pc = "leave" => s = "spawned"

Typed == TypeOK /\ Named

IInv == Typed /\ StillRead /\ Backed

-----------------------------------------------------------------------------
LEMMA RowNotBlank ==
    ASSUME NEW c \in RequestRow
    PROVE  c # NoRequest
<1>1. c.status \in RequestStatus
  BY DEF RequestRow
<1>2. NoRequest.status = "absent"
  BY DEF NoRequest
<1> QED BY <1>1, <1>2 DEF RequestStatus

\* One row's status is written.
LEMMA StatusAfter ==
    ASSUME TypeOK, NEW r \in Requests, req[r] # NoRequest, NEW s \in RequestStatus,
           SetStatus(r, s)
    PROVE  /\ req' \in [Requests -> RequestRow \cup {NoRequest}]
           /\ req'[r].status = s /\ req'[r].user = req[r].user /\ req'[r].title = req[r].title
           /\ req'[r] # NoRequest
           /\ \A q \in Requests \ {r} : req'[q] = req[q]
<1>1. req[r] \in RequestRow /\ req \in [Requests -> RequestRow \cup {NoRequest}]
  BY DEF TypeOK
<1> DEFINE d == [req[r] EXCEPT !.status = s]
<1>2. req' = [req EXCEPT ![r] = d]
  BY DEF SetStatus
<1>3. d \in RequestRow /\ d.status = s /\ d.user = req[r].user /\ d.title = req[r].title
  BY <1>1 DEF RequestRow
<1> HIDE DEF d
<1> QED BY <1>1, <1>2, <1>3, RowNotBlank

LEMMA IdleTyped ==
    /\ Idle \in Process
    /\ Idle.pc = "idle"
  BY DEF Idle, Process, Steps

LEMMA RefreshTyped ==
    ASSUME NEW t \in Titles
    PROVE  LET d == [Idle EXCEPT !.pc = "sync", !.title = t] IN
           d \in Process /\ d.pc = "sync" /\ d.title = t
  BY DEF Idle, Process, Steps

\* The writes of an operation's record.
LEMMA GotoTyped ==
    ASSUME NEW c \in Process, NEW pc \in Steps
    PROVE  LET d == [c EXCEPT !.pc = pc] IN
           d \in Process /\ d.pc = pc /\ d.req = c.req /\ d.title = c.title
  BY DEF Process

LEMMA TodoTyped ==
    ASSUME NEW c \in Process, NEW w \in SUBSET (Movies \cup AllEpisodes)
    PROVE  LET d == [c EXCEPT !.todo = w] IN
           d \in Process /\ d.pc = c.pc /\ d.req = c.req /\ d.title = c.title
  BY DEF Process

LEMMA CancelTyped ==
    ASSUME NEW c \in Process, NEW w \in SUBSET (Movies \cup AllEpisodes)
    PROVE  LET d == [c EXCEPT !.pc = "cancel", !.todo = w] IN
           d \in Process /\ d.pc = "cancel" /\ d.req = c.req /\ d.title = c.title
  BY DEF Process, Steps

LEMMA WriteTyped ==
    ASSUME NEW c \in Process, NEW w \in SUBSET (Movies \cup AllEpisodes), NEW e \in SUBSET AllEpisodes
    PROVE  LET d == [c EXCEPT !.pc = "write", !.create = e, !.todo = w] IN
           d \in Process /\ d.pc = "write" /\ d.req = c.req /\ d.title = c.title
  BY DEF Process, Steps

\* The wants of a title.
LEMMA AtomsTyped ==
    ASSUME NEW t \in Titles
    PROVE  /\ Atoms(t) \subseteq Movies \cup AllEpisodes
           /\ LiveWants(t) \subseteq Movies \cup AllEpisodes
           /\ t \in Series => Episodes[t] \subseteq AllEpisodes
  BY TitlesAssumption DEF Atoms, LiveWants, Titles, AllEpisodes

\* The request that an operation is about.
LEMMA OperationRow ==
    ASSUME Typed, NEW p \in Processes,
           proc[p].pc \in Deciding \cup {"remove", "count", "cancel"}
    PROVE  /\ p \in Handlers /\ proc[p] \in Process
           /\ proc[p].req \in Requests /\ req[proc[p].req] # NoRequest
           /\ req[proc[p].req] \in RequestRow
           /\ proc[p].title = req[proc[p].req].title /\ proc[p].title \in Titles
<1>1. /\ p \in Handlers /\ proc[p].req \in Requests /\ req[proc[p].req] # NoRequest
      /\ proc[p].title = req[proc[p].req].title
  BY DEF Typed, Named
<1>2. proc[p] \in Process /\ req[proc[p].req] \in RequestRow
  BY <1>1 DEF Typed, TypeOK
<1> QED BY <1>1, <1>2 DEF RequestRow

LEMMA ServeAfter ==
    ASSUME Typed, NEW p \in Handlers, NEW pc \in Deciding, NEW r \in Requests, Serve(p, pc, r)
    PROVE  /\ proc[p].pc = "idle" /\ req[r] # NoRequest
           /\ proc' \in [Processes -> Process]
           /\ proc'[p].pc = pc /\ proc'[p].req = r /\ proc'[p].title = req[r].title
           /\ \A q \in Processes \ {p} : proc'[q] = proc[q]
<1>1. req[r] # NoRequest /\ req[r].title \in Titles
  BY DEF Serve, Typed, TypeOK, RequestRow
<1> DEFINE d == [Idle EXCEPT !.pc = pc, !.req = r, !.title = req[r].title]
<1>2. d \in Process /\ d.pc = pc /\ d.req = r /\ d.title = req[r].title
  <2>1. pc \in Steps
    BY DEF Deciding, Steps
  <2> QED BY <1>1, <2>1 DEF Idle, Process
<1>3. proc' = [proc EXCEPT ![p] = d] /\ proc[p].pc = "idle" /\ p \in Processes
  BY DEF Serve, Processes
<1> HIDE DEF d
<1> QED BY <1>1, <1>2, <1>3 DEF Typed, TypeOK

LEMMA CreateAfter ==
    ASSUME Typed, NEW p \in Handlers, NEW u \in Users, NEW t \in Titles, NEW rule \in Rules,
           NEW auto \in BOOLEAN, Create(p, u, t, rule, auto)
    PROVE  /\ proc[p].pc = "idle" /\ proc' \in [Processes -> Process]
           /\ req' \in [Requests -> RequestRow \cup {NoRequest}]
           /\ \E r \in Requests :
                 /\ req[r] = NoRequest /\ req'[r] # NoRequest /\ req'[r].title = t
                 /\ \A q \in Requests \ {r} : req'[q] = req[q]
                 /\ \/ proc' = proc
                    \/ /\ proc'[p].pc = "spawn" /\ proc'[p].req = r /\ proc'[p].title = t
                       /\ \A q \in Processes \ {p} : proc'[q] = proc[q]
<1>1. PICK r \in Requests :
        /\ req[r] = NoRequest
        /\ req' = [req EXCEPT ![r] = [status |-> IF auto THEN "approved" ELSE "pending",
                                      user |-> u, title |-> t, rule |-> rule]]
        /\ proc' = IF auto
                   THEN [proc EXCEPT ![p] = [Idle EXCEPT !.pc = "spawn", !.req = r,
                                                         !.title = t]]
                   ELSE proc
  BY DEF Create
<1> DEFINE c == [status |-> IF auto THEN "approved" ELSE "pending",
                 user |-> u, title |-> t, rule |-> rule]
           d == [Idle EXCEPT !.pc = "spawn", !.req = r, !.title = t]
<1>2. c \in RequestRow /\ c.title = t /\ c # NoRequest
  <2>1. c \in RequestRow /\ c.title = t
    BY DEF RequestRow, RequestStatus
  <2> QED BY <2>1, RowNotBlank
<1>3. d \in Process /\ d.pc = "spawn" /\ d.req = r /\ d.title = t
  <2>1. "spawn" \in Steps
    BY DEF Steps
  <2> QED BY <2>1 DEF Idle, Process
<1>4. req' = [req EXCEPT ![r] = c] /\ proc' \in {proc, [proc EXCEPT ![p] = d]} /\ p \in Processes
      /\ proc[p].pc = "idle"
  BY <1>1 DEF Processes, Create
<1> HIDE DEF c, d
<1>5. /\ req \in [Requests -> RequestRow \cup {NoRequest}] /\ proc \in [Processes -> Process]
  BY DEF Typed, TypeOK
<1>6. /\ req' \in [Requests -> RequestRow \cup {NoRequest}] /\ req'[r] = c
      /\ \A q \in Requests \ {r} : req'[q] = req[q]
  BY <1>2, <1>4, <1>5
<1>7. /\ proc' \in [Processes -> Process]
      /\ \/ proc' = proc
         \/ proc'[p] = d /\ \A q \in Processes \ {p} : proc'[q] = proc[q]
  BY <1>3, <1>4, <1>5
<1> QED BY <1>1, <1>2, <1>3, <1>4, <1>6, <1>7

LEMMA GotoAfter ==
    ASSUME Typed, NEW p \in Processes, NEW pc \in Steps, Goto(p, pc)
    PROVE  /\ proc' \in [Processes -> Process]
           /\ proc'[p].pc = pc /\ proc'[p].req = proc[p].req /\ proc'[p].title = proc[p].title
           /\ \A q \in Processes \ {p} : proc'[q] = proc[q]
<1> DEFINE d == [proc[p] EXCEPT !.pc = pc]
<1>1. proc \in [Processes -> Process] /\ proc' = [proc EXCEPT ![p] = d]
  BY DEF Typed, TypeOK, Goto
<1>2. d \in Process /\ d.pc = pc /\ d.req = proc[p].req /\ d.title = proc[p].title
  BY <1>1 DEF Process
<1> HIDE DEF d
<1> QED BY <1>1, <1>2

LEMMA DoneAfter ==
    ASSUME Typed, NEW p \in Processes, Done(p)
    PROVE  /\ proc' \in [Processes -> Process]
           /\ proc'[p].pc = "idle"
           /\ \A q \in Processes \ {p} : proc'[q] = proc[q]
  BY IdleTyped DEF Typed, TypeOK, Done

\* One user's scope rule is written.
LEMMA ScopeAfter ==
    ASSUME TypeOK, NEW t \in Titles, NEW u \in Users, NEW c \in Rules \cup {"none"},
           scope' = [scope EXCEPT ![t][u] = c]
    PROVE  /\ scope' \in [Titles -> [Users -> Rules \cup {"none"}]]
           /\ scope'[t][u] = c
           /\ \A x \in Titles, v \in Users :
                 x # t \/ v # u => scope'[x][v] = scope[x][v]
<1> DEFINE row == [scope[t] EXCEPT ![u] = c]
<1>1. scope \in [Titles -> [Users -> Rules \cup {"none"}]] /\ scope' = [scope EXCEPT ![t] = row]
  BY DEF TypeOK
<1>2. row \in [Users -> Rules \cup {"none"}] /\ row[u] = c /\ \A v \in Users \ {u} : row[v] = scope[t][v]
  BY <1>1
<1> HIDE DEF row
<1> QED BY <1>1, <1>2

-----------------------------------------------------------------------------
(***************************************************************************)
(* Types.                                                                  *)
(***************************************************************************)
\* Only p moves, to a step whose record names what it must.
LEMMA NamedKept ==
    ASSUME Typed, NEW p \in Processes,
           \A q \in Processes \ {p} : proc'[q] = proc[q],
           \A r \in Requests : req[r] # NoRequest =>
              req'[r] # NoRequest /\ req'[r].title = req[r].title,
           proc'[p].pc \in {"sync", "read", "write"} => proc'[p].title \in Series,
           proc'[p].pc \in Deciding \cup {"remove", "count", "cancel"} =>
              /\ p \in Handlers
              /\ proc'[p].req \in Requests /\ req'[proc'[p].req] # NoRequest
              /\ proc'[p].title = req'[proc'[p].req].title
    PROVE  Named'
<1> SUFFICES ASSUME NEW q \in Processes
             PROVE  /\ proc'[q].pc \in {"sync", "read", "write"} => proc'[q].title \in Series
                    /\ proc'[q].pc \in Deciding \cup {"remove", "count", "cancel"} =>
                          /\ q \in Handlers
                          /\ proc'[q].req \in Requests /\ req'[proc'[q].req] # NoRequest
                          /\ proc'[q].title = req'[proc'[q].req].title
  BY DEF Named, Processes, Requests, Deciding
<1>1. CASE q = p
  BY <1>1
<1>2. CASE q # p
  BY <1>2 DEF Typed, Named
<1> QED BY <1>1, <1>2

LEMMA TypedInit == Init => Typed
  BY IdleTyped, TitlesAssumption
  DEF Init, Typed, TypeOK, Named, WantState, Deciding

\* A handler begins to serve: the statements are still ahead.
LEMMA TypedAsk ==
    ASSUME Typed, NEW p \in Handlers, Ask(p)
    PROVE  Typed'
<1> p \in Processes
  BY DEF Processes
<1>1. ASSUME NEW u \in Users, NEW t \in Titles, NEW rule \in Rules, NEW auto \in BOOLEAN,
             Create(p, u, t, rule, auto)
      PROVE  Typed'
  <2>1. /\ proc[p].pc = "idle" /\ proc' \in [Processes -> Process]
        /\ req' \in [Requests -> RequestRow \cup {NoRequest}]
    BY <1>1, CreateAfter
  <2>2. PICK r \in Requests :
           /\ req[r] = NoRequest /\ req'[r] # NoRequest /\ req'[r].title = t
           /\ \A q \in Requests \ {r} : req'[q] = req[q]
           /\ \/ proc' = proc
              \/ /\ proc'[p].pc = "spawn" /\ proc'[p].req = r /\ proc'[p].title = t
                 /\ \A q \in Processes \ {p} : proc'[q] = proc[q]
    BY <1>1, CreateAfter
  <2>3. \A q \in Requests : req[q] # NoRequest => req'[q] # NoRequest /\ req'[q].title = req[q].title
    BY <2>2
  <2>4. Named'
    BY <2>1, <2>2, <2>3, NamedKept DEF Deciding
  <2>5. TypeOK'
    BY <1>1, <2>1 DEF Typed, TypeOK, Create
  <2> QED BY <2>4, <2>5 DEF Typed
<1>2. ASSUME NEW pc \in Deciding, NEW r \in Requests, Serve(p, pc, r),
             UNCHANGED <<req, tracking, scope, want, tree, files, crashes>>
      PROVE  Typed'
  <2>1. /\ proc[p].pc = "idle" /\ req[r] # NoRequest
        /\ proc' \in [Processes -> Process]
        /\ proc'[p].pc = pc /\ proc'[p].req = r /\ proc'[p].title = req[r].title
        /\ \A q \in Processes \ {p} : proc'[q] = proc[q]
    BY <1>2, ServeAfter
  <2>2. Named'
    BY <1>2, <2>1, NamedKept DEF Deciding
  <2> QED BY <1>2, <2>1, <2>2 DEF Typed, TypeOK
<1>3. ASSUME NEW r \in Requests, Approve(p, r) \/ Deny(p, r) \/ Cancel(p, r)
      PROVE  Typed'
  BY <1>2, <1>3 DEF Approve, Deny, Cancel, Deciding
<1> QED BY <1>1, <1>3 DEF Ask

LEMMA TypedDecide ==
    ASSUME Typed, NEW p \in Handlers, Decide(p)
    PROVE  Typed'
<1> p \in Processes
  BY DEF Processes
<1> DEFINE r == proc[p].req
           t == proc[p].title
<1>0. /\ proc[p] \in Process /\ TypeOK
      /\ proc[p].pc \in Deciding \cup {"remove", "count", "cancel"} =>
            /\ r \in Requests /\ req[r] # NoRequest /\ req[r] \in RequestRow
            /\ t = req[r].title /\ t \in Titles
  BY OperationRow DEF Typed, TypeOK
<1> HIDE DEF r, t
\* The status of a request is written, and the handler goes on or is done.
<1>1. ASSUME proc[p].pc \in Deciding, NEW c \in RequestStatus, SetStatus(r, c),
             \/ Done(p)
             \/ \E pc \in {"spawn", "remove", "sync"} :
                   Goto(p, pc) /\ (pc = "sync" => t \in Series)
      PROVE  /\ Named' /\ proc' \in [Processes -> Process]
             /\ req' \in [Requests -> RequestRow \cup {NoRequest}]
  <2>1. /\ req' \in [Requests -> RequestRow \cup {NoRequest}]
        /\ \A q \in Requests : req[q] # NoRequest => req'[q] # NoRequest /\ req'[q].title = req[q].title
    BY <1>0, <1>1, StatusAfter
  <2>2. CASE Done(p)
    BY <1>1, <2>1, <2>2, DoneAfter, NamedKept DEF Deciding
  <2>3. ASSUME NEW pc \in {"spawn", "remove", "sync"}, Goto(p, pc), pc = "sync" => t \in Series
        PROVE  Named' /\ proc' \in [Processes -> Process]
    <3>1. pc \in Steps
      BY DEF Steps
    <3>2. /\ proc' \in [Processes -> Process]
          /\ proc'[p].pc = pc /\ proc'[p].req = r /\ proc'[p].title = t
          /\ \A q \in Processes \ {p} : proc'[q] = proc[q]
      BY <2>3, <3>1, GotoAfter DEF r, t
    <3> QED BY <1>0, <1>1, <2>1, <2>3, <3>2, NamedKept DEF Deciding
  <2> QED BY <1>1, <2>1, <2>2, <2>3
\* No row is written, and the handler goes on with its record or is done.
<1>2. ASSUME req' = req, proc' \in [Processes -> Process],
             \A q \in Processes \ {p} : proc'[q] = proc[q],
             \/ proc'[p].pc = "idle"
             \/ /\ proc[p].pc \in {"remove", "count", "cancel"}
                /\ proc'[p].pc \in {"count", "cancel"}
                /\ proc'[p].req = r /\ proc'[p].title = t
      PROVE  Named'
  BY <1>0, <1>2, NamedKept DEF Deciding, r, t
<1>3. CASE SetRequestApproved(p)
  <2>1. Named' /\ proc' \in [Processes -> Process] /\ req' \in [Requests -> RequestRow \cup {NoRequest}]
    BY <1>1, <1>3 DEF SetRequestApproved, Deciding, RequestStatus, r
  <2> QED BY <1>0, <1>3, <2>1 DEF SetRequestApproved, Typed, TypeOK
<1>4. CASE SetRequestDenied(p)
  <2>1. Named' /\ proc' \in [Processes -> Process] /\ req' \in [Requests -> RequestRow \cup {NoRequest}]
    BY <1>1, <1>4 DEF SetRequestDenied, Deciding, RequestStatus, r
  <2> QED BY <1>0, <1>4, <2>1 DEF SetRequestDenied, Typed, TypeOK
<1>5. CASE SetRequestCanceled(p)
  <2>1. Named' /\ proc' \in [Processes -> Process] /\ req' \in [Requests -> RequestRow \cup {NoRequest}]
    BY <1>1, <1>5 DEF SetRequestCanceled, Deciding, RequestStatus, r
  <2> QED BY <1>0, <1>5, <2>1 DEF SetRequestCanceled, Typed, TypeOK
<1>6. CASE SpawnFails(p)
  <2>1. Named' /\ proc' \in [Processes -> Process]
    BY <1>2, <1>6, DoneAfter DEF SpawnFails
  <2> QED BY <1>0, <1>6, <2>1 DEF SpawnFails, Typed, TypeOK
<1>7. ASSUME proc[p].pc \in Deciding, Join(r)
      PROVE  scope' \in [Titles -> [Users -> Rules \cup {"none"}]]
  <2>1. /\ req[r].title \in Titles /\ req[r].user \in Users /\ req[r].rule \in Rules
    BY <1>0, <1>7 DEF RequestRow
  <2> QED BY <1>0, <1>7, <2>1, ScopeAfter DEF Join
<1>8. CASE SpawnMovie(p)
  <2>1. Named' /\ proc' \in [Processes -> Process] /\ req' \in [Requests -> RequestRow \cup {NoRequest}]
    BY <1>1, <1>8 DEF SpawnMovie, Deciding, RequestStatus, r
  <2>2. scope' \in [Titles -> [Users -> Rules \cup {"none"}]]
    BY <1>7, <1>8 DEF SpawnMovie, Deciding, r
  <2>3. tracking' \in [Titles -> {"none", "active", "paused", "canceled"}]
    BY <1>0, <1>8 DEF SpawnMovie, TypeOK
  <2>4. want' \in [Movies \cup AllEpisodes -> WantState]
    BY <1>0, <1>8 DEF SpawnMovie, TypeOK, WantState
  <2> QED BY <1>0, <1>8, <2>1, <2>2, <2>3, <2>4 DEF SpawnMovie, Typed, TypeOK
<1>9. CASE SpawnSeries(p)
  <2>1. Named' /\ proc' \in [Processes -> Process] /\ req' \in [Requests -> RequestRow \cup {NoRequest}]
    BY <1>1, <1>9 DEF SpawnSeries, Deciding, RequestStatus, r, t
  <2>2. scope' \in [Titles -> [Users -> Rules \cup {"none"}]]
    BY <1>7, <1>9 DEF SpawnSeries, Deciding, r
  <2>3. tracking' \in [Titles -> {"none", "active", "paused", "canceled"}]
    BY <1>0, <1>9 DEF SpawnSeries, TypeOK
  <2> QED BY <1>0, <1>9, <2>1, <2>2, <2>3 DEF SpawnSeries, Typed, TypeOK
<1>10. CASE RemoveRequester(p)
  <2>1. /\ proc' \in [Processes -> Process]
        /\ proc'[p].pc = "count" /\ proc'[p].req = r /\ proc'[p].title = t
        /\ \A q \in Processes \ {p} : proc'[q] = proc[q]
    <3>1. "count" \in Steps
      BY DEF Steps
    <3> QED BY <1>10, <3>1, GotoAfter DEF RemoveRequester, r, t
  <2>2. Named'
    BY <1>2, <1>10, <2>1 DEF RemoveRequester
  <2>3. scope' \in [Titles -> [Users -> Rules \cup {"none"}]]
    <3>1. req[r].title \in Titles /\ req[r].user \in Users
      BY <1>0, <1>10 DEF RequestRow, RemoveRequester
    <3>2. scope' = [scope EXCEPT ![req[r].title][req[r].user] = "none"]
      BY <1>10 DEF RemoveRequester, r
    <3> QED BY <1>0, <3>1, <3>2, ScopeAfter
  <2> QED BY <1>0, <1>10, <2>1, <2>2, <2>3 DEF RemoveRequester, Typed, TypeOK
<1>11. CASE CountRemaining(p)
  <2>1. proc' \in [Processes -> Process] /\ Named'
    <3>1. CASE Requesters(t) # {}
      BY <1>2, <1>11, <3>1, DoneAfter DEF CountRemaining, t
    <3>2. CASE Requesters(t) = {}
      <4> DEFINE d == [proc[p] EXCEPT !.pc = "cancel", !.todo = LiveWants(t)]
      <4>1. proc' = [proc EXCEPT ![p] = d] /\ proc[p].pc = "count"
        BY <1>11, <3>2 DEF CountRemaining, t
      <4>2. LiveWants(t) \in SUBSET (Movies \cup AllEpisodes)
        BY <1>0, <4>1, AtomsTyped
      <4>3. d \in Process /\ d.pc = "cancel" /\ d.req = r /\ d.title = t
        BY <1>0, <4>2 DEF Process, Steps, r, t
      <4> HIDE DEF d
      <4> QED BY <1>0, <1>2, <1>11, <4>1, <4>3 DEF TypeOK, CountRemaining
    <3> QED BY <3>1, <3>2
  <2> QED BY <1>0, <1>11, <2>1 DEF CountRemaining, Typed, TypeOK
<1>12. ASSUME NEW w \in proc[p].todo, CancelWant(p, w)
       PROVE  Typed'
  <2>1. w \in Movies \cup AllEpisodes /\ t \in Titles /\ proc[p].pc = "cancel"
    BY <1>0, <1>12 DEF Process, CancelWant
  <2>2. proc' \in [Processes -> Process] /\ Named'
    <3>1. CASE want[w] \notin {"live", "canceled"}
      BY <1>2, <1>12, <3>1, DoneAfter DEF CancelWant
    <3>2. CASE want[w] \in {"live", "canceled"}
      <4> DEFINE d == [proc[p] EXCEPT !.todo = proc[p].todo \ {w}]
      <4>1. proc' = [proc EXCEPT ![p] = d]
        BY <1>0, <1>12, <3>2 DEF CancelWant, TypeOK
      <4>2. d \in Process /\ d.pc = "cancel" /\ d.req = r /\ d.title = t
        BY <1>0, <2>1 DEF Process, r, t
      <4> HIDE DEF d
      <4> QED BY <1>0, <1>2, <1>12, <2>1, <4>1, <4>2 DEF TypeOK, CancelWant
    <3> QED BY <3>1, <3>2
  <2>3. want' \in [Movies \cup AllEpisodes -> WantState]
    BY <1>0, <1>12 DEF CancelWant, TypeOK, WantState
  <2>4. tracking' \in [Titles -> {"none", "active", "paused", "canceled"}]
    BY <1>0, <1>12 DEF CancelWant, TypeOK
  <2> QED BY <1>0, <1>12, <2>2, <2>3, <2>4 DEF CancelWant, Typed, TypeOK
<1>13. CASE SetTrackingState(p)
  <2>1. proc' \in [Processes -> Process] /\ Named'
    BY <1>2, <1>13, DoneAfter DEF SetTrackingState
  <2>2. tracking' \in [Titles -> {"none", "active", "paused", "canceled"}]
    BY <1>0, <1>13 DEF SetTrackingState, TypeOK
  <2> QED BY <1>0, <1>13, <2>1, <2>2 DEF SetTrackingState, Typed, TypeOK
<1> QED BY <1>3, <1>4, <1>5, <1>6, <1>8, <1>9, <1>10, <1>11, <1>12, <1>13 DEF Decide

LEMMA TypedReconcile ==
    ASSUME Typed, NEW p \in Processes, Reconcile(p)
    PROVE  Typed'
<1> DEFINE t == proc[p].title
<1>0. proc[p] \in Process /\ TypeOK /\ (proc[p].pc \in {"sync", "read", "write"} => t \in Series)
  BY DEF Typed, TypeOK, Named
<1> HIDE DEF t
<1>1. ASSUME req' = req, proc' \in [Processes -> Process],
             \A q \in Processes \ {p} : proc'[q] = proc[q],
             \/ proc'[p].pc = "idle"
             \/ /\ proc[p].pc \in {"sync", "read"} /\ proc'[p].pc \in {"read", "write"}
                /\ proc'[p].title = t
      PROVE  Named'
  BY <1>0, <1>1, NamedKept DEF Deciding
<1>2. CASE SyncSeriesStructure(p)
  <2>1. proc' \in [Processes -> Process] /\ Named'
    <3>1. CASE tracking[t] = "none"
      BY <1>1, <1>2, <3>1, DoneAfter DEF SyncSeriesStructure, t
    <3>2. CASE tracking[t] # "none"
      <4>1. "read" \in Steps
        BY DEF Steps
      <4> QED BY <1>1, <1>2, <3>2, <4>1, GotoAfter DEF SyncSeriesStructure, t
    <3> QED BY <3>1, <3>2
  <2>2. tree' \subseteq AllEpisodes
    <3>1. t \in Series /\ Episodes[t] \subseteq AllEpisodes
      BY <1>0, <1>2 DEF SyncSeriesStructure, AllEpisodes
    <3> QED BY <1>0, <1>2, <3>1 DEF SyncSeriesStructure, TypeOK, t
  <2> QED BY <1>0, <1>2, <2>1, <2>2 DEF SyncSeriesStructure, Typed, TypeOK
<1>3. CASE ReadScope(p)
  <2> DEFINE e == Missing(t) \ LiveWants(t)
             w == LiveWants(t) \ EffectiveInScope(t)
             d == [proc[p] EXCEPT !.pc = "write", !.create = e, !.todo = w]
  <2>1. t \in Series /\ t \in Titles
    BY <1>0, <1>3 DEF ReadScope, Titles
  <2>2. e \in SUBSET AllEpisodes
    BY <2>1 DEF Missing, EffectiveInScope, Listed, AllEpisodes
  <2>3. w \in SUBSET (Movies \cup AllEpisodes)
    BY <2>1, AtomsTyped
  <2>4. proc' = [proc EXCEPT ![p] = d] /\ proc[p].pc = "read"
    BY <1>3 DEF ReadScope, t
  <2> HIDE DEF e, w
  <2>5. d \in Process /\ d.pc = "write" /\ d.title = t
    BY <1>0, <2>2, <2>3 DEF Process, Steps, t
  <2> HIDE DEF d
  <2>6. proc' \in [Processes -> Process] /\ proc'[p] = d /\ \A q \in Processes \ {p} : proc'[q] = proc[q]
    BY <1>0, <2>4, <2>5 DEF TypeOK
  <2>7. Named'
    BY <1>1, <1>3, <2>4, <2>5, <2>6 DEF ReadScope
  <2> QED BY <1>0, <1>3, <2>6, <2>7 DEF ReadScope, Typed, TypeOK
<1>4. CASE WriteWants(p)
  <2>1. proc' \in [Processes -> Process] /\ Named'
    BY <1>1, <1>4, DoneAfter DEF WriteWants
  <2>2. want' \in [Movies \cup AllEpisodes -> WantState]
    BY <1>0, <1>4 DEF WriteWants, TypeOK, WantState
  <2> QED BY <1>0, <1>4, <2>1, <2>2 DEF WriteWants, Typed, TypeOK
<1> QED BY <1>2, <1>3, <1>4 DEF Reconcile

LEMMA TypedStep ==
    ASSUME Typed, [Next]_vars
    PROVE  Typed'
<1>1. ASSUME NEW p \in Handlers, Ask(p) \/ Decide(p)
      PROVE  Typed'
  BY <1>1, TypedAsk, TypedDecide
<1>2. ASSUME NEW p \in Processes, Reconcile(p)
      PROVE  Typed'
  BY <1>2, TypedReconcile
<1>3. ASSUME NEW t \in Series, Refresh(t)
      PROVE  Typed'
  <2> DEFINE d == [Idle EXCEPT !.pc = "sync", !.title = t]
  <2>1. d \in Process /\ d.pc = "sync" /\ d.title = t /\ Enricher \in Processes
    BY DEF Idle, Process, Steps, Titles, Processes
  <2>2. proc' = [proc EXCEPT ![Enricher] = d]
    BY <1>3 DEF Refresh
  <2> HIDE DEF d
  <2>3. /\ proc' \in [Processes -> Process] /\ proc'[Enricher] = d
        /\ \A q \in Processes \ {Enricher} : proc'[q] = proc[q]
    BY <2>1, <2>2 DEF Typed, TypeOK
  <2>4. Named'
    BY <1>3, <2>1, <2>3, NamedKept DEF Refresh, Deciding
  <2> QED BY <1>3, <2>3, <2>4 DEF Refresh, Typed, TypeOK
<1>4. ASSUME NEW w \in DOMAIN want, Acquire(w)
      PROVE  Typed'
  BY <1>4 DEF Acquire, Typed, TypeOK, Named, WantState
<1>5. ASSUME NEW e \in AllEpisodes, ScanFile(e)
      PROVE  Typed'
  BY <1>5 DEF ScanFile, Typed, TypeOK, Named
<1>6. CASE Crash
  <2>1. crashes' \in 0..MaxCrashes
    BY <1>6, TitlesAssumption DEF Crash, Typed, TypeOK
  <2>2. proc' \in [Processes -> Process] /\ Named'
    BY <1>6, IdleTyped DEF Crash, Named, Deciding
  <2> QED BY <1>6, <2>1, <2>2 DEF Crash, Typed, TypeOK
<1>7. CASE UNCHANGED vars
  BY <1>7 DEF vars, Typed, TypeOK, Named
<1> QED BY <1>1, <1>2, <1>3, <1>4, <1>5, <1>6, <1>7 DEF Next

\* The state keeps its types, and an operation is about a request and a
\* title that exist, however the operations interleave.
THEOREM RequestsTyped == Spec => []TypeOK
<1>1. Init => Typed
  BY TypedInit
<1>2. Typed /\ [Next]_vars => Typed'
  BY TypedStep
<1>3. Typed => TypeOK
  BY DEF Typed
<1> QED BY <1>1, <1>2, <1>3, PTL DEF Spec

-----------------------------------------------------------------------------
(***************************************************************************)
(* Who is on a tracking.                                                   *)
(***************************************************************************)
\* The request that keeps its user on the tracking, or did until just now.
Justifies(r) ==
    /\ req[r] # NoRequest
    /\ \/ req[r].status = "spawned"
       \/ \E p \in Handlers : proc[p].req = r /\ proc[p].pc = "remove"

About(r, u, t) == req[r].user = u /\ req[r].title = t

LEMMA BackedBy ==
    Backed <=> (crashes = 0 =>
                \A t \in Titles : \A u \in Requesters(t) : \E r \in Requests :
                   Justifies(r) /\ About(r, u, t))
  BY DEF Backed, Justifies, About

\* Nobody joins but with a request that justifies it, and a request that
\* justified someone goes on doing so, or they leave.
LEMMA BackedKept ==
    ASSUME Backed, crashes' = 0 => crashes = 0,
           \A t \in Titles : \A u \in Requesters(t)' :
              \/ \E r \in Requests : Justifies(r)' /\ About(r, u, t)'
              \/ /\ u \in Requesters(t)
                 /\ \A r \in Requests : Justifies(r) /\ About(r, u, t) => Justifies(r)' /\ About(r, u, t)'
    PROVE  Backed'
<1> SUFFICES ASSUME crashes' = 0, NEW t \in Titles, NEW u \in Requesters(t)'
             PROVE  \E r \in Requests : Justifies(r)' /\ About(r, u, t)'
  BY DEF Backed, Justifies, About
<1>1. CASE \E r \in Requests : Justifies(r)' /\ About(r, u, t)'
  BY <1>1
<1>2. CASE /\ u \in Requesters(t)
           /\ \A r \in Requests : Justifies(r) /\ About(r, u, t) => Justifies(r)' /\ About(r, u, t)'
  <2>1. PICK r \in Requests : Justifies(r) /\ About(r, u, t)
    BY <1>2, BackedBy
  <2> QED BY <1>2, <2>1
<1> QED BY <1>1, <1>2

\* No row changes, nobody begins to decide, and no withdrawal ends.
Quiet ==
    /\ req' = req
    /\ \A p \in Handlers :
          \/ proc'[p] = proc[p]
          \/ /\ proc'[p].pc \notin {"approve", "deny", "withdraw", "leave"}
             /\ proc[p].pc # "remove"

LEMMA QuietStep ==
    ASSUME IInv, Quiet, scope' = scope, crashes' = 0 => crashes = 0
    PROVE  StillRead' /\ Backed'
<1>1. StillRead'
  BY DEF IInv, StillRead, Quiet
<1>2. \A r \in Requests : \A u, t : Justifies(r) /\ About(r, u, t) => Justifies(r)' /\ About(r, u, t)'
  BY DEF Quiet, Justifies, About
<1>3. \A t \in Titles : Requesters(t)' = Requesters(t)
  BY DEF Requesters
<1> QED BY <1>1, <1>2, <1>3, BackedKept DEF IInv

\* A handler takes up a request, whose status it has just read.
LEMMA AskStep ==
    ASSUME IInv, NEW p \in Handlers, Ask(p)
    PROVE  StillRead' /\ Backed'
<1> p \in Processes
  BY DEF Processes
<1>1. ASSUME NEW u \in Users, NEW t \in Titles, NEW rule \in Rules, NEW auto \in BOOLEAN,
             Create(p, u, t, rule, auto)
      PROVE  StillRead' /\ Backed'
  <2>1. proc[p].pc = "idle" /\ scope' = scope /\ crashes' = crashes
    BY <1>1 DEF Create
  <2>2. PICK r \in Requests :
           /\ req[r] = NoRequest /\ req'[r] # NoRequest /\ req'[r].title = t
           /\ \A q \in Requests \ {r} : req'[q] = req[q]
           /\ \/ proc' = proc
              \/ /\ proc'[p].pc = "spawn" /\ proc'[p].req = r /\ proc'[p].title = t
                 /\ \A q \in Processes \ {p} : proc'[q] = proc[q]
    BY <1>1, CreateAfter DEF IInv
  <2>3. \A q \in Handlers : q \in Processes
    BY DEF Processes
  <2>4. \A q \in Handlers : proc'[q].pc \in {"approve", "deny", "withdraw", "leave", "remove"} =>
           proc'[q] = proc[q]
    BY <2>2, <2>3
  <2>5. \A q \in Handlers : proc[q].pc \in {"approve", "deny", "withdraw", "leave", "remove"} =>
           /\ proc'[q] = proc[q] /\ req'[proc[q].req] = req[proc[q].req]
    <3> SUFFICES ASSUME NEW q \in Handlers,
                        proc[q].pc \in {"approve", "deny", "withdraw", "leave", "remove"}
                 PROVE  proc'[q] = proc[q] /\ req'[proc[q].req] = req[proc[q].req]
      OBVIOUS
    <3>1. proc[q].req \in Requests /\ req[proc[q].req] # NoRequest
      BY <2>3, OperationRow DEF IInv, Deciding
    <3>2. q # p
      BY <2>1
    <3> QED BY <2>2, <2>3, <3>1, <3>2
  <2>6. StillRead'
    BY <2>4, <2>5 DEF IInv, StillRead
  <2>7. \A q \in Requests : \A v, x : Justifies(q) /\ About(q, v, x) => Justifies(q)' /\ About(q, v, x)'
    <3> SUFFICES ASSUME NEW q \in Requests, Justifies(q)
                 PROVE  Justifies(q)' /\ req'[q] = req[q]
      BY DEF About
    <3>1. req'[q] = req[q] /\ req[q] # NoRequest
      BY <2>2 DEF Justifies
    <3> QED BY <2>5, <3>1 DEF Justifies
  <2>8. \A x \in Titles : Requesters(x)' = Requesters(x)
    BY <2>1 DEF Requesters
  <2> QED BY <2>1, <2>6, <2>7, <2>8, BackedKept DEF IInv
<1>2. ASSUME NEW pc \in Deciding, NEW r \in Requests, Serve(p, pc, r),
             UNCHANGED <<req, tracking, scope, want, tree, files, crashes>>,
             pc \in {"approve", "deny"} => req[r].status = "pending",
             pc = "withdraw" => req[r].status \in {"pending", "approved"},
             pc = "leave" => req[r].status = "spawned"
      PROVE  StillRead' /\ Backed'
  <2>1. /\ proc[p].pc = "idle"
        /\ proc'[p].pc = pc /\ proc'[p].req = r
        /\ \A q \in Processes \ {p} : proc'[q] = proc[q]
    BY <1>2, ServeAfter DEF IInv
  <2>2. StillRead'
    BY <1>2, <2>1 DEF IInv, StillRead, Processes
  <2>3. \A q \in Requests : \A v, x : Justifies(q) /\ About(q, v, x) => Justifies(q)' /\ About(q, v, x)'
    BY <1>2, <2>1 DEF Justifies, About, Processes
  <2>4. \A x \in Titles : Requesters(x)' = Requesters(x)
    BY <1>2 DEF Requesters
  <2> QED BY <1>2, <2>2, <2>3, <2>4, BackedKept DEF IInv
<1>3. ASSUME NEW r \in Requests, Approve(p, r) \/ Deny(p, r) \/ Cancel(p, r)
      PROVE  StillRead' /\ Backed'
  BY <1>2, <1>3 DEF Approve, Deny, Cancel, Deciding
<1> QED BY <1>1, <1>3 DEF Ask

\* Nobody else decides on the request whose status p writes.
LEMMA AloneKept ==
    ASSUME IInv, Uncontended, NEW p \in Handlers, proc[p].pc \in Deciding,
           NEW c \in RequestStatus, SetStatus(proc[p].req, c),
           \A q \in Processes \ {p} : proc'[q] = proc[q],
           proc'[p].pc \notin {"approve", "deny", "withdraw", "leave"}
    PROVE  StillRead'
<1> SUFFICES ASSUME NEW q \in Handlers, q # p, proc[q].pc \in {"approve", "deny", "withdraw", "leave"}
             PROVE  req'[proc[q].req] = req[proc[q].req]
  BY DEF IInv, StillRead, Processes
<1>1. proc[q].req \in Requests /\ proc[p].req \in Requests /\ req[proc[p].req] # NoRequest
  BY OperationRow DEF IInv, Deciding, Processes
<1>2. proc[q].req # proc[p].req
  BY DEF Uncontended, Deciding
<1> QED BY <1>1, <1>2, StatusAfter DEF IInv, Typed

\* A status is written over one that justified nobody.
LEMMA StatusKept ==
    ASSUME IInv, Uncontended, NEW p \in Handlers, proc[p].pc \in {"approve", "deny", "withdraw"},
           NEW c \in RequestStatus, SetStatus(proc[p].req, c), scope' = scope, crashes' = crashes,
           \A q \in Processes \ {p} : proc'[q] = proc[q],
           proc'[p].pc \in {"spawn", "idle"}
    PROVE  StillRead' /\ Backed'
<1> DEFINE r == proc[p].req
<1>1. /\ p \in Processes /\ r \in Requests /\ req[r] # NoRequest /\ req[r].status # "spawned"
  BY OperationRow DEF IInv, Deciding, Processes, StillRead
<1>2. /\ req'[r] # NoRequest /\ req'[r].user = req[r].user /\ req'[r].title = req[r].title
      /\ \A q \in Requests \ {r} : req'[q] = req[q]
  BY <1>1, StatusAfter DEF IInv, Typed
<1> HIDE DEF r
<1>3. StillRead'
  BY AloneKept DEF Deciding
<1>4. \A q \in Requests : \A v, x : Justifies(q) /\ About(q, v, x) => Justifies(q)' /\ About(q, v, x)'
  <2> SUFFICES ASSUME NEW q \in Requests, Justifies(q)
               PROVE  Justifies(q)' /\ req'[q].user = req[q].user /\ req'[q].title = req[q].title
    BY DEF About
  <2>1. \A h \in Handlers : proc[h].pc = "remove" => proc'[h] = proc[h]
    BY DEF Processes
  <2>2. CASE q = r
    BY <1>1, <1>2, <2>1, <2>2 DEF Justifies
  <2>3. CASE q # r
    BY <1>2, <2>1, <2>3 DEF Justifies
  <2> QED BY <2>2, <2>3
<1>5. \A x \in Titles : Requesters(x)' = Requesters(x)
  BY DEF Requesters
<1> QED BY <1>3, <1>4, <1>5, BackedKept DEF IInv

\* The spawn: its user joins, and the request justifies it.
LEMMA SpawnKept ==
    ASSUME IInv, Uncontended, NEW p \in Handlers, proc[p].pc = "spawn",
           Join(proc[p].req), SetStatus(proc[p].req, "spawned"), crashes' = crashes,
           \A q \in Processes \ {p} : proc'[q] = proc[q],
           proc'[p].pc \in {"sync", "idle"}
    PROVE  StillRead' /\ Backed'
<1> DEFINE r == proc[p].req
<1>1. /\ p \in Processes /\ r \in Requests /\ req[r] # NoRequest /\ req[r] \in RequestRow
  BY OperationRow DEF IInv, Deciding, Processes
<1>2. req[r].title \in Titles /\ req[r].user \in Users /\ req[r].rule \in Rules
  BY <1>1 DEF RequestRow
<1>3. "spawned" \in RequestStatus
  BY DEF RequestStatus
<1>4. /\ req'[r] # NoRequest /\ req'[r].user = req[r].user /\ req'[r].title = req[r].title
      /\ req'[r].status = "spawned"
      /\ \A q \in Requests \ {r} : req'[q] = req[q]
  BY <1>1, <1>3, StatusAfter DEF IInv, Typed
<1>5. \A x \in Titles, v \in Users :
         x # req[r].title \/ v # req[r].user => scope'[x][v] = scope[x][v]
  BY <1>2, ScopeAfter DEF Join, IInv, Typed
<1> HIDE DEF r
<1>6. StillRead'
  BY <1>3, AloneKept DEF Deciding
<1>7. \A q \in Requests : \A v, x : Justifies(q) /\ About(q, v, x) => Justifies(q)' /\ About(q, v, x)'
  <2> SUFFICES ASSUME NEW q \in Requests, Justifies(q)
               PROVE  Justifies(q)' /\ req'[q].user = req[q].user /\ req'[q].title = req[q].title
    BY DEF About
  <2>1. \A h \in Handlers : proc[h].pc = "remove" => proc'[h] = proc[h]
    BY DEF Processes
  <2>2. CASE q = r
    BY <1>1, <1>4, <2>2 DEF Justifies
  <2>3. CASE q # r
    BY <1>4, <2>1, <2>3 DEF Justifies
  <2> QED BY <2>2, <2>3
<1>8. ASSUME NEW x \in Titles, NEW v \in Requesters(x)'
      PROVE  \/ \E q \in Requests : Justifies(q)' /\ About(q, v, x)'
             \/ v \in Requesters(x)
  <2>1. CASE x = req[r].title /\ v = req[r].user
    BY <1>1, <1>4, <2>1 DEF Justifies, About
  <2>2. CASE x # req[r].title \/ v # req[r].user
    BY <1>5, <1>8, <2>2 DEF Requesters
  <2> QED BY <2>1, <2>2
<1> QED BY <1>6, <1>7, <1>8, BackedKept DEF IInv

LEMMA DecideStep ==
    ASSUME IInv, Uncontended, NEW p \in Handlers, Decide(p)
    PROVE  StillRead' /\ Backed'
<1> p \in Processes
  BY DEF Processes
<1> DEFINE r == proc[p].req
<1>0. /\ Typed /\ proc[p] \in Process
      /\ proc[p].pc \in Deciding \cup {"remove", "count", "cancel"} =>
            r \in Requests /\ req[r] # NoRequest /\ req[r] \in RequestRow
  BY OperationRow DEF IInv, Typed, TypeOK
<1> HIDE DEF r
<1>1. CASE SetRequestApproved(p)
  <2>1. "spawn" \in Steps /\ "approved" \in RequestStatus
    BY DEF Steps, RequestStatus
  <2>2. proc'[p].pc = "spawn" /\ \A q \in Processes \ {p} : proc'[q] = proc[q]
    BY <1>0, <1>1, <2>1, GotoAfter DEF SetRequestApproved
  <2> QED BY <1>1, <2>1, <2>2, StatusKept DEF SetRequestApproved
<1>2. CASE SetRequestDenied(p)
  <2>1. "denied" \in RequestStatus
    BY DEF RequestStatus
  <2>2. proc'[p].pc = "idle" /\ \A q \in Processes \ {p} : proc'[q] = proc[q]
    BY <1>0, <1>2, DoneAfter DEF SetRequestDenied
  <2> QED BY <1>2, <2>1, <2>2, StatusKept DEF SetRequestDenied
<1>3. CASE SetRequestCanceled(p)
  <2>1. "canceled" \in RequestStatus /\ "remove" \in Steps
    BY DEF RequestStatus, Steps
  <2>2. CASE proc[p].pc = "withdraw"
    <3>1. proc'[p].pc = "idle" /\ \A q \in Processes \ {p} : proc'[q] = proc[q]
      BY <1>0, <1>3, <2>2, DoneAfter DEF SetRequestCanceled
    <3> QED BY <1>3, <2>1, <2>2, <3>1, StatusKept DEF SetRequestCanceled
  <2>3. CASE proc[p].pc = "leave"
    <3>1. /\ proc'[p].pc = "remove" /\ proc'[p].req = r
          /\ \A q \in Processes \ {p} : proc'[q] = proc[q]
      BY <1>0, <1>3, <2>1, <2>3, GotoAfter DEF SetRequestCanceled, r
    <3>2. /\ req'[r] # NoRequest /\ req'[r].user = req[r].user /\ req'[r].title = req[r].title
          /\ \A q \in Requests \ {r} : req'[q] = req[q]
      BY <1>0, <1>3, <2>1, <2>3, StatusAfter DEF SetRequestCanceled, Typed, r, Deciding
    <3>3. StillRead'
      BY <1>3, <2>1, <2>3, <3>1, AloneKept DEF SetRequestCanceled, Deciding
    <3>4. \A q \in Requests : \A v, x : Justifies(q) /\ About(q, v, x) => Justifies(q)' /\ About(q, v, x)'
      <4> SUFFICES ASSUME NEW q \in Requests, Justifies(q)
                   PROVE  Justifies(q)' /\ req'[q].user = req[q].user /\ req'[q].title = req[q].title
        BY DEF About
      <4>1. \A h \in Handlers : proc[h].pc = "remove" => proc'[h] = proc[h]
        BY <2>3, <3>1 DEF Processes
      <4>2. CASE q = r
        BY <3>1, <3>2, <4>2 DEF Justifies
      <4>3. CASE q # r
        BY <3>2, <4>1, <4>3 DEF Justifies
      <4> QED BY <4>2, <4>3
    <3>5. \A x \in Titles : Requesters(x)' = Requesters(x)
      BY <1>3 DEF Requesters, SetRequestCanceled
    <3> QED BY <1>3, <3>3, <3>4, <3>5, BackedKept DEF IInv, SetRequestCanceled
  <2> QED BY <1>3, <2>2, <2>3 DEF SetRequestCanceled
<1>4. CASE SpawnMovie(p)
  <2>1. proc'[p].pc = "idle" /\ \A q \in Processes \ {p} : proc'[q] = proc[q]
    BY <1>0, <1>4, DoneAfter DEF SpawnMovie
  <2> QED BY <1>4, <2>1, SpawnKept DEF SpawnMovie
<1>5. CASE SpawnSeries(p)
  <2>1. "sync" \in Steps
    BY DEF Steps
  <2>2. proc'[p].pc = "sync" /\ \A q \in Processes \ {p} : proc'[q] = proc[q]
    BY <1>0, <1>5, <2>1, GotoAfter DEF SpawnSeries
  <2> QED BY <1>5, <2>2, SpawnKept DEF SpawnSeries
<1>6. CASE RemoveRequester(p)
  <2> DEFINE t == req[r].title
             u == req[r].user
  <2>1. /\ r \in Requests /\ req[r] # NoRequest /\ t \in Titles /\ u \in Users
    BY <1>0, <1>6 DEF RemoveRequester, RequestRow
  <2>2. /\ scope' = [scope EXCEPT ![t][u] = "none"]
        /\ req' = req /\ crashes' = crashes
    BY <1>6 DEF RemoveRequester, r
  <2>3. "count" \in Steps
    BY DEF Steps
  <2>4. /\ proc'[p].pc = "count"
        /\ \A q \in Processes \ {p} : proc'[q] = proc[q]
    BY <1>0, <1>6, <2>3, GotoAfter DEF RemoveRequester
  <2>5. /\ scope'[t][u] = "none"
        /\ \A x \in Titles, v \in Users : x # t \/ v # u => scope'[x][v] = scope[x][v]
    <3> HIDE DEF t, u
    <3> DEFINE row == [scope[t] EXCEPT ![u] = "none"]
    <3>1. scope \in [Titles -> [Users -> Rules \cup {"none"}]] /\ scope' = [scope EXCEPT ![t] = row]
      BY <1>0, <2>2 DEF Typed, TypeOK
    <3>2. row[u] = "none" /\ \A v \in Users \ {u} : row[v] = scope[t][v]
      BY <2>1, <3>1
    <3> HIDE DEF row
    <3> QED BY <2>1, <3>1, <3>2
  <2>6. StillRead'
    BY <2>2, <2>4 DEF IInv, StillRead, Processes
  <2>7. ASSUME NEW x \in Titles, NEW v \in Requesters(x)'
        PROVE  /\ v \in Requesters(x)
               /\ \A q \in Requests : Justifies(q) /\ About(q, v, x) => Justifies(q)' /\ About(q, v, x)'
    <3>1. x # t \/ v # u
      BY <2>5, <2>7 DEF Requesters
    <3>2. v \in Requesters(x)
      BY <2>5, <2>7, <3>1 DEF Requesters
    <3>3. ASSUME NEW q \in Requests, Justifies(q), About(q, v, x)
          PROVE  Justifies(q)' /\ About(q, v, x)'
      <4>1. q # r
        BY <3>1, <3>3 DEF About
      <4>2. \A h \in Handlers : proc[h].req = q => proc'[h] = proc[h]
        BY <2>4, <4>1 DEF Processes, r
      <4> QED BY <2>2, <3>3, <4>2 DEF Justifies, About
    <3> QED BY <3>2, <3>3
  <2> QED BY <2>2, <2>6, <2>7, BackedKept DEF IInv
<1>7. ASSUME req' = req, scope' = scope, crashes' = crashes,
             \A q \in Processes \ {p} : proc'[q] = proc[q],
             proc[p].pc \in {"spawn", "count", "cancel"}, proc'[p].pc \in {"idle", "cancel"}
      PROVE  StillRead' /\ Backed'
  <2>1. Quiet
    BY <1>7 DEF Quiet, Processes
  <2> QED BY <1>7, <2>1, QuietStep
<1>8. CASE SpawnFails(p)
  BY <1>0, <1>7, <1>8, DoneAfter DEF SpawnFails
<1>9. CASE CountRemaining(p)
  <2>1. CASE Requesters(proc[p].title) # {}
    BY <1>0, <1>7, <1>9, <2>1, DoneAfter DEF CountRemaining
  <2>2. CASE Requesters(proc[p].title) = {}
    <3> DEFINE d == [proc[p] EXCEPT !.pc = "cancel", !.todo = LiveWants(proc[p].title)]
    <3>1. proc' = [proc EXCEPT ![p] = d]
      BY <1>9, <2>2 DEF CountRemaining
    <3>2. d.pc = "cancel"
      BY <1>0 DEF Process
    <3> HIDE DEF d
    <3>3. proc'[p].pc = "cancel" /\ \A q \in Processes \ {p} : proc'[q] = proc[q]
      BY <1>0, <3>1, <3>2 DEF Typed, TypeOK
    <3> QED BY <1>7, <1>9, <3>3 DEF CountRemaining
  <2> QED BY <2>1, <2>2
<1>10. ASSUME NEW w \in proc[p].todo, CancelWant(p, w)
       PROVE  StillRead' /\ Backed'
  <2>1. CASE want[w] \notin {"live", "canceled"}
    BY <1>0, <1>7, <1>10, <2>1, DoneAfter DEF CancelWant
  <2>2. CASE want[w] \in {"live", "canceled"}
    <3> DEFINE d == [proc[p] EXCEPT !.todo = proc[p].todo \ {w}]
    <3>1. proc' = [proc EXCEPT ![p] = d] /\ proc[p].pc = "cancel"
      BY <1>0, <1>10, <2>2 DEF CancelWant, Typed, TypeOK
    <3>2. d.pc = "cancel"
      BY <1>0, <3>1 DEF Process
    <3> HIDE DEF d
    <3>3. proc'[p].pc = "cancel" /\ \A q \in Processes \ {p} : proc'[q] = proc[q]
      BY <1>0, <3>1, <3>2 DEF Typed, TypeOK
    <3> QED BY <1>7, <1>10, <3>1, <3>3 DEF CancelWant
  <2> QED BY <2>1, <2>2
<1>11. CASE SetTrackingState(p)
  BY <1>0, <1>7, <1>11, DoneAfter DEF SetTrackingState
<1> QED BY <1>1, <1>2, <1>3, <1>4, <1>5, <1>6, <1>8, <1>9, <1>10, <1>11 DEF Decide

LEMMA ReconcileStep ==
    ASSUME IInv, NEW p \in Processes, Reconcile(p)
    PROVE  StillRead' /\ Backed'
<1>0. Typed /\ proc[p] \in Process
  BY DEF IInv, Typed, TypeOK
<1>1. ASSUME req' = req, scope' = scope, crashes' = crashes,
             \A q \in Processes \ {p} : proc'[q] = proc[q],
             proc[p].pc \in {"sync", "read", "write"}, proc'[p].pc \in {"idle", "read", "write"}
      PROVE  StillRead' /\ Backed'
  <2>1. Quiet
    BY <1>1 DEF Quiet, Processes
  <2> QED BY <1>1, <2>1, QuietStep
<1>2. CASE SyncSeriesStructure(p)
  <2>1. "read" \in Steps
    BY DEF Steps
  <2>2. proc'[p].pc \in {"idle", "read"} /\ \A q \in Processes \ {p} : proc'[q] = proc[q]
    <3>1. CASE tracking[proc[p].title] = "none"
      BY <1>0, <1>2, <3>1, DoneAfter DEF SyncSeriesStructure
    <3>2. CASE tracking[proc[p].title] # "none"
      BY <1>0, <1>2, <2>1, <3>2, GotoAfter DEF SyncSeriesStructure
    <3> QED BY <3>1, <3>2
  <2> QED BY <1>1, <1>2, <2>2 DEF SyncSeriesStructure
<1>3. CASE ReadScope(p)
  <2> DEFINE t == proc[p].title
             e == Missing(t) \ LiveWants(t)
             w == LiveWants(t) \ EffectiveInScope(t)
             d == [proc[p] EXCEPT !.pc = "write", !.create = e, !.todo = w]
  <2>1. proc' = [proc EXCEPT ![p] = d]
    BY <1>3 DEF ReadScope
  <2> HIDE DEF e, w
  <2>2. d.pc = "write"
    BY <1>0 DEF Process
  <2> HIDE DEF d
  <2>3. proc'[p].pc = "write" /\ \A q \in Processes \ {p} : proc'[q] = proc[q]
    BY <1>0, <2>1, <2>2 DEF Typed, TypeOK
  <2> QED BY <1>1, <1>3, <2>3 DEF ReadScope
<1>4. CASE WriteWants(p)
  BY <1>0, <1>1, <1>4, DoneAfter DEF WriteWants
<1> QED BY <1>2, <1>3, <1>4 DEF Reconcile

LEMMA IInvStep ==
    ASSUME IInv, Uncontended, [Next]_vars
    PROVE  IInv'
<1>0. Typed'
  BY TypedStep DEF IInv
<1>1. ASSUME NEW p \in Handlers, Ask(p) \/ Decide(p)
      PROVE  StillRead' /\ Backed'
  BY <1>1, AskStep, DecideStep
<1>2. ASSUME NEW p \in Processes, Reconcile(p)
      PROVE  StillRead' /\ Backed'
  BY <1>2, ReconcileStep
<1>3. ASSUME NEW t \in Series, Refresh(t)
      PROVE  StillRead' /\ Backed'
  <2> DEFINE d == [Idle EXCEPT !.pc = "sync", !.title = t]
  <2>1. d.pc = "sync" /\ Enricher \in Processes /\ Enricher \notin Handlers
    BY TitlesAssumption DEF Idle, Processes
  <2>2. proc' = [proc EXCEPT ![Enricher] = d]
    BY <1>3 DEF Refresh
  <2> HIDE DEF d
  <2>3. \A q \in Handlers : proc'[q] = proc[q]
    BY <2>1, <2>2 DEF IInv, Typed, TypeOK, Processes
  <2>4. Quiet
    BY <1>3, <2>3 DEF Quiet, Refresh
  <2> QED BY <1>3, <2>4, QuietStep DEF Refresh
<1>4. ASSUME NEW w \in DOMAIN want, Acquire(w)
      PROVE  StillRead' /\ Backed'
  BY <1>4, QuietStep DEF Quiet, Acquire
<1>5. ASSUME NEW e \in AllEpisodes, ScanFile(e)
      PROVE  StillRead' /\ Backed'
  BY <1>5, QuietStep DEF Quiet, ScanFile
<1>6. CASE Crash
  <2>1. StillRead'
    BY <1>6, IdleTyped DEF Crash, StillRead, Processes
  <2>2. crashes \in Nat /\ crashes' = crashes + 1
    BY <1>6, TitlesAssumption DEF Crash, IInv, Typed, TypeOK
  <2>3. Backed'
    BY <2>2 DEF Backed
  <2> QED BY <1>0, <2>1, <2>3 DEF IInv
<1>7. CASE UNCHANGED vars
  <2>1. StillRead' /\ Backed'
    BY <1>7, QuietStep DEF Quiet, vars
  <2> QED BY <1>0, <2>1 DEF IInv
<1> QED BY <1>0, <1>1, <1>2, <1>3, <1>4, <1>5, <1>6, <1>7 DEF Next, IInv

\* As long as no two operations decide on one request at once, and until a
\* restart cuts one short, whoever is on a tracking has a request that
\* spawned and was not withdrawn: approvals, withdrawals, spawns and
\* reconciliations of any number of requests interleave freely.
THEOREM RequestersBacked == Spec /\ []Uncontended => []Backed
<1>1. Init => IInv
  <2>1. ASSUME Init
        PROVE  StillRead /\ Backed
    BY <2>1, IdleTyped DEF Init, StillRead, Backed, Requesters, Processes
  <2> QED BY <2>1, TypedInit DEF IInv
<1>2. IInv /\ Uncontended /\ [Next]_vars => IInv'
  BY IInvStep
<1>3. IInv => Backed
  BY DEF IInv
<1> QED BY <1>1, <1>2, <1>3, PTL DEF Spec
=============================================================================
