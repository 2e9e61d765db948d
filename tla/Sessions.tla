------------------------------ MODULE Sessions ------------------------------
(***************************************************************************)
(* Sessions of one user (service/session.go, repo/session.go,              *)
(* jobs/session/worker.go) and the browsers that hold their refresh        *)
(* cookies (http/handlers/auth.go, web/src/lib/authRefresh.ts).            *)
(*                                                                         *)
(* A refresh is three steps of the server (read the row, then rotate or    *)
(* burn it, then answer) that other tabs, other devices, a logout and the  *)
(* sweeper interleave with.  A secret is a number, never issued twice, and *)
(* stands for its hash.  A request takes much less than the minute of      *)
(* grace, which is not over while one is on its way.                       *)
(***************************************************************************)
EXTENDS Naturals, FiniteSets

CONSTANTS
    Sessions,       \* ids the user_session table may give out
    Devices,        \* browsers
    Tabs,
    Home,           \* the browser a tab belongs to
    NoSession,
    Locks,          \* the browsers have the Web Locks API
    MaxSecrets,     \* secrets issued in a run
    MaxClosed       \* requests whose client has gone before the answer

ASSUME SessionsAssumption ==
    /\ Home \in [Tabs -> Devices]
    /\ NoSession \notin Sessions
    /\ Locks \in BOOLEAN
    /\ MaxSecrets \in Nat /\ MaxClosed \in Nat

VARIABLES
    session,    \* user_session
    jar,        \* the refresh cookie of each browser
    tab,        \* each tab's request, if it has one
    minted,     \* secrets issued so far
    burnt,      \* sessions revoked because reuse was detected
    mishap      \* what befell the answers to each session's refreshes

vars == <<session, jar, tab, minted, burnt, mishap>>

Secret == 0..MaxSecrets     \* 0: none
Row == [exists : BOOLEAN, cur : Secret, prev : Secret,
        recent : BOOLEAN, revoked : BOOLEAN, expired : BOOLEAN]
NoRow == [exists |-> FALSE, cur |-> 0, prev |-> 0,
          recent |-> FALSE, revoked |-> FALSE, expired |-> FALSE]
Cookie == [sid : Sessions \cup {NoSession}, secret : Secret]
NoCookie == [sid |-> NoSession, secret |-> 0]
Steps == {"idle", "read", "rotate", "burn", "revoke", "answer"}
Request == [pc : Steps, kind : {"none", "refresh", "logout"}, sent : Cookie,
            set : Cookie, waits : BOOLEAN]
NoRequest == [pc |-> "idle", kind |-> "none", sent |-> NoCookie,
              set |-> NoCookie, waits |-> FALSE]

Busy(t) == tab[t].pc /= "idle"
Live(s) == session[s].exists /\ ~session[s].revoked
Terminal(s) == session[s].revoked \/ session[s].expired
Refreshing(t) == Busy(t) /\ tab[t].kind = "refresh"

Init ==
    /\ session = [s \in Sessions |-> NoRow]
    /\ jar = [d \in Devices |-> NoCookie]
    /\ tab = [t \in Tabs |-> NoRequest]
    /\ minted = 0
    /\ burnt = {}
    /\ mishap = [s \in Sessions |-> [lost |-> 0, late |-> FALSE, stray |-> FALSE]]

-----------------------------------------------------------------------------
(* The browser *)

Opened(secret) == [NoRow EXCEPT !.exists = TRUE, !.cur = secret]

\* A login, by whichever way, opens a session and stores its cookie.
Create(d) ==
    /\ minted < MaxSecrets
    /\ \E s \in Sessions :
         /\ ~session[s].exists /\ session[s].cur = 0
         /\ session' = [session EXCEPT ![s] = Opened(minted + 1)]
         /\ jar' = [jar EXCEPT ![d] = [sid |-> s, secret |-> minted + 1]]
    /\ minted' = minted + 1
    /\ UNCHANGED <<tab, burnt, mishap>>

\* Bug: a refresh does not take the lock.
NoLock(t) == TRUE

\* Web Locks: one refresh at a time in a browser.
LockFree(t) ==
    Locks => \A o \in Tabs : Home[o] = Home[t] /\ Refreshing(o) => ~tab[o].waits

Sent(kind, cookie) ==
    [pc |-> "read", kind |-> kind, sent |-> cookie, set |-> NoCookie, waits |-> TRUE]

Send(t, kind) ==
    /\ ~Busy(t)
    /\ jar[Home[t]] /= NoCookie
    /\ kind = "refresh" => LockFree(t)
    /\ tab' = [tab EXCEPT ![t] = Sent(kind, jar[Home[t]])]
    /\ UNCHANGED <<session, jar, minted, burnt, mishap>>

refreshAccessToken(t) == Send(t, "refresh")
logout(t) == Send(t, "logout")

\* The answer stores the cookie it carries, if the tab is still there.
Answer(t) ==
    /\ tab[t].pc = "answer"
    /\ jar' = IF tab[t].waits /\ tab[t].set /= tab[t].sent
              THEN [jar EXCEPT ![Home[t]] = tab[t].set] ELSE jar
    /\ tab' = [tab EXCEPT ![t] = NoRequest]
    /\ UNCHANGED <<session, minted, burnt, mishap>>

Left(r) == [r EXCEPT !.waits = FALSE]

\* The tab is closed or the connection drops; the server goes on.
Close(t) ==
    /\ Busy(t) /\ tab[t].waits
    /\ LET s == tab[t].sent.sid IN
         /\ mishap[s].lost + (IF mishap[s].stray THEN 1 ELSE 0) < MaxClosed
         /\ mishap' =
              IF tab[t].kind = "logout" THEN mishap
              ELSE IF tab[t].pc = "answer" THEN [mishap EXCEPT ![s].lost = @ + 1]
              ELSE [mishap EXCEPT ![s].stray = TRUE]
    /\ tab' = [tab EXCEPT ![t] = Left(@)]
    /\ UNCHANGED <<session, jar, minted, burnt>>

-----------------------------------------------------------------------------
(* The server *)

At(r, pc) == [r EXCEPT !.pc = pc]
Goto(t, pc) == tab' = [tab EXCEPT ![t] = At(@, pc)]

Answered(r, cookie) == [r EXCEPT !.pc = "answer", !.set = cookie]
Finish(t, cookie) == tab' = [tab EXCEPT ![t] = Answered(@, cookie)]

MatchesCurrent(t) == tab[t].sent.secret = session[tab[t].sent.sid].cur
MatchesPrevious(t) ==
    /\ session[tab[t].sent.sid].prev /= 0
    /\ tab[t].sent.secret = session[tab[t].sent.sid].prev
\* Bug: only the current secret is accepted.
NoGrace(t) == FALSE

MatchesGrace(t) == MatchesPrevious(t) /\ session[tab[t].sent.sid].recent

\* Refresh: GetSession and the switch on the presented secret.
Refresh(t) ==
    /\ tab[t].pc = "read" /\ tab[t].kind = "refresh"
    /\ LET s == tab[t].sent.sid IN
         IF ~Live(s) \/ session[s].expired
         THEN Finish(t, tab[t].sent)
         ELSE Goto(t, IF MatchesCurrent(t) \/ MatchesGrace(t) THEN "rotate" ELSE "burn")
    /\ UNCHANGED <<session, jar, minted, burnt, mishap>>

Rotatable(s) == Live(s)

Shift(row, secret) == [row EXCEPT !.cur = secret, !.prev = row.cur, !.recent = TRUE]

\* RotateSession shifts the current hash into prev, unless the row has been
\* revoked since it was read.
RotateSession(t) ==
    /\ tab[t].pc = "rotate"
    /\ LET s == tab[t].sent.sid IN
         IF Rotatable(s)
         THEN /\ minted < MaxSecrets
              /\ session' = [session EXCEPT ![s] = Shift(@, minted + 1)]
              /\ minted' = minted + 1
              /\ Finish(t, [sid |-> s, secret |-> minted + 1])
         ELSE Finish(t, tab[t].sent) /\ UNCHANGED <<session, minted>>
    /\ UNCHANGED <<jar, burnt, mishap>>

Revoke(row) == IF row.exists THEN [row EXCEPT !.revoked = TRUE] ELSE row

\* Reuse: the whole session is burned.
Burn(t) ==
    /\ tab[t].pc = "burn"
    /\ session' = [session EXCEPT ![tab[t].sent.sid] = Revoke(@)]
    /\ burnt' = IF Live(tab[t].sent.sid) THEN burnt \cup {tab[t].sent.sid} ELSE burnt
    /\ Finish(t, tab[t].sent)
    /\ UNCHANGED <<jar, minted, mishap>>

\* Logout: the session is read, then revoked if the secret is one of its two,
\* and the cookie is cleared in any case.
RevokeByRefreshToken(t) ==
    /\ tab[t].pc = "read" /\ tab[t].kind = "logout"
    /\ IF session[tab[t].sent.sid].exists /\ (MatchesCurrent(t) \/ MatchesPrevious(t))
       THEN Goto(t, "revoke")
       ELSE Finish(t, NoCookie)
    /\ UNCHANGED <<session, jar, minted, burnt, mishap>>

RevokeSession(t) ==
    /\ tab[t].pc = "revoke"
    /\ session' = [session EXCEPT ![tab[t].sent.sid] = Revoke(@)]
    /\ Finish(t, NoCookie)
    /\ UNCHANGED <<jar, minted, burnt, mishap>>

\* The devices page: one session, or every other one.
RevokeForUser(s) ==
    /\ Live(s)
    /\ session' = [session EXCEPT ![s] = Revoke(@)]
    /\ UNCHANGED <<jar, tab, minted, burnt, mishap>>

RevokeOthersForUser(keep) ==
    /\ \E s \in Sessions \ {keep} : Live(s)
    /\ session' = [s \in Sessions |-> IF s = keep THEN session[s] ELSE Revoke(session[s])]
    /\ UNCHANGED <<jar, tab, minted, burnt, mishap>>

Swept(row) == [NoRow EXCEPT !.cur = row.cur]

\* The sweeper deletes what has been revoked or expired for long enough; an
\* id is never given out again.
SweepTerminal ==
    /\ \E s \in Sessions : session[s].exists /\ Terminal(s)
    /\ session' = [s \in Sessions |->
                     IF session[s].exists /\ Terminal(s)
                     THEN Swept(session[s]) ELSE session[s]]
    /\ UNCHANGED <<jar, tab, minted, burnt, mishap>>

-----------------------------------------------------------------------------
(* Time *)

Settled(row) == [row EXCEPT !.recent = FALSE]
Expired(row) == [row EXCEPT !.expired = TRUE]

\* The grace ends a minute after the rotation, between two requests.
GraceEnds(s) ==
    /\ session[s].recent
    /\ \A t \in Tabs : Busy(t) => tab[t].sent.sid /= s
    /\ session' = [session EXCEPT ![s] = Settled(@)]
    /\ mishap' = [mishap EXCEPT ![s].late = (mishap[s].lost > 0)]
    /\ UNCHANGED <<jar, tab, minted, burnt>>

Expire(s) ==
    /\ Live(s) /\ ~session[s].expired
    /\ session' = [session EXCEPT ![s] = Expired(@)]
    /\ UNCHANGED <<jar, tab, minted, burnt, mishap>>

Next ==
    \/ \E d \in Devices : Create(d)
    \/ \E t \in Tabs : \/ refreshAccessToken(t) \/ logout(t) \/ Answer(t) \/ Close(t)
                       \/ Refresh(t) \/ RotateSession(t) \/ Burn(t)
                       \/ RevokeByRefreshToken(t) \/ RevokeSession(t)
    \/ \E s \in Sessions : \/ RevokeForUser(s) \/ RevokeOthersForUser(s)
                           \/ GraceEnds(s) \/ Expire(s)
    \/ SweepTerminal

Spec == Init /\ [][Next]_vars

-----------------------------------------------------------------------------
TypeOK ==
    /\ session \in [Sessions -> Row]
    /\ jar \in [Devices -> Cookie]
    /\ tab \in [Tabs -> Request]
    /\ minted \in Secret
    /\ burnt \subseteq Sessions
    /\ mishap \in [Sessions -> [lost : 0..MaxClosed, late : BOOLEAN, stray : BOOLEAN]]

Unharmed(s) == mishap[s].lost = 0 /\ ~mishap[s].stray
Answering(s) == \E t \in Tabs : tab[t].pc = "answer" /\ tab[t].waits /\ tab[t].sent.sid = s

\* "The others run afterward against the always-current cookie, so each
\* rotation is a valid sequential one" (authRefresh.ts): between refreshes the
\* cookie of a browser holds the current secret of its session, whatever
\* tabs, logouts and logins did.
CookieCurrent ==
    Locks => \A d \in Devices :
                LET s == jar[d].sid IN
                s /= NoSession =>
                    (Live(s) /\ Unharmed(s) /\ ~Answering(s) => jar[d].secret = session[s].cur)

\* A browser with the lock is never taken for a thief: its session is burned
\* only after two answers were lost, or one and its grace, or when a request
\* whose tab had gone reached the server behind later ones.
NoFalseReuse ==
    Locks => \A s \in burnt : mishap[s].lost >= 2 \/ mishap[s].late \/ mishap[s].stray

\* A revoked session stays revoked and no secret is issued for it, although a
\* refresh that read it before goes on to rotate it.
RevokedIsFinal ==
    [][\A s \in Sessions : session[s].revoked =>
            /\ session'[s].exists => session'[s].revoked
            /\ session'[s].cur = session[s].cur]_session
=============================================================================
