----------------------- MODULE AdministrationProofs -----------------------
(***************************************************************************)
(* The properties of the sessions, the accounts, the settings and the      *)
(* quality profiles, for any number of each, of the browsers, tabs and     *)
(* lost answers, and of the requests that are served at a time.            *)
(*                                                                         *)
(* Each component has an inductive invariant of its own; the last part     *)
(* shows that a behaviour of the administration is one of each component.  *)
(***************************************************************************)
EXTENDS Administration, FiniteSetTheorems, TLAPS

(***************************************************************************)
(* Sessions.  CookieCurrent is not inductive.  What it rests on: a session *)
(* belongs to one browser (Owned), so the lock leaves one tab of all that  *)
(* refreshes it (Alone); and a cookie that is behind has the current       *)
(* secret on its way to it in that tab's answer (Coming).                  *)
(*                                                                         *)
(* NoFalseReuse rests on a second invariant, of the sessions to which no   *)
(* more than one lost answer happened (Blameless): a cookie that is behind *)
(* is one rotation behind and within its grace, or what makes it current   *)
(* is on its way (Supplied), so no refresh that reads the row ever burns   *)
(* it (Lined).                                                             *)
(***************************************************************************)
\* The rows of user_session: a revoked one is still there until it is swept,
\* and an id that has been given out keeps a secret.
Rows ==
    /\ \A s \in Sessions : session[s].revoked => session[s].exists
    /\ \A s \in Sessions : session[s].exists => session[s].cur # 0

\* A cookie names a session, and so does a request, which had one to send.
Named ==
    /\ \A d \in Devices : jar[d].sid = NoSession => jar[d] = NoCookie
    /\ \A t \in Tabs : Busy(t) => /\ tab[t].sent.sid \in Sessions
                                  /\ tab[t].kind \in {"refresh", "logout"}
    /\ \A t \in Tabs : /\ tab[t].pc \in {"rotate", "burn"} => tab[t].kind = "refresh"
                       /\ tab[t].pc = "revoke" => tab[t].kind = "logout"

\* No secret is around before it is issued.
Issued ==
    /\ \A s \in Sessions : session[s].cur <= minted
    /\ \A d \in Devices : jar[d].secret <= minted
    /\ \A t \in Tabs : tab[t].sent.secret <= minted /\ tab[t].set.secret <= minted

\* What an answer sets: nothing new, no cookie, or a new secret of the session.
Answers ==
    \A t \in Tabs : tab[t].pc = "answer" =>
        \/ tab[t].kind = "logout" /\ tab[t].set = NoCookie
        \/ tab[t].kind = "refresh" /\ tab[t].set.sid = tab[t].sent.sid

Holds(d, s) ==
    \/ jar[d].sid = s
    \/ \E t \in Tabs : Home[t] = d /\ Busy(t) /\ tab[t].sent.sid = s

\* A session belongs to one browser, to none before it is opened.
Owned ==
    \A s \in Sessions :
        /\ \A d, e \in Devices : Holds(d, s) /\ Holds(e, s) => d = e
        /\ session[s].cur = 0 => \A d \in Devices : ~Holds(d, s)

RefreshOf(t, s) == Refreshing(t) /\ tab[t].sent.sid = s

Alone(s) ==
    /\ \A t \in Tabs : RefreshOf(t, s) => tab[t].waits
    /\ \A t, u \in Tabs : RefreshOf(t, s) /\ RefreshOf(u, s) => t = u

Brings(t, s) ==
    /\ RefreshOf(t, s) /\ tab[t].pc = "answer"
    /\ tab[t].set # tab[t].sent

Coming(s) ==
    /\ \A t \in Tabs : Brings(t, s) => tab[t].set.secret = session[s].cur
    /\ \A d \in Devices : jar[d].sid = s =>
          jar[d].secret = session[s].cur \/ \E t \in Tabs : Brings(t, s)

Current ==
    Locks => \A s \in Sessions : Live(s) /\ Unharmed(s) => Alone(s) /\ Coming(s)

IInv == TypeOK /\ Rows /\ Named /\ Issued /\ Answers /\ Owned /\ Current

-----------------------------------------------------------------------------
LEMMA InitInv == Init => IInv
  BY SessionsAssumption DEF Init, IInv, TypeOK, Rows, Named, Issued, Answers, Owned, Current, Row, NoRow,
     Cookie, NoCookie, Request, NoRequest, Secret, Steps, Busy, Live, Holds

LEMMA ZeroSecret == 0 \in Secret
  BY SessionsAssumption DEF Secret

\* The writes of a request ...
LEMMA SentRequest ==
    ASSUME NEW k \in {"refresh", "logout"}, NEW c \in Cookie
    PROVE  /\ Sent(k, c) \in Request
           /\ Sent(k, c) = [pc |-> "read", kind |-> k, sent |-> c, set |-> NoCookie, waits |-> TRUE]
<1>1. NoCookie \in Cookie
  BY ZeroSecret DEF NoCookie, Cookie
<1> QED BY <1>1 DEF Sent, Request, Steps

LEMMA Blank == NoRequest \in Request /\ NoCookie \in Cookie
<1>1. NoCookie \in Cookie
  BY ZeroSecret DEF NoCookie, Cookie
<1>2. "idle" \in Steps
  BY DEF Steps
<1>3. NoRequest = [pc |-> "idle", kind |-> "none", sent |-> NoCookie, set |-> NoCookie, waits |-> FALSE]
  BY DEF NoRequest
<1> QED BY <1>1, <1>2, <1>3 DEF Request

LEMMA RequestWrites ==
    ASSUME NEW r \in Request
    PROVE  /\ NoRequest \in Request /\ NoCookie \in Cookie
           /\ \A pc \in Steps : At(r, pc) \in Request
           /\ Left(r) \in Request
           /\ \A c \in Cookie : Answered(r, c) \in Request
<1>1. NoRequest \in Request /\ NoCookie \in Cookie
  BY Blank
<1>3. ASSUME NEW pc \in Steps PROVE At(r, pc) \in Request
  BY DEF Request, At
<1>4. Left(r) \in Request
  BY DEF Request, Left
<1>5. ASSUME NEW c \in Cookie PROVE Answered(r, c) \in Request
  BY DEF Request, Answered, Steps
<1> QED BY <1>1, <1>3, <1>4, <1>5

\* ... and of a row.
LEMMA RowWrites ==
    ASSUME NEW r \in Row
    PROVE  /\ Swept(r) \in Row /\ Revoke(r) \in Row
           /\ Settled(r) \in Row /\ Expired(r) \in Row
           /\ \A c \in Secret : Opened(c) \in Row /\ Shift(r, c) \in Row
<1>1. Swept(r) \in Row
  BY ZeroSecret, Zenon DEF Row, NoRow, Swept
<1>2. Revoke(r) \in Row
  BY DEF Row, Revoke
<1>3. Settled(r) \in Row
  BY DEF Row, Settled
<1>4. Expired(r) \in Row
  BY DEF Row, Expired
<1>5. ASSUME NEW c \in Secret PROVE Opened(c) \in Row
  BY ZeroSecret, Zenon DEF Row, NoRow, Opened
<1>6. ASSUME NEW c \in Secret PROVE Shift(r, c) \in Row
  BY DEF Row, Shift
<1> QED BY <1>1, <1>2, <1>3, <1>4, <1>5, <1>6

\* The next secret is one more than was issued.
LEMMA NextSecret ==
    ASSUME minted \in Secret, minted < MaxSecrets
    PROVE  minted + 1 \in Secret /\ minted \in Nat /\ minted + 1 > minted
  BY SessionsAssumption DEF Secret

\* Every step keeps the types.
LEMMA TypeStep ==
    ASSUME IInv, [Next]_vars
    PROVE  TypeOK'
<1> /\ TypeOK /\ Named /\ Answers
    /\ session \in [Sessions -> Row] /\ jar \in [Devices -> Cookie]
    /\ tab \in [Tabs -> Request] /\ minted \in Secret /\ burnt \subseteq Sessions
    /\ mishap \in [Sessions -> [lost : 0..MaxClosed, late : BOOLEAN, stray : BOOLEAN]]
  BY DEF IInv, TypeOK
<1>0. \A t \in Tabs :
         /\ tab[t] \in Request /\ tab[t].sent \in Cookie /\ tab[t].set \in Cookie
         /\ Home[t] \in Devices /\ jar[Home[t]] \in Cookie
         /\ Busy(t) => tab[t].sent.sid \in Sessions
  BY SessionsAssumption DEF Request, Named
<1>0a. \A s \in Sessions : session[s].cur \in Secret
  BY DEF Row
<1>0b. NoCookie \in Cookie /\ \A s \in Sessions, c \in Secret : [sid |-> s, secret |-> c] \in Cookie
  BY SessionsAssumption DEF NoCookie, Cookie, Secret
<1>1. ASSUME NEW d \in Devices, Create(d) PROVE TypeOK'
  <2>1. PICK s \in Sessions : /\ session' = [session EXCEPT ![s] = Opened(minted + 1)]
                              /\ jar' = [jar EXCEPT ![d] = [sid |-> s, secret |-> minted + 1]]
    BY <1>1 DEF Create
  <2>2. minted + 1 \in Secret /\ minted' = minted + 1
    BY <1>1, NextSecret DEF Create
  <2>3. session' \in [Sessions -> Row] /\ jar' \in [Devices -> Cookie]
    BY <2>1, <2>2, <1>0b, RowWrites
  <2> QED BY <1>1, <2>2, <2>3 DEF Create, TypeOK
<1>2. ASSUME NEW t \in Tabs, NEW k \in {"refresh", "logout"}, Send(t, k) PROVE TypeOK'
  BY <1>2, <1>0, SentRequest DEF Send, TypeOK
<1>3. ASSUME NEW t \in Tabs, Answer(t) PROVE TypeOK'
  BY <1>3, <1>0, RequestWrites DEF Answer, TypeOK
<1>4. ASSUME NEW t \in Tabs, Close(t) PROVE TypeOK'
  <2>1. tab[t].sent.sid \in Sessions
    BY <1>4, <1>0 DEF Close
  <2>2. mishap' \in [Sessions -> [lost : 0..MaxClosed, late : BOOLEAN, stray : BOOLEAN]]
    <3> DEFINE m == mishap[tab[t].sent.sid]
    <3>1. /\ m \in [lost : 0..MaxClosed, late : BOOLEAN, stray : BOOLEAN]
          /\ m.lost + (IF m.stray THEN 1 ELSE 0) < MaxClosed
      BY <1>4, <2>1 DEF Close
    <3>2. m.lost + 1 \in 0..MaxClosed
      BY <3>1, SessionsAssumption
    <3>3. \/ mishap' = mishap
          \/ mishap' = [mishap EXCEPT ![tab[t].sent.sid].lost = m.lost + 1]
          \/ mishap' = [mishap EXCEPT ![tab[t].sent.sid].stray = TRUE]
      BY <1>4 DEF Close
    <3> QED BY <2>1, <3>2, <3>3
  <2>3. tab' \in [Tabs -> Request]
    BY <1>4, <1>0, RequestWrites DEF Close
  <2> QED BY <1>4, <2>2, <2>3 DEF Close, TypeOK
<1>5. ASSUME NEW t \in Tabs, Refresh(t) \/ RevokeByRefreshToken(t) PROVE TypeOK'
  <2>1. \E r \in Request : tab' = [tab EXCEPT ![t] = r]
    BY <1>5, <1>0, RequestWrites DEF Refresh, RevokeByRefreshToken, Finish, Goto, Steps
  <2> QED BY <1>5, <2>1 DEF Refresh, RevokeByRefreshToken, TypeOK
<1>6. ASSUME NEW t \in Tabs, RotateSession(t) PROVE TypeOK'
  <2>1. tab[t].sent.sid \in Sessions
    BY <1>6, <1>0 DEF RotateSession, Busy
  <2>2. CASE Rotatable(tab[t].sent.sid)
    <3>1. minted + 1 \in Secret
      BY <1>6, <2>2, NextSecret DEF RotateSession
    <3>2. session' \in [Sessions -> Row]
      <4>1. Shift(session[tab[t].sent.sid], minted + 1) \in Row
        BY <2>1, <3>1, RowWrites
      <4> QED BY <1>6, <2>1, <2>2, <4>1 DEF RotateSession
    <3>3. [sid |-> tab[t].sent.sid, secret |-> minted + 1] \in Cookie
      BY <2>1, <3>1, <1>0b
    <3>4. tab' = [tab EXCEPT ![t] = Answered(tab[t], [sid |-> tab[t].sent.sid, secret |-> minted + 1])]
      BY <1>6, <2>2 DEF RotateSession, Finish
    <3>5. tab' \in [Tabs -> Request]
      BY <3>3, <3>4, <1>0, RequestWrites
    <3> QED BY <1>6, <2>2, <3>1, <3>2, <3>5 DEF RotateSession, TypeOK
  <2>3. CASE ~Rotatable(tab[t].sent.sid)
    <3>1. tab' = [tab EXCEPT ![t] = Answered(tab[t], tab[t].sent)]
      BY <1>6, <2>3 DEF RotateSession, Finish
    <3>2. tab' \in [Tabs -> Request]
      BY <3>1, <1>0, RequestWrites
    <3> QED BY <1>6, <2>3, <3>2 DEF RotateSession, TypeOK
  <2> QED BY <2>2, <2>3
<1>7. ASSUME NEW t \in Tabs, Burn(t) \/ RevokeSession(t) PROVE TypeOK'
  <2>1. tab[t].sent.sid \in Sessions
    BY <1>7, <1>0 DEF Burn, RevokeSession, Busy
  <2>2. session' \in [Sessions -> Row]
    BY <1>7, <2>1, <1>0a, RowWrites DEF Burn, RevokeSession
  <2>3. tab' \in [Tabs -> Request]
    <3>1. PICK c \in Cookie : tab' = [tab EXCEPT ![t] = Answered(tab[t], c)]
      BY <1>7, <1>0, RequestWrites DEF Burn, RevokeSession, Finish
    <3> QED BY <3>1, <1>0, RequestWrites
  <2>4. burnt' \subseteq Sessions
    BY <1>7, <2>1 DEF Burn, RevokeSession
  <2>5. UNCHANGED <<jar, minted, mishap>>
    BY <1>7 DEF Burn, RevokeSession
  <2> QED BY <2>2, <2>3, <2>4, <2>5 DEF TypeOK
<1>8. ASSUME NEW s \in Sessions,
             RevokeForUser(s) \/ RevokeOthersForUser(s) \/ GraceEnds(s) \/ Expire(s) \/ SweepTerminal
      PROVE  TypeOK'
  <2>1. session' \in [Sessions -> Row]
    BY <1>8, <1>0a, RowWrites
       DEF RevokeForUser, RevokeOthersForUser, GraceEnds, Expire, SweepTerminal
  <2>2. mishap' \in [Sessions -> [lost : 0..MaxClosed, late : BOOLEAN, stray : BOOLEAN]]
    <3>1. CASE GraceEnds(s)
      <4>1. (mishap[s].lost > 0) = TRUE \/ (mishap[s].lost > 0) = FALSE
        OBVIOUS
      <4>2. \/ mishap' = [mishap EXCEPT ![s].late = TRUE]
            \/ mishap' = [mishap EXCEPT ![s].late = FALSE]
        BY <3>1, <4>1, Zenon DEF GraceEnds
      <4> QED BY <4>2
    <3> QED BY <1>8, <3>1 DEF RevokeForUser, RevokeOthersForUser, Expire, SweepTerminal
  <2> QED BY <1>8, <2>1, <2>2
          DEF RevokeForUser, RevokeOthersForUser, GraceEnds, Expire, SweepTerminal, TypeOK
<1>9. ASSUME UNCHANGED vars PROVE TypeOK'
  BY <1>9 DEF vars, TypeOK
<1>10. SweepTerminal => \E s \in Sessions : TRUE
  BY DEF SweepTerminal
<1> QED BY <1>1, <1>2, <1>3, <1>4, <1>5, <1>6, <1>7, <1>8, <1>9, <1>10
        DEF Next, refreshAccessToken, logout


\* What the writes leave in the columns and fields.
LEMMA RowFields ==
    ASSUME NEW r \in Row, NEW c
    PROVE  /\ Opened(c).exists /\ Opened(c).cur = c /\ ~Opened(c).revoked
           /\ Shift(r, c).cur = c /\ Shift(r, c).exists = r.exists /\ Shift(r, c).revoked = r.revoked
           /\ ~Swept(r).exists /\ ~Swept(r).revoked /\ Swept(r).cur = r.cur
           /\ Revoke(r).cur = r.cur /\ Revoke(r).exists = r.exists
           /\ Revoke(r).revoked <=> r.revoked \/ r.exists
           /\ Settled(r).cur = r.cur /\ Settled(r).exists = r.exists /\ Settled(r).revoked = r.revoked
           /\ Expired(r).cur = r.cur /\ Expired(r).exists = r.exists /\ Expired(r).revoked = r.revoked
  BY DEF Row, NoRow, Opened, Shift, Swept, Revoke, Settled, Expired

LEMMA RequestFields ==
    ASSUME NEW r \in Request, NEW c, NEW pc, NEW k
    PROVE  /\ At(r, pc).pc = pc /\ At(r, pc).kind = r.kind /\ At(r, pc).sent = r.sent
           /\ At(r, pc).set = r.set /\ At(r, pc).waits = r.waits
           /\ Left(r).pc = r.pc /\ Left(r).kind = r.kind /\ Left(r).sent = r.sent
           /\ Left(r).set = r.set /\ ~Left(r).waits
           /\ Answered(r, c).pc = "answer" /\ Answered(r, c).kind = r.kind
           /\ Answered(r, c).sent = r.sent /\ Answered(r, c).set = c /\ Answered(r, c).waits = r.waits
           /\ Sent(k, c).pc = "read" /\ Sent(k, c).kind = k /\ Sent(k, c).sent = c /\ Sent(k, c).waits
           /\ NoRequest.pc = "idle" /\ NoRequest.sent = NoCookie
  BY DEF Request, At, Left, Answered, Sent, NoRequest

LEMMA InvTypes ==
    ASSUME IInv
    PROVE  /\ session \in [Sessions -> Row] /\ jar \in [Devices -> Cookie]
           /\ tab \in [Tabs -> Request] /\ minted \in Nat
           /\ \A t \in Tabs : /\ tab[t].sent \in Cookie /\ Home[t] \in Devices
                              /\ Busy(t) => tab[t].sent.sid \in Sessions
  BY SessionsAssumption DEF IInv, TypeOK, Request, Named, Secret

-----------------------------------------------------------------------------
\* How a step may change a row.
RowStep(s) ==
    \/ session'[s] = session[s]
    \/ ~session[s].exists /\ session[s].cur = 0 /\ session'[s] = Opened(minted + 1) /\ minted' = minted + 1
    \/ /\ Live(s) /\ session'[s] = Shift(session[s], minted + 1) /\ minted' = minted + 1
       /\ \E t \in Tabs : RotateSession(t) /\ tab[t].sent.sid = s
    \/ session'[s] = Swept(session[s])
    \/ session'[s] = Revoke(session[s])
    \/ GraceEnds(s) /\ session'[s] = Settled(session[s])
    \/ session'[s] = Expired(session[s])

LEMMA RowSteps ==
    ASSUME IInv, [Next]_vars
    PROVE  (minted' = minted \/ minted' = minted + 1) /\ \A s \in Sessions : RowStep(s)
<1> USE InvTypes
<1>1. ASSUME NEW d \in Devices, Create(d) PROVE minted' = minted + 1 /\ \A s \in Sessions : RowStep(s)
  BY <1>1 DEF Create, RowStep
<1>2. ASSUME NEW t \in Tabs, RotateSession(t)
      PROVE  (minted' = minted \/ minted' = minted + 1) /\ \A s \in Sessions : RowStep(s)
  BY <1>2 DEF RotateSession, RowStep, Rotatable
<1>3. ASSUME NEW t \in Tabs, Burn(t) \/ RevokeSession(t)
      PROVE  minted' = minted /\ \A s \in Sessions : RowStep(s)
  BY <1>3 DEF Burn, RevokeSession, RowStep
<1>4. ASSUME NEW s \in Sessions,
             RevokeForUser(s) \/ RevokeOthersForUser(s) \/ GraceEnds(s) \/ Expire(s)
      PROVE  minted' = minted /\ \A r \in Sessions : RowStep(r)
  BY <1>4 DEF RevokeForUser, RevokeOthersForUser, GraceEnds, Expire, RowStep
<1>5. ASSUME SweepTerminal PROVE minted' = minted /\ \A s \in Sessions : RowStep(s)
  BY <1>5 DEF SweepTerminal, RowStep
<1>6. ASSUME NEW t \in Tabs,
             \/ refreshAccessToken(t) \/ logout(t) \/ Answer(t) \/ Close(t)
             \/ Refresh(t) \/ RevokeByRefreshToken(t)
      PROVE  UNCHANGED <<session, minted>>
  BY <1>6 DEF refreshAccessToken, logout, Send, Answer, Close, Refresh, RevokeByRefreshToken
<1>7. UNCHANGED vars => UNCHANGED <<session, minted>>
  BY DEF vars
<1> QED BY <1>1, <1>2, <1>3, <1>4, <1>5, <1>6, <1>7 DEF Next, RowStep

\* The columns of a row after a step.
LEMMA RowAfter ==
    ASSUME IInv, [Next]_vars, NEW s \in Sessions
    PROVE  LET old == session[s] new == session'[s] IN
           \/ new.exists = old.exists /\ new.revoked = old.revoked /\ new.cur = old.cur
           \/ /\ ~old.exists /\ old.cur = 0
              /\ new.exists /\ ~new.revoked /\ new.cur = minted + 1 /\ minted' = minted + 1
           \/ /\ Live(s) /\ minted' = minted + 1 /\ \E t \in Tabs : RotateSession(t) /\ tab[t].sent.sid = s
              /\ new.exists = old.exists /\ new.revoked = old.revoked /\ new.cur = minted + 1
           \/ ~new.exists /\ ~new.revoked /\ new.cur = old.cur
           \/ /\ new.exists = old.exists /\ new.cur = old.cur
              /\ new.revoked <=> old.revoked \/ old.exists
<1>1. session[s] \in Row
  BY InvTypes
<1>2. RowStep(s)
  BY RowSteps
<1> QED BY <1>1, <1>2, RowFields DEF RowStep

LEMMA RowsStep ==
    ASSUME IInv, [Next]_vars
    PROVE  Rows'
<1> SUFFICES ASSUME NEW s \in Sessions
             PROVE  /\ session'[s].revoked => session'[s].exists
                    /\ session'[s].exists => session'[s].cur # 0
  BY DEF Rows
<1>1. session[s].revoked => session[s].exists
  BY DEF IInv, Rows
<1>2. session[s].exists => session[s].cur # 0
  BY DEF IInv, Rows
<1>3. minted + 1 # 0
  BY InvTypes
<1> QED BY <1>1, <1>2, <1>3, RowAfter

LEMMA RevokedKept ==
    ASSUME IInv, [Next]_vars, NEW s \in Sessions, session[s].revoked
    PROVE  /\ session'[s].exists => session'[s].revoked
           /\ session'[s].cur = session[s].cur
<1>1. session[s].exists
  BY DEF IInv, Rows
<1> QED BY <1>1, RowAfter DEF Live


-----------------------------------------------------------------------------
\* How a step may change a request: it is sent, answered, given up by its
\* tab, brought to its next statement, or finished.
Served(t) == tab[t].pc \in Steps \ {"idle", "answer"}
Finished(t, cookie) == Served(t) /\ tab'[t] = Answered(tab[t], cookie)

TabStep(t) ==
    \/ tab'[t] = tab[t]
    \/ /\ ~Busy(t) /\ jar[Home[t]] # NoCookie
       /\ \E k \in {"refresh", "logout"} : Send(t, k) /\ tab'[t] = Sent(k, jar[Home[t]])
    \/ Answer(t) /\ tab'[t] = NoRequest
    \/ Close(t) /\ tab'[t] = Left(tab[t])
    \/ tab[t].kind = "refresh" /\ Served(t) /\ \E pc \in {"rotate", "burn"} : tab'[t] = At(tab[t], pc)
    \/ tab[t].kind = "logout" /\ Served(t) /\ tab'[t] = At(tab[t], "revoke")
    \/ tab[t].kind = "refresh" /\ Finished(t, tab[t].sent)
    \/ tab[t].kind = "logout" /\ Finished(t, NoCookie)
    \/ /\ tab[t].kind = "refresh" /\ minted' = minted + 1
       /\ Finished(t, [sid |-> tab[t].sent.sid, secret |-> minted + 1])
       /\ RotateSession(t) /\ Live(tab[t].sent.sid)

JarStep(d) ==
    \/ jar'[d] = jar[d]
    \/ /\ minted' = minted + 1
       /\ \E s \in Sessions : /\ jar'[d] = [sid |-> s, secret |-> minted + 1]
                              /\ session[s].cur = 0
    \/ \E t \in Tabs : /\ Answer(t) /\ Home[t] = d /\ tab[t].pc = "answer"
                       /\ tab[t].set # tab[t].sent /\ jar'[d] = tab[t].set

LEMMA TabSteps ==
    ASSUME IInv, [Next]_vars
    PROVE  /\ \A t \in Tabs : TabStep(t)
           /\ \A d \in Devices : JarStep(d)
<1> USE InvTypes
<1> DEFINE P == /\ \A t \in Tabs : TabStep(t)
                /\ \A d \in Devices : JarStep(d)
<1>0. \A t \in Tabs : /\ tab[t].pc \in {"rotate", "burn"} => tab[t].kind = "refresh"
                      /\ tab[t].pc = "revoke" => tab[t].kind = "logout"
  BY DEF IInv, Named
<1>1. ASSUME NEW d \in Devices, Create(d) PROVE P
  <2>1. UNCHANGED tab
    BY <1>1 DEF Create
  <2>2. \A e \in Devices : JarStep(e)
    BY <1>1 DEF Create, JarStep
  <2> QED BY <2>1, <2>2 DEF TabStep
<1>2. ASSUME NEW t \in Tabs, NEW k \in {"refresh", "logout"}, Send(t, k) PROVE P
  <2>1. UNCHANGED jar /\ tab' = [tab EXCEPT ![t] = Sent(k, jar[Home[t]])]
        /\ ~Busy(t) /\ jar[Home[t]] # NoCookie
    BY <1>2 DEF Send
  <2> QED BY <1>2, <2>1 DEF TabStep, JarStep
<1>3. ASSUME NEW t \in Tabs, Answer(t) PROVE P
  BY <1>3 DEF Answer, TabStep, JarStep
<1>4. ASSUME NEW t \in Tabs, Close(t) PROVE P
  <2>1. UNCHANGED jar /\ tab' = [tab EXCEPT ![t] = Left(tab[t])]
    BY <1>4 DEF Close
  <2> QED BY <1>4, <2>1 DEF TabStep, JarStep
<1>5. ASSUME NEW t \in Tabs, Refresh(t) PROVE P
  <2>1. UNCHANGED jar /\ Served(t) /\ tab[t].kind = "refresh"
    BY <1>5 DEF Refresh, Served, Steps
  <2>2. \/ tab' = [tab EXCEPT ![t] = Answered(tab[t], tab[t].sent)]
        \/ tab' = [tab EXCEPT ![t] = At(tab[t], "rotate")]
        \/ tab' = [tab EXCEPT ![t] = At(tab[t], "burn")]
    BY <1>5 DEF Refresh, Finish, Goto
  <2> QED BY <2>1, <2>2 DEF TabStep, JarStep, Finished
<1>6. ASSUME NEW t \in Tabs, RevokeByRefreshToken(t) PROVE P
  <2>1. UNCHANGED jar /\ Served(t) /\ tab[t].kind = "logout"
    BY <1>6 DEF RevokeByRefreshToken, Served, Steps
  <2>2. \/ tab' = [tab EXCEPT ![t] = Answered(tab[t], NoCookie)]
        \/ tab' = [tab EXCEPT ![t] = At(tab[t], "revoke")]
    BY <1>6 DEF RevokeByRefreshToken, Finish, Goto
  <2> QED BY <2>1, <2>2 DEF TabStep, JarStep, Finished
<1>7. ASSUME NEW t \in Tabs, RotateSession(t) PROVE P
  <2>1. UNCHANGED jar /\ Served(t) /\ tab[t].kind = "refresh"
    <3>1. tab[t].pc = "rotate" /\ UNCHANGED jar
      BY <1>7 DEF RotateSession
    <3> QED BY <3>1, <1>0 DEF Served, Steps
  <2>2. \/ tab' = [tab EXCEPT ![t] = Answered(tab[t], tab[t].sent)]
        \/ /\ minted' = minted + 1 /\ Live(tab[t].sent.sid)
           /\ tab' = [tab EXCEPT ![t] = Answered(tab[t], [sid |-> tab[t].sent.sid,
                                                          secret |-> minted + 1])]
    BY <1>7 DEF RotateSession, Finish, Rotatable
  <2> QED BY <1>7, <2>1, <2>2 DEF TabStep, JarStep, Finished
<1>8. ASSUME NEW t \in Tabs, Burn(t) PROVE P
  <2>1. UNCHANGED jar /\ Served(t) /\ tab[t].kind = "refresh"
    <3>1. tab[t].pc = "burn" /\ UNCHANGED jar
      BY <1>8 DEF Burn
    <3> QED BY <3>1, <1>0 DEF Served, Steps
  <2>2. tab' = [tab EXCEPT ![t] = Answered(tab[t], tab[t].sent)]
    <3>1. tab' = [tab EXCEPT ![t] = Answered(@, tab[t].sent)]
      BY <1>8, Zenon DEF Burn, Finish
    <3> QED BY <3>1
  <2> QED BY <2>1, <2>2 DEF TabStep, JarStep, Finished
<1>9. ASSUME NEW t \in Tabs, RevokeSession(t) PROVE P
  <2>1. UNCHANGED jar /\ Served(t) /\ tab[t].kind = "logout"
    BY <1>9, <1>0 DEF RevokeSession, Served, Steps
  <2>2. tab' = [tab EXCEPT ![t] = Answered(tab[t], NoCookie)]
    <3>1. tab' = [tab EXCEPT ![t] = Answered(@, NoCookie)]
      BY <1>9, Zenon DEF RevokeSession, Finish
    <3> QED BY <3>1
  <2> QED BY <2>1, <2>2 DEF TabStep, JarStep, Finished
<1>10. ASSUME NEW s \in Sessions,
              RevokeForUser(s) \/ RevokeOthersForUser(s) \/ GraceEnds(s) \/ Expire(s)
       PROVE  UNCHANGED <<jar, tab>>
  BY <1>10 DEF RevokeForUser, RevokeOthersForUser, GraceEnds, Expire
<1>11. SweepTerminal \/ UNCHANGED vars => UNCHANGED <<jar, tab>>
  BY DEF SweepTerminal, vars
<1>12. UNCHANGED <<jar, tab>> => P
  BY DEF TabStep, JarStep
<1> QED BY <1>1, <1>2, <1>3, <1>4, <1>5, <1>6, <1>7, <1>8, <1>9, <1>10, <1>11, <1>12
        DEF Next, refreshAccessToken, logout


\* The fields of a request after a step.
LEMMA TabAfter ==
    ASSUME IInv, [Next]_vars, NEW t \in Tabs
    PROVE  LET old == tab[t] new == tab'[t] IN
           \/ new = old
           \/ /\ ~Busy(t) /\ jar[Home[t]] # NoCookie /\ Send(t, new.kind)
              /\ new.pc = "read" /\ new.kind \in {"refresh", "logout"} /\ new.waits
              /\ new.sent = jar[Home[t]] /\ new.set = NoCookie
           \/ Answer(t) /\ old.pc = "answer" /\ new = NoRequest
           \/ /\ Close(t) /\ Busy(t) /\ new.pc = old.pc /\ new.kind = old.kind /\ new.sent = old.sent
              /\ new.set = old.set /\ ~new.waits
           \/ /\ Busy(t) /\ old.pc # "answer" /\ new.pc \in {"rotate", "burn", "revoke"} /\ new.kind = old.kind
              /\ new.pc = "revoke" <=> new.kind = "logout"
              /\ new.sent = old.sent /\ new.set = old.set /\ new.waits = old.waits
           \/ /\ Busy(t) /\ old.pc # "answer" /\ new.pc = "answer" /\ new.kind = old.kind
              /\ new.sent = old.sent /\ new.waits = old.waits
              /\ \/ new.kind = "refresh" /\ new.set = old.sent
                 \/ new.kind = "logout" /\ new.set = NoCookie
                 \/ /\ new.kind = "refresh" /\ minted' = minted + 1
                    /\ new.set = [sid |-> old.sent.sid, secret |-> minted + 1]
                    /\ RotateSession(t) /\ Live(old.sent.sid)
<1>1. tab[t] \in Request /\ TabStep(t)
  BY InvTypes, TabSteps
<1>2. ASSUME NEW k \in {"refresh", "logout"}, tab'[t] = Sent(k, jar[Home[t]])
      PROVE  /\ tab'[t].pc = "read" /\ tab'[t].kind = k /\ tab'[t].waits
             /\ tab'[t].sent = jar[Home[t]] /\ tab'[t].set = NoCookie
  BY <1>2 DEF Sent
<1>3. ASSUME NEW pc \in {"rotate", "burn", "revoke"}, tab'[t] = At(tab[t], pc)
      PROVE  /\ tab'[t].pc = pc /\ tab'[t].kind = tab[t].kind
             /\ tab'[t].sent = tab[t].sent /\ tab'[t].set = tab[t].set /\ tab'[t].waits = tab[t].waits
  BY <1>1, <1>3, RequestFields
<1>4. ASSUME NEW c, tab'[t] = Answered(tab[t], c)
      PROVE  /\ tab'[t].pc = "answer" /\ tab'[t].kind = tab[t].kind
             /\ tab'[t].sent = tab[t].sent /\ tab'[t].set = c /\ tab'[t].waits = tab[t].waits
  BY <1>1, <1>4, RequestFields
<1>5. ASSUME tab'[t] = Left(tab[t])
      PROVE  /\ tab'[t].pc = tab[t].pc /\ tab'[t].kind = tab[t].kind
             /\ tab'[t].sent = tab[t].sent /\ tab'[t].set = tab[t].set /\ ~tab'[t].waits
  BY <1>1, <1>5, RequestFields
<1>6. Answer(t) => tab[t].pc = "answer"
  BY DEF Answer
<1>7. Close(t) => Busy(t)
  BY DEF Close
<1>8. Served(t) => Busy(t) /\ tab[t].pc # "answer"
  BY DEF Served, Busy
<1>9. CASE \E k \in {"refresh", "logout"} : Send(t, k) /\ tab'[t] = Sent(k, jar[Home[t]])
  <2>1. PICK k \in {"refresh", "logout"} : Send(t, k) /\ tab'[t] = Sent(k, jar[Home[t]])
    BY <1>9
  <2>2. ~Busy(t) /\ jar[Home[t]] # NoCookie
    BY <2>1 DEF Send
  <2>3. tab'[t].kind = k
    BY <2>1, <1>2
  <2>4. Send(t, tab'[t].kind)
    BY <2>1, <2>3
  <2> QED BY <2>1, <2>2, <2>3, <2>4, <1>2
<1>10. CASE \/ Answer(t) /\ tab'[t] = NoRequest
            \/ Close(t) /\ tab'[t] = Left(tab[t])
            \/ tab'[t] = tab[t]
  BY <1>5, <1>6, <1>7, <1>10
<1>11. CASE \/ tab[t].kind = "refresh" /\ Served(t) /\ \E pc \in {"rotate", "burn"} : tab'[t] = At(tab[t], pc)
            \/ tab[t].kind = "logout" /\ Served(t) /\ tab'[t] = At(tab[t], "revoke")
  BY <1>3, <1>8, <1>11
<1>12. CASE \/ tab[t].kind = "refresh" /\ Finished(t, tab[t].sent)
            \/ tab[t].kind = "logout" /\ Finished(t, NoCookie)
  BY <1>4, <1>8, <1>12 DEF Finished
<1>13. CASE /\ tab[t].kind = "refresh" /\ minted' = minted + 1
            /\ Finished(t, [sid |-> tab[t].sent.sid, secret |-> minted + 1])
            /\ RotateSession(t) /\ Live(tab[t].sent.sid)
  BY <1>4, <1>8, <1>13 DEF Finished
<1> QED BY <1>1, <1>9, <1>10, <1>11, <1>12, <1>13 DEF TabStep


LEMMA NamedStep ==
    ASSUME IInv, [Next]_vars
    PROVE  Named'
<1> Named /\ Answers
  BY DEF IInv
<1>1. ASSUME NEW d \in Devices PROVE jar'[d].sid = NoSession => jar'[d] = NoCookie
  <2>1. JarStep(d)
    BY TabSteps
  <2>2. ASSUME NEW t \in Tabs, tab[t].pc = "answer", jar'[d] = tab[t].set
        PROVE  jar'[d].sid = NoSession => jar'[d] = NoCookie
    BY <2>2, SessionsAssumption DEF Named, Answers, Busy
  <2>3. ASSUME NEW s \in Sessions, jar'[d] = [sid |-> s, secret |-> minted + 1]
        PROVE  jar'[d].sid # NoSession
    BY <2>3, SessionsAssumption
  <2>4. jar'[d] = jar[d] => (jar'[d].sid = NoSession => jar'[d] = NoCookie)
    BY DEF Named
  <2> QED BY <2>1, <2>2, <2>3, <2>4 DEF JarStep
<1>2. ASSUME NEW t \in Tabs
      PROVE  /\ Busy(t)' => tab'[t].sent.sid \in Sessions /\ tab'[t].kind \in {"refresh", "logout"}
             /\ tab'[t].pc \in {"rotate", "burn"} => tab'[t].kind = "refresh"
             /\ tab'[t].pc = "revoke" => tab'[t].kind = "logout"
  <2>1. NoRequest.pc = "idle"
    BY DEF NoRequest
  <2>2. jar[Home[t]] # NoCookie => jar[Home[t]].sid \in Sessions
    BY InvTypes DEF Named, Cookie
  <2> QED BY <2>1, <2>2, TabAfter DEF Named, Busy
<1> QED BY <1>1, <1>2 DEF Named

LEMMA IssuedStep ==
    ASSUME IInv, [Next]_vars
    PROVE  Issued'
<1> Issued
  BY DEF IInv
<1>0. minted \in Nat /\ (minted' = minted \/ minted' = minted + 1)
  BY InvTypes, RowSteps
<1>1. ASSUME NEW s \in Sessions PROVE session'[s].cur <= minted'
  <2>1. session[s].cur <= minted /\ session[s].cur \in Nat
    BY InvTypes, SessionsAssumption DEF Issued, Row, Secret
  <2> QED BY <1>0, <2>1, RowAfter
<1>2. ASSUME NEW t \in Tabs PROVE tab'[t].sent.secret <= minted' /\ tab'[t].set.secret <= minted'
  <2>1. /\ tab[t].sent.secret <= minted /\ tab[t].sent.secret \in Nat
        /\ tab[t].set.secret <= minted /\ tab[t].set.secret \in Nat
        /\ jar[Home[t]].secret <= minted /\ jar[Home[t]].secret \in Nat
    BY InvTypes, SessionsAssumption DEF Issued, Request, Cookie, Secret
  <2>2. NoCookie.secret = 0 /\ NoRequest.sent = NoCookie /\ NoRequest.set = NoCookie
    BY DEF NoCookie, NoRequest
  <2>3. tab'[t].sent.secret \in {tab[t].sent.secret, jar[Home[t]].secret, 0}
    BY <2>2, TabAfter
  <2>4. [sid |-> tab[t].sent.sid, secret |-> minted + 1].secret = minted + 1
    OBVIOUS
  <2>5. \/ tab'[t].set.secret \in {tab[t].set.secret, tab[t].sent.secret, 0}
        \/ minted' = minted + 1 /\ tab'[t].set.secret = minted + 1
    BY <2>2, <2>4, TabAfter
  <2> QED BY <1>0, <2>1, <2>3, <2>5
<1>3. ASSUME NEW d \in Devices PROVE jar'[d].secret <= minted'
  <2>1. JarStep(d)
    BY TabSteps
  <2>2. jar[d].secret <= minted /\ jar[d].secret \in Nat
    BY InvTypes, SessionsAssumption DEF Issued, Cookie, Secret
  <2>3. \A t \in Tabs : tab[t].set.secret <= minted /\ tab[t].set.secret \in Nat
    BY InvTypes, SessionsAssumption DEF Issued, Request, Cookie, Secret
  <2>4. ASSUME NEW r \in Sessions, jar'[d] = [sid |-> r, secret |-> minted + 1]
        PROVE  jar'[d].secret = minted + 1
    BY <2>4
  <2>5. CASE jar'[d] = jar[d]
    BY <1>0, <2>2, <2>5
  <2>6. CASE minted' = minted + 1 /\ \E r \in Sessions : jar'[d] = [sid |-> r, secret |-> minted + 1]
    <3>1. jar'[d].secret = minted + 1
      BY <2>4, <2>6
    <3> QED BY <1>0, <2>6, <3>1
  <2>7. CASE \E t \in Tabs : jar'[d] = tab[t].set
    BY <1>0, <2>3, <2>7
  <2> QED BY <2>1, <2>5, <2>6, <2>7 DEF JarStep
<1> QED BY <1>1, <1>2, <1>3 DEF Issued

LEMMA AnswersStep ==
    ASSUME IInv, [Next]_vars
    PROVE  Answers'
<1> SUFFICES ASSUME NEW t \in Tabs, tab'[t].pc = "answer"
             PROVE  \/ tab'[t].kind = "logout" /\ tab'[t].set = NoCookie
                    \/ tab'[t].kind = "refresh" /\ tab'[t].set.sid = tab'[t].sent.sid
  BY DEF Answers
<1>1. Answers
  BY DEF IInv
<1>2. NoRequest.pc = "idle"
  BY DEF NoRequest
<1>3. [sid |-> tab[t].sent.sid, secret |-> minted + 1].sid = tab[t].sent.sid
  OBVIOUS
<1>4. \/ tab[t].pc = "answer" /\ tab'[t].kind = tab[t].kind /\ tab'[t].set = tab[t].set
         /\ tab'[t].sent = tab[t].sent
      \/ tab'[t].kind = "refresh" /\ tab'[t].set.sid = tab'[t].sent.sid
      \/ tab'[t].kind = "logout" /\ tab'[t].set = NoCookie
  BY <1>2, <1>3, TabAfter
<1> QED BY <1>1, <1>4 DEF Answers

\* A browser comes by a session when it is opened only.
LEMMA HoldsAfter ==
    ASSUME IInv, [Next]_vars, NEW s \in Sessions, NEW d \in Devices, Holds(d, s)'
    PROVE  Holds(d, s) \/ (Create(d) /\ session[s].cur = 0 /\ session'[s].cur = minted + 1)
<1>0. Named /\ Answers
  BY DEF IInv
<1>1. ASSUME jar'[d].sid = s
      PROVE  Holds(d, s) \/ (Create(d) /\ session[s].cur = 0 /\ session'[s].cur = minted + 1)
  <2>1. CASE jar'[d] = jar[d]
    BY <1>1, <2>1 DEF Holds
  <2>2. CASE jar'[d] # jar[d] /\ \E t \in Tabs : Answer(t)
    <3>1. PICK t \in Tabs : Answer(t)
      BY <2>2
    <3>2. /\ Home[t] = d /\ tab[t].pc = "answer" /\ jar'[d] = tab[t].set
      BY <2>2, <3>1, InvTypes DEF Answer
    <3>3. tab[t].set # NoCookie
      BY <1>1, <3>2, SessionsAssumption DEF NoCookie
    <3> QED BY <1>0, <1>1, <3>2, <3>3 DEF Answers, Holds, Busy
  <2>3. CASE jar'[d] # jar[d] /\ ~\E t \in Tabs : Answer(t)
    <3>1. Create(d)
      BY <2>3, InvTypes DEF Next, Create, refreshAccessToken, logout, Send, Close, Refresh,
         RotateSession, Burn, RevokeByRefreshToken, RevokeSession, RevokeForUser,
         RevokeOthersForUser, GraceEnds, Expire, SweepTerminal, vars
    <3>2. PICK r \in Sessions : /\ session[r].cur = 0
                                /\ session' = [session EXCEPT ![r] = Opened(minted + 1)]
                                /\ jar' = [jar EXCEPT ![d] = [sid |-> r, secret |-> minted + 1]]
      BY <3>1 DEF Create
    <3>3. r = s
      BY <1>1, <3>2, InvTypes
    <3>4. session'[s] = Opened(minted + 1)
      BY <3>2, <3>3, InvTypes
    <3>5. session'[s].cur = minted + 1
      BY <3>4 DEF Opened, NoRow
    <3> QED BY <3>1, <3>2, <3>3, <3>5
  <2> QED BY <2>1, <2>2, <2>3
<1>2. ASSUME NEW t \in Tabs, Home[t] = d, Busy(t)', tab'[t].sent.sid = s
      PROVE  Holds(d, s)
  <2>1. NoRequest.pc = "idle"
    BY DEF NoRequest
  <2>2. \/ Busy(t) /\ tab'[t].sent = tab[t].sent
        \/ tab'[t].sent = jar[Home[t]]
    BY <1>2, <2>1, TabAfter DEF Busy
  <2> QED BY <1>2, <2>2 DEF Holds
<1> QED BY <1>1, <1>2 DEF Holds

LEMMA OwnedStep ==
    ASSUME IInv, [Next]_vars
    PROVE  Owned'
<1> SUFFICES ASSUME NEW s \in Sessions
             PROVE  /\ \A d, e \in Devices : Holds(d, s)' /\ Holds(e, s)' => d = e
                    /\ session'[s].cur = 0 => \A d \in Devices : ~Holds(d, s)'
  BY DEF Owned
<1>1. /\ \A d, e \in Devices : Holds(d, s) /\ Holds(e, s) => d = e
      /\ session[s].cur = 0 => \A d \in Devices : ~Holds(d, s)
  BY DEF IInv, Owned
<1>2. minted + 1 # 0
  BY InvTypes
<1>3. session'[s].cur = 0 => session[s].cur = 0
  <2>1. session[s].exists => session[s].cur # 0
    BY DEF IInv, Rows
  <2> QED BY <1>2, <2>1, RowAfter DEF Live
<1>4. \A d, e \in Devices : Create(d) /\ Create(e) => d = e
  <2>1. ASSUME NEW d \in Devices, NEW e \in Devices, Create(d), Create(e) PROVE d = e
    <3>1. jar'[d].secret = minted + 1 /\ jar[d].secret # minted + 1
      BY <2>1, InvTypes, SessionsAssumption DEF Create, IInv, Issued, Cookie, Secret
    <3> QED BY <2>1, <3>1, InvTypes DEF Create
  <2> QED BY <2>1
<1> QED BY <1>1, <1>2, <1>3, <1>4, HoldsAfter


-----------------------------------------------------------------------------
\* A session is unharmed no more once the answer of a refresh of it is lost.
LEMMA HarmKept ==
    ASSUME IInv, [Next]_vars, NEW s \in Sessions, Unharmed(s)'
    PROVE  /\ Unharmed(s)
           /\ \A t \in Tabs : Close(t) => ~RefreshOf(t, s)
<1>1. mishap[s].lost \in Nat /\ mishap \in [Sessions -> [lost : 0..MaxClosed, late : BOOLEAN, stray : BOOLEAN]]
  BY SessionsAssumption DEF IInv, TypeOK
<1>2. ASSUME NEW t \in Tabs, Close(t), RefreshOf(t, s)
      PROVE  FALSE
  <2>1. \/ mishap' = [mishap EXCEPT ![s].lost = @ + 1]
        \/ mishap' = [mishap EXCEPT ![s].stray = TRUE]
    BY <1>2 DEF Close, RefreshOf, Refreshing
  <2> QED BY <1>1, <2>1 DEF Unharmed
<1>3. ASSUME NEW t \in Tabs, Close(t), ~RefreshOf(t, s)
      PROVE  mishap'[s] = mishap[s]
  <2>1. tab[t].kind = "logout" \/ tab[t].sent.sid # s
    BY <1>3, InvTypes DEF RefreshOf, Refreshing, Close, IInv, Named
  <2>2. \/ mishap' = mishap
        \/ tab[t].kind # "logout" /\ mishap' = [mishap EXCEPT ![tab[t].sent.sid].lost = @ + 1]
        \/ tab[t].kind # "logout" /\ mishap' = [mishap EXCEPT ![tab[t].sent.sid].stray = TRUE]
    BY <1>3 DEF Close
  <2> QED BY <1>1, <2>1, <2>2
<1>4. ASSUME ~\E t \in Tabs : Close(t)
      PROVE  mishap'[s].lost = mishap[s].lost /\ mishap'[s].stray = mishap[s].stray
  <2>1. ASSUME NEW r \in Sessions, GraceEnds(r)
        PROVE  mishap'[s].lost = mishap[s].lost /\ mishap'[s].stray = mishap[s].stray
    BY <2>1, <1>1 DEF GraceEnds
  <2>2. (~\E r \in Sessions : GraceEnds(r)) => UNCHANGED mishap
    BY <1>4 DEF Next, Create, refreshAccessToken, logout, Send, Answer, Refresh,
         RotateSession, Burn, RevokeByRefreshToken, RevokeSession, RevokeForUser,
         RevokeOthersForUser, Expire, SweepTerminal, vars
  <2> QED BY <2>1, <2>2
<1> QED BY <1>2, <1>3, <1>4 DEF Unharmed


\* Where a refresh of an unharmed session comes from, and where the cookie an
\* answer brings.
LEMMA RefreshAfter ==
    ASSUME IInv, [Next]_vars, NEW s \in Sessions, Unharmed(s)', NEW t \in Tabs, RefreshOf(t, s)'
    PROVE  \/ tab'[t].waits /\ Send(t, "refresh") /\ jar[Home[t]].sid = s
           \/ tab'[t].waits = tab[t].waits /\ RefreshOf(t, s) /\ ~Answer(t)
<1>1. tab'[t].kind = "refresh" /\ tab'[t].pc # "idle" /\ tab'[t].sent.sid = s
  BY DEF RefreshOf, Refreshing, Busy
<1>2. NoRequest.pc = "idle"
  BY DEF NoRequest
<1>3. Answer(t) => tab'[t] = NoRequest
  BY InvTypes DEF Answer
<1> QED BY <1>1, <1>2, <1>3, TabAfter, HarmKept DEF RefreshOf, Refreshing, Busy

LEMMA BringsAfter ==
    ASSUME IInv, [Next]_vars, NEW s \in Sessions, NEW t \in Tabs, Brings(t, s)'
    PROVE  \/ Brings(t, s) /\ tab'[t].set = tab[t].set
           \/ RotateSession(t) /\ Live(s) /\ tab[t].sent.sid = s /\ tab'[t].set.secret = minted + 1
<1>1. /\ tab'[t].kind = "refresh" /\ tab'[t].pc = "answer" /\ tab'[t].sent.sid = s
      /\ tab'[t].set # tab'[t].sent
  BY DEF Brings, RefreshOf, Refreshing
<1>2. NoRequest.pc = "idle"
  BY DEF NoRequest
<1>3. [sid |-> tab[t].sent.sid, secret |-> minted + 1].secret = minted + 1
  OBVIOUS
<1> QED BY <1>1, <1>2, <1>3, TabAfter DEF Brings, RefreshOf, Refreshing, Busy

\* A rotation makes the new secret current and brings it.
LEMMA RotateAfter ==
    ASSUME IInv, NEW t \in Tabs, NEW s \in Sessions, RotateSession(t), Live(s), tab[t].sent.sid = s
    PROVE  session'[s].cur = minted + 1 /\ Brings(t, s)' /\ RefreshOf(t, s) /\ tab[t].pc = "rotate"
<1> USE InvTypes
<1>1. /\ session' = [session EXCEPT ![s] = Shift(session[s], minted + 1)]
      /\ tab' = [tab EXCEPT ![t] = Answered(tab[t], [sid |-> s, secret |-> minted + 1])]
      /\ tab[t].pc = "rotate"
  BY DEF RotateSession, Rotatable, Finish
<1>2. session'[s] = Shift(session[s], minted + 1)
  BY <1>1
<1>3. session'[s].cur = minted + 1
  BY <1>2, RowFields
<1>4. tab[t].kind = "refresh" /\ Busy(t)
  BY <1>1 DEF IInv, Named, Busy
<1>5. tab'[t] = Answered(tab[t], [sid |-> s, secret |-> minted + 1])
  BY <1>1
<1>6. /\ tab'[t].pc = "answer" /\ tab'[t].kind = "refresh" /\ tab'[t].sent = tab[t].sent
      /\ tab'[t].set = [sid |-> s, secret |-> minted + 1]
  <2> DEFINE c == [sid |-> s, secret |-> minted + 1]
  <2>1. tab[t] \in Request /\ tab'[t] = Answered(tab[t], c)
    BY <1>5
  <2> HIDE DEF c
  <2>2. /\ tab'[t].pc = "answer" /\ tab'[t].kind = tab[t].kind
        /\ tab'[t].sent = tab[t].sent /\ tab'[t].set = c
    BY <2>1, RequestFields
  <2> QED BY <1>4, <2>2 DEF c
<1>7. tab[t].sent.secret # minted + 1
  BY SessionsAssumption DEF IInv, Issued, Cookie, Secret
<1>8. tab'[t].set.secret = minted + 1
  BY <1>6
<1>9. tab'[t].set # tab'[t].sent
  BY <1>6, <1>7, <1>8
<1> QED BY <1>1, <1>3, <1>4, <1>6, <1>9 DEF Brings, RefreshOf, Refreshing, Busy

\* Two browsers that have to do with a session are one.
LEMMA OneHome ==
    ASSUME IInv, NEW s \in Sessions, NEW d \in Devices, NEW e \in Devices,
           Holds(d, s), Holds(e, s)
    PROVE  d = e
  BY DEF IInv, Owned

LEMMA RefreshHolds ==
    ASSUME NEW s \in Sessions, NEW t \in Tabs, RefreshOf(t, s)
    PROVE  Holds(Home[t], s)
  BY DEF RefreshOf, Refreshing, Holds

\* While a session lives, its one refresh and the cookie on its way are kept.
LEMMA AloneStep ==
    ASSUME IInv, [Next]_vars, Locks, NEW s \in Sessions, Unharmed(s)', Alone(s)
    PROVE  Alone(s)'
<1> USE InvTypes
<1>1. ASSUME NEW t \in Tabs, NEW u \in Tabs, Send(t, "refresh"), jar[Home[t]].sid = s, RefreshOf(u, s)
      PROVE  FALSE
  <2>1. Holds(Home[t], s) /\ Holds(Home[u], s)
    BY <1>1, RefreshHolds DEF Holds
  <2>2. Home[t] = Home[u]
    BY <2>1, OneHome
  <2>3. LockFree(t) /\ tab[u].waits /\ Refreshing(u)
    BY <1>1 DEF Send, Alone, RefreshOf
  <2> QED BY <2>2, <2>3 DEF LockFree
<1>2. ASSUME NEW t \in Tabs, NEW u \in Tabs, Send(t, "refresh"), Send(u, "refresh")
      PROVE  t = u
  <2>1. /\ tab' = [tab EXCEPT ![t] = Sent("refresh", jar[Home[t]])]
        /\ tab' = [tab EXCEPT ![u] = Sent("refresh", jar[Home[u]])]
        /\ tab[u].pc = "idle"
    BY <1>2 DEF Send, Busy
  <2>2. tab'[u].pc = "read"
    BY <2>1 DEF Sent
  <2> QED BY <2>1, <2>2
<1>3. ASSUME NEW t \in Tabs, RefreshOf(t, s)' PROVE tab'[t].waits
  BY <1>3, RefreshAfter DEF Alone
<1>4. ASSUME NEW t \in Tabs, NEW u \in Tabs, RefreshOf(t, s)', RefreshOf(u, s)' PROVE t = u
  BY <1>1, <1>2, <1>4, RefreshAfter DEF Alone
<1> QED BY <1>3, <1>4 DEF Alone

LEMMA ComingStep ==
    ASSUME IInv, [Next]_vars, NEW s \in Sessions, Unharmed(s)', Live(s), Live(s)', Alone(s), Coming(s)
    PROVE  Coming(s)'
<1> USE InvTypes
<1>1. \/ session'[s].cur = session[s].cur
      \/ session'[s].cur = minted + 1 /\ \E t \in Tabs : RotateSession(t) /\ tab[t].sent.sid = s
  BY RowAfter DEF Live
<1>2. ASSUME NEW t \in Tabs, Brings(t, s)' PROVE tab'[t].set.secret = session'[s].cur
  <2>1. CASE Brings(t, s) /\ tab'[t].set = tab[t].set
    <3>1. ASSUME NEW u \in Tabs, RotateSession(u), tab[u].sent.sid = s PROVE FALSE
      BY <2>1, <3>1, RotateAfter DEF Brings, Alone
    <3> QED BY <1>1, <2>1, <3>1 DEF Coming
  <2>2. CASE RotateSession(t) /\ tab[t].sent.sid = s /\ tab'[t].set.secret = minted + 1
    BY <2>2, RotateAfter
  <2> QED BY <1>2, <2>1, <2>2, BringsAfter
<1>3. ASSUME NEW d \in Devices, jar'[d].sid = s, session'[s].cur = session[s].cur
      PROVE  jar'[d].secret = session'[s].cur \/ \E t \in Tabs : Brings(t, s)'
  <2>1. CASE jar'[d] = jar[d]
    <3>1. CASE jar[d].secret = session[s].cur
      BY <1>3, <2>1, <3>1
    <3>2. ASSUME NEW t \in Tabs, Brings(t, s), Answer(t) PROVE jar'[d].secret = session'[s].cur
      <4>1. RefreshOf(t, s) /\ tab[t].set # tab[t].sent /\ tab[t].waits
        BY <3>2 DEF Brings, Alone
      <4>2. Home[t] = d
        <5>1. Holds(Home[t], s) /\ Holds(d, s)
          BY <1>3, <2>1, <4>1, RefreshHolds DEF Holds
        <5> QED BY <5>1, OneHome
      <4>3. jar'[d] = tab[t].set
        BY <3>2, <4>1, <4>2 DEF Answer
      <4> QED BY <1>3, <3>2, <4>3 DEF Coming
    <3>3. ASSUME NEW t \in Tabs, Brings(t, s), ~Answer(t) PROVE Brings(t, s)'
      <4>1. ~Close(t)
        BY <3>3, HarmKept DEF Brings
      <4> QED BY <3>3, <4>1, TabAfter DEF Brings, RefreshOf, Refreshing, Busy
    <3>4. jar[d].secret = session[s].cur \/ \E t \in Tabs : Brings(t, s)
      BY <1>3, <2>1 DEF Coming
    <3> QED BY <3>1, <3>2, <3>3, <3>4
  <2>2. ASSUME NEW r \in Sessions, jar'[d] = [sid |-> r, secret |-> minted + 1], session[r].cur = 0
        PROVE  FALSE
    <3>1. r = s
      BY <1>3, <2>2
    <3> QED BY <2>2, <3>1 DEF IInv, Rows, Live
  <2>3. ASSUME NEW t \in Tabs, tab[t].pc = "answer", tab[t].set # tab[t].sent, jar'[d] = tab[t].set
        PROVE  jar'[d].secret = session'[s].cur
    <3>1. tab[t].set.sid = s
      BY <1>3, <2>3
    <3>2. tab[t].set # NoCookie
      BY <3>1, SessionsAssumption DEF NoCookie
    <3>3. tab[t].kind = "refresh" /\ tab[t].sent.sid = s
      BY <2>3, <3>1, <3>2 DEF IInv, Answers
    <3>4. Brings(t, s)
      BY <2>3, <3>3 DEF Brings, RefreshOf, Refreshing, Busy
    <3> QED BY <1>3, <2>3, <3>4 DEF Coming
  <2>4. JarStep(d)
    BY TabSteps
  <2> QED BY <2>1, <2>2, <2>3, <2>4 DEF JarStep
<1>4. ASSUME NEW t \in Tabs, RotateSession(t), tab[t].sent.sid = s
      PROVE  \E u \in Tabs : Brings(u, s)'
  BY <1>4, RotateAfter
<1> QED BY <1>1, <1>2, <1>3, <1>4 DEF Coming

\* No browser has to do with a session before it is opened, and then one does.
LEMMA FirstHeld ==
    ASSUME IInv, [Next]_vars, NEW s \in Sessions, ~Live(s), Live(s)'
    PROVE  /\ \A t \in Tabs : ~RefreshOf(t, s)'
           /\ \A d \in Devices : jar'[d].sid = s => jar'[d].secret = session'[s].cur
<1> USE InvTypes
<1>1. session[s].cur = 0 /\ session'[s].cur = minted + 1
  BY RowAfter DEF Live
<1>2. \A d \in Devices : ~Holds(d, s)
  BY <1>1 DEF IInv, Owned
<1>3. ASSUME NEW t \in Tabs, RefreshOf(t, s)' PROVE FALSE
  <2>1. NoRequest.pc = "idle"
    BY DEF NoRequest
  <2>2. \/ Busy(t) /\ tab[t].sent.sid = s
        \/ jar[Home[t]].sid = s
    BY <1>3, <2>1, TabAfter DEF RefreshOf, Refreshing, Busy
  <2> QED BY <1>2, <2>2 DEF Holds
<1>4. ASSUME NEW d \in Devices, jar'[d].sid = s PROVE jar'[d].secret = session'[s].cur
  <2>1. JarStep(d)
    BY TabSteps
  <2>2. jar'[d] # jar[d]
    BY <1>2, <1>4 DEF Holds
  <2>3. ASSUME NEW t \in Tabs, tab[t].pc = "answer", jar'[d] = tab[t].set PROVE FALSE
    <3>1. tab[t].set.sid = s /\ tab[t].set # NoCookie
      BY <1>4, <2>3, SessionsAssumption DEF NoCookie
    <3>2. tab[t].sent.sid = s
      BY <2>3, <3>1 DEF IInv, Answers
    <3> QED BY <1>2, <2>3, <3>2 DEF Holds, Busy
  <2>4. ASSUME NEW r \in Sessions, jar'[d] = [sid |-> r, secret |-> minted + 1]
        PROVE  jar'[d].secret = minted + 1
    BY <2>4
  <2> QED BY <1>1, <2>1, <2>2, <2>3, <2>4 DEF JarStep
<1> QED BY <1>3, <1>4

LEMMA OpenedStep ==
    ASSUME IInv, [Next]_vars, NEW s \in Sessions, ~Live(s), Live(s)'
    PROVE  Alone(s)' /\ Coming(s)'
<1>1. ASSUME NEW t \in Tabs, Brings(t, s)' PROVE FALSE
  BY <1>1, FirstHeld DEF Brings
<1> QED BY <1>1, FirstHeld DEF Alone, Coming

LEMMA CurrentStep ==
    ASSUME IInv, [Next]_vars
    PROVE  Current'
<1> SUFFICES ASSUME Locks, NEW s \in Sessions, Live(s)', Unharmed(s)'
             PROVE  Alone(s)' /\ Coming(s)'
  BY DEF Current
<1>1. CASE Live(s)
  <2>1. Unharmed(s)
    BY HarmKept
  <2>2. Alone(s) /\ Coming(s)
    BY <1>1, <2>1 DEF IInv, Current
  <2> QED BY <1>1, <2>2, AloneStep, ComingStep
<1>2. CASE ~Live(s)
  BY <1>2, OpenedStep
<1> QED BY <1>1, <1>2

-----------------------------------------------------------------------------
LEMMA Inductive == Spec => []IInv
<1>1. IInv /\ [Next]_vars => IInv'
  BY TypeStep, RowsStep, NamedStep, IssuedStep, AnswersStep, OwnedStep, CurrentStep DEF IInv
<1> QED BY <1>1, InitInv, PTL DEF Spec

\* Rows, cookies and requests keep the shape of user_session and of a request,
\* whichever tabs, logouts, sweeps and lost answers interleave.
THEOREM SessionsTyped == Spec => []TypeOK
<1>1. IInv => TypeOK
  BY DEF IInv
<1> QED BY <1>1, Inductive, PTL

\* A browser that takes the lock holds the current secret of its session
\* whenever no answer is on its way to it and none was lost (authRefresh.ts:
\* each rotation is a valid sequential one).
THEOREM CookieStaysCurrent == Spec => []CookieCurrent
<1>1. ASSUME IInv, Locks, NEW d \in Devices, jar[d].sid # NoSession,
             Live(jar[d].sid), Unharmed(jar[d].sid), ~Answering(jar[d].sid)
      PROVE  jar[d].secret = session[jar[d].sid].cur
  <2> DEFINE s == jar[d].sid
  <2>1. s \in Sessions
    BY <1>1, InvTypes DEF Cookie
  <2>2. Alone(s) /\ Coming(s)
    BY <1>1, <2>1 DEF IInv, Current
  <2>3. ASSUME NEW t \in Tabs, Brings(t, s) PROVE Answering(s)
    BY <2>2, <2>3 DEF Brings, RefreshOf, Alone, Answering
  <2> QED BY <1>1, <2>2, <2>3 DEF Coming
<1>2. IInv => CookieCurrent
  BY <1>1 DEF CookieCurrent
<1> QED BY <1>2, Inductive, PTL

\* No secret is issued for a revoked session and it never comes back, although
\* a refresh that read it before its revocation goes on to rotate it.
THEOREM RevocationIsFinal == Spec => RevokedIsFinal
<1>1. ASSUME IInv, [Next]_vars
      PROVE  [\A s \in Sessions : session[s].revoked =>
                 /\ session'[s].exists => session'[s].revoked
                 /\ session'[s].cur = session[s].cur]_session
  BY <1>1, RevokedKept
<1> QED BY <1>1, Inductive, PTL DEF Spec, RevokedIsFinal

-----------------------------------------------------------------------------
(***************************************************************************)
(* No session is burned but for two lost answers, one and its grace, or a  *)
(* request that outlived its tab.                                          *)
(***************************************************************************)
Blameless(s) == mishap[s].lost < 2 /\ ~mishap[s].late /\ ~mishap[s].stray

Waiting(t, s) == RefreshOf(t, s) /\ tab[t].waits
Fetches(t, s) == Brings(t, s) /\ tab[t].waits

\* The secret before the current one, in its grace.
Graced(s, secret) ==
    session[s].prev # 0 /\ secret = session[s].prev /\ session[s].recent

\* One refresh at a time, and none that the row refuses.
Lined(s) ==
    /\ \A t \in Tabs : RefreshOf(t, s) /\ ~tab[t].waits => tab[t].pc = "answer"
    /\ \A t, u \in Tabs : Waiting(t, s) /\ Waiting(u, s) => t = u
    /\ \A t \in Tabs : Waiting(t, s) => tab[t].pc # "burn"
    /\ \A t \in Tabs : Waiting(t, s) /\ tab[t].pc = "read" =>
          tab[t].sent.secret = session[s].cur \/ Graced(s, tab[t].sent.secret)

\* The cookie is the current one; or the one before it, because an answer is
\* on its way or was lost; or one answer was lost and another is on its way.
CookieSupplied(s, d) ==
    \/ jar[d].secret = session[s].cur
    \/ Graced(s, jar[d].secret) /\ (mishap[s].lost = 1 \/ \E t \in Tabs : Fetches(t, s))
    \/ mishap[s].lost = 1 /\ \E t \in Tabs : Fetches(t, s)

Supplied(s) ==
    /\ \A t \in Tabs : Fetches(t, s) => tab[t].set.secret = session[s].cur
    /\ \A d \in Devices : jar[d].sid = s => CookieSupplied(s, d)

LateLost == \A s \in Sessions : mishap[s].late => mishap[s].lost > 0

Unburnt ==
    Locks => \A s \in Sessions : Live(s) /\ Blameless(s) => Lined(s) /\ Supplied(s)

BInv == IInv /\ LateLost /\ Unburnt /\ NoFalseReuse

\* What befalls the answers of a session's refreshes in a step.
LEMMA MishapAfter ==
    ASSUME IInv, LateLost, [Next]_vars, NEW s \in Sessions
    PROVE  LET old == mishap[s] new == mishap'[s] IN
           /\ old.lost \in Nat
           /\ new.late => new.lost > 0
           /\ \/ new = old /\ (\A t \in Tabs : Close(t) => ~RefreshOf(t, s)) /\ ~GraceEnds(s)
              \/ /\ GraceEnds(s) /\ new.lost = old.lost /\ new.stray = old.stray
                 /\ new.late <=> old.lost > 0
              \/ \E t \in Tabs : /\ Close(t) /\ RefreshOf(t, s) /\ tab[t].pc = "answer"
                                 /\ new.lost = old.lost + 1 /\ new.stray = old.stray
                                 /\ new.late = old.late
              \/ new.stray /\ new.lost = old.lost /\ new.late = old.late
<1>1. /\ mishap[s].lost \in Nat
      /\ mishap \in [Sessions -> [lost : 0..MaxClosed, late : BOOLEAN, stray : BOOLEAN]]
      /\ mishap[s].late => mishap[s].lost > 0
  BY SessionsAssumption DEF IInv, TypeOK, LateLost
<1>2. ASSUME NEW t \in Tabs, Close(t)
      PROVE  /\ ~GraceEnds(s)
             /\ \A u \in Tabs : Close(u) => u = t
  <2>1. tab' = [tab EXCEPT ![t] = Left(tab[t])] /\ tab[t].waits
    BY <1>2 DEF Close
  <2>2. tab'[t] # tab[t]
    BY <2>1, InvTypes, RequestFields
  <2>3. \A u \in Tabs : u # t => tab'[u] = tab[u]
    BY <2>1, InvTypes
  <2>4. ASSUME NEW u \in Tabs, Close(u) PROVE tab'[u] # tab[u]
    BY <2>4, InvTypes, RequestFields DEF Close
  <2> QED BY <2>2, <2>3, <2>4 DEF GraceEnds
<1>3. CASE \E t \in Tabs : Close(t)
  <2>1. PICK t \in Tabs : Close(t)
    BY <1>3
  <2>2. CASE RefreshOf(t, s)
    <3>1. tab[t].kind # "logout" /\ tab[t].sent.sid = s
      BY <2>2 DEF RefreshOf, Refreshing
    <3>2. CASE tab[t].pc = "answer"
      <4>1. mishap' = [mishap EXCEPT ![s].lost = @ + 1]
        BY <2>1, <3>1, <3>2 DEF Close
      <4>2. /\ mishap'[s].lost = mishap[s].lost + 1 /\ mishap'[s].stray = mishap[s].stray
            /\ mishap'[s].late = mishap[s].late
        BY <1>1, <4>1
      <4> QED BY <1>1, <2>1, <2>2, <3>2, <4>2
    <3>3. CASE tab[t].pc # "answer"
      <4>1. mishap' = [mishap EXCEPT ![s].stray = TRUE]
        BY <2>1, <3>1, <3>3 DEF Close
      <4>2. /\ mishap'[s].lost = mishap[s].lost /\ mishap'[s].stray
            /\ mishap'[s].late = mishap[s].late
        BY <1>1, <4>1
      <4> QED BY <1>1, <4>2
    <3> QED BY <3>2, <3>3
  <2>3. CASE ~RefreshOf(t, s)
    <3>1. tab[t].kind = "logout" \/ tab[t].sent.sid # s
      BY <2>1, <2>3, InvTypes DEF RefreshOf, Refreshing, Close, IInv, Named
    <3>2. \/ mishap' = mishap
          \/ tab[t].kind # "logout" /\ mishap' = [mishap EXCEPT ![tab[t].sent.sid].lost = @ + 1]
          \/ tab[t].kind # "logout" /\ mishap' = [mishap EXCEPT ![tab[t].sent.sid].stray = TRUE]
      BY <2>1 DEF Close
    <3>3. mishap'[s] = mishap[s]
      BY <1>1, <3>1, <3>2
    <3> QED BY <1>1, <1>2, <2>1, <2>3, <3>3
  <2> QED BY <2>2, <2>3
<1>4. CASE ~\E t \in Tabs : Close(t)
  <2>1. CASE GraceEnds(s)
    <3>1. mishap'[s].late <=> mishap[s].lost > 0
      BY <1>1, <2>1 DEF GraceEnds
    <3>2. mishap'[s].lost = mishap[s].lost /\ mishap'[s].stray = mishap[s].stray
      BY <1>1, <2>1 DEF GraceEnds
    <3> QED BY <1>1, <2>1, <3>1, <3>2
  <2>2. ASSUME NEW r \in Sessions, GraceEnds(r), ~GraceEnds(s) PROVE mishap'[s] = mishap[s]
    BY <1>1, <2>2 DEF GraceEnds
  <2>3. (~\E r \in Sessions : GraceEnds(r)) => UNCHANGED mishap
    BY <1>4 DEF Next, Create, refreshAccessToken, logout, Send, Answer, Refresh,
         RotateSession, Burn, RevokeByRefreshToken, RevokeSession, RevokeForUser,
         RevokeOthersForUser, Expire, SweepTerminal, vars
  <2> QED BY <1>1, <1>4, <2>1, <2>2, <2>3
<1> QED BY <1>3, <1>4

\* So a session that is blameless was so before.
LEMMA BlamelessBefore ==
    ASSUME IInv, LateLost, [Next]_vars, NEW s \in Sessions, Blameless(s)'
    PROVE  /\ Blameless(s) /\ mishap[s].lost \in {0, 1}
           /\ \/ /\ mishap'[s].lost = mishap[s].lost /\ \A t \in Tabs : Close(t) => ~RefreshOf(t, s)
                 /\ GraceEnds(s) => mishap[s].lost = 0
              \/ /\ mishap'[s].lost = 1 /\ mishap[s].lost = 0 /\ ~GraceEnds(s)
                 /\ \E t \in Tabs : Close(t) /\ RefreshOf(t, s) /\ tab[t].pc = "answer"
<1>1. ASSUME NEW t \in Tabs, Close(t)
      PROVE  ~GraceEnds(s)
  <2>1. tab'[t] # tab[t]
    BY <1>1, InvTypes, RequestFields DEF Close
  <2> QED BY <2>1 DEF GraceEnds
<1>2. GraceEnds(s) => \A t \in Tabs : ~Close(t)
  BY <1>1
<1>3. mishap[s].late => mishap[s].lost > 0
  BY DEF LateLost
<1> DEFINE old == mishap[s]
           new == mishap'[s]
<1>4. /\ old.lost \in Nat
      /\ \/ new = old /\ (\A t \in Tabs : Close(t) => ~RefreshOf(t, s)) /\ ~GraceEnds(s)
         \/ /\ GraceEnds(s) /\ new.lost = old.lost /\ new.stray = old.stray
            /\ new.late <=> old.lost > 0
         \/ \E t \in Tabs : /\ Close(t) /\ RefreshOf(t, s) /\ tab[t].pc = "answer"
                            /\ new.lost = old.lost + 1 /\ new.stray = old.stray
                            /\ new.late = old.late
         \/ new.stray /\ new.lost = old.lost /\ new.late = old.late
  BY MishapAfter
<1>5. new.lost < 2 /\ ~new.late /\ ~new.stray
  BY DEF Blameless
<1>6. old.late => old.lost > 0
  BY <1>3
<1> HIDE DEF old, new
<1>7. CASE new = old /\ (\A t \in Tabs : Close(t) => ~RefreshOf(t, s)) /\ ~GraceEnds(s)
  BY <1>4, <1>5, <1>7 DEF Blameless, old, new
<1>8. CASE GraceEnds(s) /\ new.lost = old.lost /\ new.stray = old.stray /\ ~(old.lost > 0)
  <2>1. old.lost = 0 /\ ~old.late /\ ~old.stray
    BY <1>4, <1>5, <1>6, <1>8
  <2> QED BY <1>2, <1>8, <2>1 DEF Blameless, old, new
<1>9. ASSUME NEW t \in Tabs, Close(t), RefreshOf(t, s), tab[t].pc = "answer",
             new.lost = old.lost + 1, new.stray = old.stray, new.late = old.late
      PROVE  /\ Blameless(s) /\ old.lost = 0 /\ new.lost = 1 /\ ~GraceEnds(s)
  <2>1. old.lost = 0 /\ new.lost = 1 /\ ~old.late /\ ~old.stray
    BY <1>4, <1>5, <1>9
  <2> QED BY <1>1, <1>9, <2>1 DEF Blameless, old
<1>10. CASE \E t \in Tabs : /\ Close(t) /\ RefreshOf(t, s) /\ tab[t].pc = "answer"
                            /\ new.lost = old.lost + 1 /\ new.stray = old.stray
                            /\ new.late = old.late
  BY <1>9, <1>10 DEF old, new
<1> QED BY <1>4, <1>5, <1>7, <1>8, <1>10

\* The secrets of a session that lives on: the grace ends, or a rotation moves
\* the current one to where it is honoured a while longer.
LEMMA SecretsAfter ==
    ASSUME IInv, [Next]_vars, NEW s \in Sessions, Live(s), Live(s)'
    PROVE  LET old == session[s] new == session'[s] IN
           \/ new.cur = old.cur /\ new.prev = old.prev /\ new.recent = old.recent
           \/ GraceEnds(s) /\ new.cur = old.cur
           \/ /\ \E t \in Tabs : RotateSession(t) /\ tab[t].sent.sid = s
              /\ new.cur = minted + 1 /\ new.prev = old.cur /\ new.recent /\ old.cur # 0
<1>1. session[s] \in Row /\ RowStep(s) /\ session[s].exists
  BY InvTypes, RowSteps DEF Live
<1>2. session[s].cur # 0
  BY <1>1 DEF IInv, Rows
<1>3. /\ Settled(session[s]).cur = session[s].cur
      /\ Expired(session[s]).cur = session[s].cur /\ Expired(session[s]).prev = session[s].prev
      /\ Expired(session[s]).recent = session[s].recent
  BY <1>1 DEF Row, Settled, Expired
<1>4. /\ Shift(session[s], minted + 1).cur = minted + 1
      /\ Shift(session[s], minted + 1).prev = session[s].cur
      /\ Shift(session[s], minted + 1).recent
  <2> DEFINE n == minted + 1
  <2> HIDE DEF n
  <2>1. /\ Shift(session[s], n).cur = n /\ Shift(session[s], n).prev = session[s].cur
        /\ Shift(session[s], n).recent
    BY <1>1 DEF Row, Shift
  <2> QED BY <2>1 DEF n
<1>5. ~Swept(session[s]).exists /\ Revoke(session[s]).revoked
  BY <1>1, RowFields
<1> QED BY <1>1, <1>2, <1>3, <1>4, <1>5 DEF RowStep, Live

\* Where a refresh of a blameless session comes from.
LEMMA RequestAfter ==
    ASSUME IInv, LateLost, [Next]_vars, NEW s \in Sessions, Blameless(s)',
           NEW t \in Tabs, RefreshOf(t, s)'
    PROVE  \/ /\ Send(t, "refresh") /\ jar[Home[t]].sid = s /\ tab'[t].sent = jar[Home[t]]
              /\ tab'[t].waits /\ tab'[t].pc = "read"
           \/ /\ RefreshOf(t, s) /\ ~Answer(t) /\ tab'[t].sent = tab[t].sent
              /\ tab'[t].waits => tab[t].waits
              /\ tab[t].pc = "answer" => tab'[t].pc = "answer"
              /\ tab'[t].pc = "read" => tab[t].pc = "read"
              /\ tab[t].waits /\ ~tab'[t].waits => tab'[t].pc = "answer"
<1>1. tab'[t].kind = "refresh" /\ tab'[t].pc # "idle" /\ tab'[t].sent.sid = s
  BY DEF RefreshOf, Refreshing, Busy
<1>2. NoRequest.pc = "idle"
  BY DEF NoRequest
<1>3. Answer(t) => tab'[t] = NoRequest
  BY InvTypes DEF Answer
<1>4. Close(t) /\ RefreshOf(t, s) => tab[t].pc = "answer"
  <2>1. ASSUME Close(t), RefreshOf(t, s), tab[t].pc # "answer" PROVE FALSE
    <3>1. mishap \in [Sessions -> [lost : 0..MaxClosed, late : BOOLEAN, stray : BOOLEAN]]
      BY DEF IInv, TypeOK
    <3>2. mishap' = [mishap EXCEPT ![s].stray = TRUE]
      BY <2>1 DEF Close, RefreshOf, Refreshing
    <3> QED BY <3>1, <3>2 DEF Blameless
  <2> QED BY <2>1
<1>5. CASE tab'[t] = tab[t]
  BY <1>1, <1>2, <1>3, <1>5 DEF RefreshOf, Refreshing, Busy
<1>6. CASE tab'[t] # tab[t] /\ Close(t)
  BY <1>1, <1>2, <1>3, <1>4, <1>6, TabAfter DEF RefreshOf, Refreshing, Busy
<1>7. CASE tab'[t] # tab[t] /\ ~Close(t)
  BY <1>1, <1>2, <1>3, <1>7, TabAfter DEF RefreshOf, Refreshing, Busy
<1> QED BY <1>5, <1>6, <1>7

\* The lock keeps a second refresh from starting.
LEMMA SendAlone ==
    ASSUME IInv, Locks, NEW s \in Sessions, NEW t \in Tabs, NEW u \in Tabs,
           Send(t, "refresh"), jar[Home[t]].sid = s, RefreshOf(u, s), tab[u].waits
    PROVE  FALSE
<1>1. Holds(Home[t], s) /\ Holds(Home[u], s)
  BY RefreshHolds DEF Holds
<1>2. Home[t] = Home[u]
  BY <1>1, InvTypes, OneHome
<1>3. LockFree(t) /\ Refreshing(u)
  BY DEF Send, RefreshOf
<1> QED BY <1>2, <1>3 DEF LockFree

LEMMA SendOnce ==
    ASSUME IInv, NEW t \in Tabs, NEW u \in Tabs, Send(t, "refresh"), Send(u, "refresh")
    PROVE  t = u
<1>1. /\ tab' = [tab EXCEPT ![t] = Sent("refresh", jar[Home[t]])]
      /\ tab' = [tab EXCEPT ![u] = Sent("refresh", jar[Home[u]])]
      /\ tab[u].pc = "idle"
  BY DEF Send, Busy
<1>2. tab'[u].pc = "read"
  BY <1>1, InvTypes DEF Sent
<1> QED BY <1>1, <1>2, InvTypes

\* Only a refresh that finds its secret refused goes on to burn.
LEMMA BurnFrom ==
    ASSUME IInv, [Next]_vars, NEW t \in Tabs, tab'[t].pc = "burn", tab[t].pc # "burn"
    PROVE  /\ tab[t].pc = "read" /\ UNCHANGED session
           /\ ~MatchesCurrent(t) /\ ~MatchesGrace(t)
<1> USE InvTypes
<1>1. ASSUME NEW u \in Tabs, tab' = [tab EXCEPT ![u] = Sent("refresh", jar[Home[u]])]
                          \/ tab' = [tab EXCEPT ![u] = Sent("logout", jar[Home[u]])]
      PROVE  FALSE
  <2>1. \A k : Sent(k, jar[Home[u]]).pc = "read"
    BY DEF Sent
  <2> QED BY <1>1, <2>1
<1>2. ASSUME NEW u \in Tabs, tab' = [tab EXCEPT ![u] = Left(tab[u])] PROVE FALSE
  BY <1>2, RequestFields
<1>3. ASSUME NEW u \in Tabs, NEW c, tab' = [tab EXCEPT ![u] = Answered(tab[u], c)] PROVE FALSE
  BY <1>3, RequestFields
<1>4. ASSUME NEW u \in Tabs, NEW pc, pc # "burn", tab' = [tab EXCEPT ![u] = At(tab[u], pc)]
      PROVE  FALSE
  <2>1. At(tab[u], pc).pc = pc
    BY RequestFields
  <2> QED BY <1>4, <2>1
<1>5. ASSUME NEW u \in Tabs, Answer(u) PROVE FALSE
  BY <1>5 DEF Answer, NoRequest
<1>6. UNCHANGED tab => FALSE
  OBVIOUS
<1>7. ASSUME NEW u \in Tabs, Refresh(u)
      PROVE  /\ tab[t].pc = "read" /\ UNCHANGED session
             /\ ~MatchesCurrent(t) /\ ~MatchesGrace(t)
  <2>1. tab' = [tab EXCEPT ![u] = At(tab[u], "burn")] /\ ~(MatchesCurrent(u) \/ MatchesGrace(u))
    BY <1>3, <1>4, <1>7 DEF Refresh, Finish, Goto
  <2>2. u = t
    BY <2>1
  <2> QED BY <1>7, <2>1, <2>2 DEF Refresh
<1>8. ASSUME NEW u \in Tabs, refreshAccessToken(u) \/ logout(u) \/ Close(u) PROVE FALSE
  BY <1>1, <1>2, <1>8 DEF refreshAccessToken, logout, Send, Close
<1>9. ASSUME NEW u \in Tabs, RotateSession(u) PROVE FALSE
  BY <1>3, <1>9 DEF RotateSession, Finish
<1>10. ASSUME NEW u \in Tabs, Burn(u) PROVE FALSE
  BY <1>3, <1>10, Zenon DEF Burn, Finish
<1>11. ASSUME NEW u \in Tabs, RevokeByRefreshToken(u) PROVE FALSE
  BY <1>3, <1>4, <1>11 DEF RevokeByRefreshToken, Finish, Goto
<1>12. ASSUME NEW u \in Tabs, RevokeSession(u) PROVE FALSE
  BY <1>3, <1>12, Zenon DEF RevokeSession, Finish
<1>13. ASSUME NEW r \in Sessions,
              RevokeForUser(r) \/ RevokeOthersForUser(r) \/ GraceEnds(r) \/ Expire(r)
       PROVE  FALSE
  BY <1>6, <1>13 DEF RevokeForUser, RevokeOthersForUser, GraceEnds, Expire
<1>14. (\E d \in Devices : Create(d)) \/ SweepTerminal \/ UNCHANGED vars => FALSE
  BY <1>6 DEF Create, SweepTerminal, vars
<1> QED BY <1>5, <1>7, <1>8, <1>9, <1>10, <1>11, <1>12, <1>13, <1>14 DEF Next

LEMMA LinedStep ==
    ASSUME IInv, LateLost, [Next]_vars, Locks, NEW s \in Sessions, Live(s), Live(s)',
           Blameless(s)', Lined(s), Supplied(s)
    PROVE  Lined(s)'
<1> USE InvTypes
<1>1. ASSUME NEW t \in Tabs, RefreshOf(t, s)', ~tab'[t].waits PROVE tab'[t].pc = "answer"
  BY <1>1, RequestAfter DEF Lined
<1>2. ASSUME NEW t \in Tabs, NEW u \in Tabs, Waiting(t, s)', Waiting(u, s)' PROVE t = u
  BY <1>2, RequestAfter, SendAlone, SendOnce DEF Lined, Waiting
<1>3. ASSUME NEW t \in Tabs, Waiting(t, s)', tab'[t].pc = "burn" PROVE FALSE
  <2>1. RefreshOf(t, s) /\ tab[t].waits
    BY <1>3, RequestAfter DEF Waiting
  <2>2. tab[t].pc = "read" /\ ~MatchesCurrent(t) /\ ~MatchesGrace(t)
    BY <1>3, <2>1, BurnFrom DEF Lined, Waiting
  <2>3. tab[t].sent.secret = session[s].cur \/ Graced(s, tab[t].sent.secret)
    BY <2>1, <2>2 DEF Lined, Waiting
  <2> QED BY <2>1, <2>2, <2>3
          DEF MatchesCurrent, MatchesGrace, MatchesPrevious, Graced, RefreshOf
<1>4. ASSUME NEW t \in Tabs, Waiting(t, s)', tab'[t].pc = "read"
      PROVE  tab'[t].sent.secret = session'[s].cur \/ Graced(s, tab[t].sent.secret)'
  <2>1. CASE Send(t, "refresh") /\ jar[Home[t]].sid = s /\ tab'[t].sent = jar[Home[t]]
    <3>1. UNCHANGED session
      BY <2>1 DEF Send
    <3>2. ~\E u \in Tabs : Fetches(u, s)
      BY <2>1, SendAlone DEF Fetches, Brings
    <3>3. jar[Home[t]].secret = session[s].cur \/ Graced(s, jar[Home[t]].secret)
      BY <2>1, <3>2 DEF Supplied, CookieSupplied
    <3> QED BY <2>1, <3>1, <3>3 DEF Graced
  <2>2. CASE RefreshOf(t, s) /\ tab'[t].sent = tab[t].sent /\ tab[t].waits /\ tab[t].pc = "read"
    <3>1. tab[t].sent.secret = session[s].cur \/ Graced(s, tab[t].sent.secret)
      BY <2>2 DEF Lined, Waiting
    <3>2. ~GraceEnds(s)
      BY <2>2 DEF GraceEnds, RefreshOf, Refreshing
    <3>3. ASSUME NEW u \in Tabs, RotateSession(u), tab[u].sent.sid = s PROVE FALSE
      <4>1. RefreshOf(u, s) /\ tab[u].pc = "rotate"
        BY <3>3, RotateAfter
      <4>2. tab[u].waits
        BY <4>1 DEF Lined
      <4> QED BY <2>2, <4>1, <4>2 DEF Lined, Waiting
    <3> QED BY <2>2, <3>1, <3>2, <3>3, SecretsAfter DEF Graced
  <2> QED BY <1>4, <2>1, <2>2, RequestAfter DEF Waiting
<1> QED BY <1>1, <1>2, <1>3, <1>4 DEF Lined

\* The tab that rotates a blameless session is the one that waits for it.
LEMMA RotatorWaits ==
    ASSUME IInv, NEW s \in Sessions, Live(s), Lined(s), NEW t \in Tabs,
           RotateSession(t), tab[t].sent.sid = s
    PROVE  /\ Waiting(t, s) /\ tab[t].pc = "rotate" /\ Fetches(t, s)'
           /\ tab'[t].set.secret = minted + 1
           /\ \A u \in Tabs : ~Fetches(u, s)
<1>1. RefreshOf(t, s) /\ tab[t].pc = "rotate" /\ Brings(t, s)'
  BY RotateAfter
<1>2. tab[t].waits
  BY <1>1 DEF Lined
<1>3. tab' = [tab EXCEPT ![t] = Answered(tab[t], [sid |-> s, secret |-> minted + 1])]
  BY DEF RotateSession, Rotatable, Finish
<1> DEFINE c == [sid |-> s, secret |-> minted + 1]
<1>4. tab'[t] = Answered(tab[t], c) /\ tab[t] \in Request
  BY <1>3, InvTypes
<1>5. c.secret = minted + 1
  OBVIOUS
<1> HIDE DEF c
<1>6. tab'[t].waits = tab[t].waits /\ tab'[t].set = c
  BY <1>4, RequestFields
<1>7. ASSUME NEW u \in Tabs, Fetches(u, s) PROVE FALSE
  BY <1>1, <1>2, <1>7 DEF Lined, Fetches, Brings, Waiting
<1> QED BY <1>1, <1>2, <1>5, <1>6, <1>7 DEF Waiting, Fetches

LEMMA SuppliedStep ==
    ASSUME IInv, LateLost, [Next]_vars, Locks, NEW s \in Sessions, Live(s), Live(s)',
           Blameless(s)', Lined(s), Supplied(s)
    PROVE  Supplied(s)'
<1> USE InvTypes
<1>1. ASSUME NEW t \in Tabs, Fetches(t, s)' PROVE tab'[t].set.secret = session'[s].cur
  <2>1. CASE Brings(t, s) /\ tab'[t].set = tab[t].set
    <3>1. Fetches(t, s)
      BY <1>1, <2>1, RequestAfter DEF Fetches, Brings, RefreshOf, Refreshing, Busy, Send
    <3>2. ASSUME NEW u \in Tabs, RotateSession(u), tab[u].sent.sid = s PROVE FALSE
      BY <3>1, <3>2, RotatorWaits
    <3> QED BY <2>1, <3>1, <3>2, SecretsAfter DEF Supplied
  <2>2. CASE RotateSession(t) /\ tab[t].sent.sid = s /\ tab'[t].set.secret = minted + 1
    BY <2>2, RotateAfter
  <2> QED BY <1>1, <2>1, <2>2, BringsAfter DEF Fetches
<1>2. ASSUME NEW d \in Devices, jar'[d].sid = s PROVE CookieSupplied(s, d)'
  <2>1. ASSUME NEW t \in Tabs, Answer(t), Fetches(t, s), jar'[d] = tab[t].set
        PROVE  CookieSupplied(s, d)'
    <3>1. UNCHANGED session
      BY <2>1 DEF Answer
    <3> QED BY <2>1, <3>1 DEF Supplied, CookieSupplied
  <2>2. ASSUME NEW t \in Tabs, Answer(t), Home[t] = d, tab[t].set # tab[t].sent,
               jar'[d] = tab[t].set, jar'[d] # jar[d]
        PROVE  CookieSupplied(s, d)'
    <3>1. tab[t].set.sid = s /\ tab[t].set # NoCookie
      BY <1>2, <2>2, SessionsAssumption DEF NoCookie
    <3>2. tab[t].pc = "answer" /\ tab[t].waits
      BY <2>2 DEF Answer
    <3>3. tab[t].kind = "refresh" /\ tab[t].sent.sid = s
      BY <3>1, <3>2 DEF IInv, Answers
    <3>4. Fetches(t, s)
      BY <2>2, <3>2, <3>3 DEF Fetches, Brings, RefreshOf, Refreshing, Busy
    <3> QED BY <2>1, <2>2, <3>4
  <2>3. ASSUME NEW r \in Sessions, jar'[d] = [sid |-> r, secret |-> minted + 1], session[r].cur = 0
        PROVE  FALSE
    <3>1. r = s
      BY <1>2, <2>3
    <3> QED BY <2>3, <3>1 DEF IInv, Rows, Live
  <2>4. CASE jar'[d] = jar[d]
    <3>1. CookieSupplied(s, d)
      BY <1>2, <2>4 DEF Supplied
    <3>2. CASE \E u \in Tabs : RotateSession(u) /\ tab[u].sent.sid = s
      <4>1. PICK u \in Tabs : RotateSession(u) /\ tab[u].sent.sid = s
        BY <3>2
      <4>2. Fetches(u, s)' /\ \A t \in Tabs : ~Fetches(t, s)
        BY <4>1, RotatorWaits
      <4>3. /\ session'[s].prev = session[s].cur /\ session'[s].recent /\ session[s].cur # 0
        <5>1. session'[s].cur = minted + 1
          BY <4>1, RotateAfter
        <5>2. session[s].cur # minted + 1 /\ ~GraceEnds(s)
          <6>1. session[s].cur <= minted /\ session[s].cur \in Nat
            BY SessionsAssumption DEF IInv, Issued, Row, Secret
          <6>2. Busy(u)
            BY <4>1, RotateAfter DEF RefreshOf, Refreshing
          <6> QED BY <4>1, <6>1, <6>2 DEF GraceEnds
        <5> QED BY <5>1, <5>2, SecretsAfter
      <4>4. mishap'[s].lost = mishap[s].lost
        BY <4>1, RotateAfter DEF RotateSession
      <4>5. jar[d].secret = session[s].cur \/ mishap[s].lost = 1
        BY <3>1, <4>2 DEF CookieSupplied
      <4> QED BY <2>4, <4>2, <4>3, <4>4, <4>5 DEF CookieSupplied, Graced
    <3>3. CASE GraceEnds(s)
      <4>1. \A t \in Tabs : ~Fetches(t, s)
        BY <3>3 DEF GraceEnds, Fetches, Brings, RefreshOf, Refreshing
      <4>2. mishap[s].lost = 0
        BY <3>3, BlamelessBefore
      <4>3. jar[d].secret = session[s].cur
        BY <3>1, <4>1, <4>2 DEF CookieSupplied
      <4>4. session'[s].cur = session[s].cur
        <5>1. session'[s] = Settled(session[s])
          BY <3>3 DEF GraceEnds
        <5> QED BY <5>1, RowFields
      <4> QED BY <2>4, <4>3, <4>4 DEF CookieSupplied
    <3>4. CASE ~GraceEnds(s) /\ ~\E u \in Tabs : RotateSession(u) /\ tab[u].sent.sid = s
      <4>1. /\ session'[s].cur = session[s].cur /\ session'[s].prev = session[s].prev
            /\ session'[s].recent = session[s].recent
        BY <3>4, SecretsAfter
      <4>2. mishap[s].lost = 1 => mishap'[s].lost = 1
        BY BlamelessBefore
      <4>3. CASE jar[d].secret = session[s].cur
        BY <2>4, <4>1, <4>3 DEF CookieSupplied
      <4>4. CASE Graced(s, jar[d].secret) /\ mishap[s].lost = 1
        BY <2>4, <4>1, <4>2, <4>4 DEF CookieSupplied, Graced
      <4>5. ASSUME NEW t \in Tabs, Fetches(t, s),
                   Graced(s, jar[d].secret) \/ mishap[s].lost = 1
            PROVE  CookieSupplied(s, d)'
        <5>1. CASE Answer(t)
          <6>1. Home[t] = d
            <7>1. Holds(Home[t], s) /\ Holds(d, s)
              BY <1>2, <2>4, <4>5, RefreshHolds DEF Holds, Fetches, Brings
            <7> QED BY <7>1, OneHome
          <6>2. jar'[d] = tab[t].set
            BY <4>5, <5>1, <6>1 DEF Answer, Fetches, Brings
          <6> QED BY <2>1, <4>5, <5>1, <6>2
        <5>2. CASE Close(t)
          <6>1. mishap'[s].lost = 1 /\ mishap[s].lost = 0
            BY <4>5, <5>2, BlamelessBefore DEF Fetches, Brings
          <6> QED BY <2>4, <4>1, <4>5, <6>1 DEF CookieSupplied, Graced
        <5>3. CASE ~Answer(t) /\ ~Close(t)
          <6>1. tab'[t] = tab[t]
            BY <4>5, <5>3, TabAfter DEF Fetches, Brings, RefreshOf, Refreshing
          <6>2. Fetches(t, s)'
            BY <4>5, <6>1 DEF Fetches, Brings, RefreshOf, Refreshing, Busy
          <6> QED BY <2>4, <4>1, <4>2, <4>5, <6>2 DEF CookieSupplied, Graced
        <5> QED BY <5>1, <5>2, <5>3
      <4> QED BY <3>1, <4>3, <4>4, <4>5 DEF CookieSupplied
    <3> QED BY <3>2, <3>3, <3>4
  <2>5. JarStep(d)
    BY TabSteps
  <2> QED BY <2>2, <2>3, <2>4, <2>5 DEF JarStep
<1> QED BY <1>1, <1>2 DEF Supplied

LEMMA UnburntStep ==
    ASSUME BInv, [Next]_vars
    PROVE  Unburnt'
<1> SUFFICES ASSUME Locks, NEW s \in Sessions, Live(s)', Blameless(s)'
             PROVE  Lined(s)' /\ Supplied(s)'
  BY DEF Unburnt
<1>1. CASE Live(s)
  <2>1. Lined(s) /\ Supplied(s)
    BY <1>1, BlamelessBefore DEF BInv, Unburnt
  <2> QED BY <1>1, <2>1, LinedStep, SuppliedStep DEF BInv
<1>2. CASE ~Live(s)
  <2>1. /\ \A t \in Tabs : ~RefreshOf(t, s)'
        /\ \A d \in Devices : jar'[d].sid = s => jar'[d].secret = session'[s].cur
    BY <1>2, FirstHeld DEF BInv
  <2> QED BY <2>1 DEF Lined, Supplied, Waiting, Fetches, Brings, CookieSupplied
<1> QED BY <1>1, <1>2

LEMMA BurntStep ==
    ASSUME BInv, [Next]_vars
    PROVE  NoFalseReuse'
<1> USE InvTypes DEF BInv
<1>1. \A s \in Sessions : mishap[s].lost \in Nat /\ mishap'[s].lost \in Nat
  BY MishapAfter
<1>2. \A s \in Sessions :
         /\ Blameless(s) <=> ~(mishap[s].lost >= 2 \/ mishap[s].late \/ mishap[s].stray)
         /\ Blameless(s)' <=> ~(mishap'[s].lost >= 2 \/ mishap'[s].late \/ mishap'[s].stray)
  BY <1>1 DEF Blameless
<1>3. burnt \subseteq Sessions /\ burnt' \subseteq Sessions
  BY TypeStep DEF IInv, TypeOK
<1>4. ASSUME Locks, NEW s \in burnt', Blameless(s)' PROVE FALSE
  <2>1. s \in Sessions /\ Blameless(s)
    BY <1>3, <1>4, BlamelessBefore
  <2>2. s \notin burnt
    BY <1>2, <1>4, <2>1 DEF NoFalseReuse
  <2>3. PICK t \in Tabs : Burn(t) /\ Live(s) /\ tab[t].sent.sid = s
    <3>1. ASSUME NEW t \in Tabs, Burn(t) PROVE Live(s) /\ tab[t].sent.sid = s
      BY <1>4, <2>2, <3>1 DEF Burn
    <3>2. ASSUME NEW t \in Tabs,
                 \/ refreshAccessToken(t) \/ logout(t) \/ Answer(t) \/ Close(t) \/ Refresh(t)
                 \/ RotateSession(t) \/ RevokeByRefreshToken(t) \/ RevokeSession(t)
          PROVE  UNCHANGED burnt
      BY <3>2 DEF refreshAccessToken, logout, Send, Answer, Close, Refresh, RotateSession,
                  RevokeByRefreshToken, RevokeSession
    <3>3. ASSUME NEW r \in Sessions,
                 RevokeForUser(r) \/ RevokeOthersForUser(r) \/ GraceEnds(r) \/ Expire(r)
          PROVE  UNCHANGED burnt
      BY <3>3 DEF RevokeForUser, RevokeOthersForUser, GraceEnds, Expire
    <3>4. (\E d \in Devices : Create(d)) \/ SweepTerminal \/ UNCHANGED vars => UNCHANGED burnt
      BY DEF Create, SweepTerminal, vars
    <3> QED BY <1>4, <2>2, <3>1, <3>2, <3>3, <3>4 DEF Next
  <2>4. tab[t].pc = "burn" /\ RefreshOf(t, s)
    BY <2>3 DEF Burn, RefreshOf, Refreshing, Busy, IInv, Named
  <2>5. Lined(s)
    BY <1>4, <2>1, <2>3 DEF Unburnt
  <2> QED BY <2>4, <2>5 DEF Lined, Waiting
<1> QED BY <1>2, <1>3, <1>4 DEF NoFalseReuse

LEMMA BInvariant == Spec => []BInv
<1>1. Init => BInv
  <2> SUFFICES ASSUME Init PROVE BInv
    OBVIOUS
  <2>1. IInv
    BY InitInv
  <2>2. /\ mishap = [s \in Sessions |-> [lost |-> 0, late |-> FALSE, stray |-> FALSE]]
        /\ session = [s \in Sessions |-> NoRow] /\ burnt = {}
    BY DEF Init
  <2>3. ~NoRow.exists
    BY DEF NoRow
  <2> QED BY <2>1, <2>2, <2>3 DEF BInv, LateLost, Unburnt, NoFalseReuse, Live
<1>2. BInv /\ [Next]_vars => BInv'
  <2> SUFFICES ASSUME BInv, [Next]_vars PROVE BInv'
    OBVIOUS
  <2>1. IInv'
    BY TypeStep, RowsStep, NamedStep, IssuedStep, AnswersStep, OwnedStep, CurrentStep
       DEF BInv, IInv
  <2>2. LateLost'
    BY MishapAfter DEF BInv, LateLost
  <2> QED BY <2>1, <2>2, UnburntStep, BurntStep DEF BInv
<1> QED BY <1>1, <1>2, PTL DEF Spec

\* A browser that takes the lock is never taken for a thief (service/session.go,
\* the reuse branch of Refresh): whatever its tabs, logouts, sweeps, revocations
\* and drops interleave, its session is burned only after two answers were
\* lost, or one and its grace, or when a request outlived its tab.
THEOREM BrowserNotBurned == Spec => []NoFalseReuse
<1>1. BInv => NoFalseReuse
  BY DEF BInv
<1> QED BY <1>1, BInvariant, PTL

-----------------------------------------------------------------------------
(***************************************************************************)
(* Accounts.  Nothing is served before the first admin is there, and no    *)
(* grants are cached or loaded of an id that is still unused.              *)
(***************************************************************************)
AccountsKept ==
    /\ AccountsTyped
    /\ \A u \in Ids : account[u].state = "unused" => account[u] = Unused /\ cache[u] = {}
    /\ \A h \in Servers :
          /\ serving[h].pc # "idle" => system.admin
          /\ serving[h].pc = "load" =>
                serving[h].by \in Ids /\ account[serving[h].by].state # "unused"
          /\ serving[h].pc \in {"assign", "bust", "count", "delete", "update", "grant"} =>
                serving[h].id \in Ids

\* The names and numbers that the records are made of.
LEMMA Names ==
    /\ {"idle", "load", "admitted", "assign", "bust", "count", "delete", "update",
        "upsert", "create", "grant", "claim", "identify"} \subseteq ServingSteps
    /\ {"none", "signup", "link", "plex"} \subseteq Ways
    /\ {"admin", "requester"} \subseteq Roles
    /\ NoEmail \in Emails \cup {NoEmail}
    /\ 0 \in 0..MaxUsers /\ 0 \in 0..MaxInvites
    /\ Ids \subseteq 0..MaxUsers /\ 0 \notin Ids
BY AccountsAssumption DEF ServingSteps, Ways, Roles, Ids

\* A process that rests is one of the things a process can do.
LEMMA RestingServes ==
    Resting \in Serving /\ Resting.pc = "idle"
BY Names DEF Resting, Serving

\* A request moves, and with it what it writes.
LEMMA AccountsMove ==
    ASSUME AccountsKept,
           NEW h \in Servers, NEW d \in Serving, serving' = [serving EXCEPT ![h] = d],
           d.pc # "idle" => system.admin,
           d.pc = "load" => d.by \in Ids /\ account[d.by].state # "unused",
           d.pc \in {"assign", "bust", "count", "delete", "update", "grant"} => d.id \in Ids,
           account' \in [Ids -> Account],
           \A u \in Ids :
              account'[u].state = "unused" =>
                 account[u].state = "unused" /\ account'[u] = account[u] /\ cache'[u] = {},
           identity' \in [Emails -> 0..MaxUsers], invite' \in [Emails -> Invite],
           invites' \in 0..MaxInvites, system' = system,
           cache' \in [Ids -> SUBSET (SUBSET AllKeys)],
           served' \in 0..MaxServed, unguarded' \in BOOLEAN, overtaken' \subseteq Ids
    PROVE  AccountsKept'
<1>1. /\ serving' \in [Servers -> Serving]
      /\ \A g \in Servers : serving'[g] = IF g = h THEN d ELSE serving[g]
  BY DEF AccountsKept, AccountsTyped
<1>2. AccountsTyped'
  BY <1>1 DEF AccountsKept, AccountsTyped
<1>3. \A u \in Ids : account'[u].state = "unused" => account'[u] = Unused /\ cache'[u] = {}
  BY DEF AccountsKept
<1>4. \A g \in Servers :
        /\ serving'[g].pc # "idle" => system'.admin
        /\ serving'[g].pc = "load" =>
              serving'[g].by \in Ids /\ account'[serving'[g].by].state # "unused"
        /\ serving'[g].pc \in {"assign", "bust", "count", "delete", "update", "grant"} =>
              serving'[g].id \in Ids
  BY <1>1 DEF AccountsKept
<1> QED
  BY <1>2, <1>3, <1>4 DEF AccountsKept

\* A write of the roles of u leaves the other accounts alone.
LEMMA RolesChange ==
    ASSUME AccountsTyped, NEW u \in Ids, NEW R \in SUBSET Roles,
           account' = [account EXCEPT ![u].roles = R]
    PROVE  /\ account' \in [Ids -> Account]
           /\ account'[u].roles = R /\ account'[u].state = account[u].state
           /\ \A v \in Ids \ {u} : account'[v] = account[v]
BY DEF AccountsTyped, Account

\* SetActive writes no role, and no account that is not there.
LEMMA SetActiveTyped ==
    ASSUME AccountsTyped, NEW u \in Ids, NEW active \in BOOLEAN, SetActive(u, active)
    PROVE  /\ account' \in [Ids -> Account]
           /\ \A v \in Ids : /\ account'[v].roles = account[v].roles
                             /\ account'[v].state = account[v].state
                             /\ account[v].state = "unused" => account'[v] = account[v]
BY DEF AccountsTyped, Account, SetActive, Present

\* A row of app_user is made.
AccountCreated(u) ==
    /\ account' \in [Ids -> Account]
    /\ account'[u].state = "present"
    /\ \A v \in Ids \ {u} : account'[v] = account[v]

\* CreateUser makes a row, with the roles it is given, where there was none.
LEMMA CreatesAccount ==
    ASSUME AccountsTyped, NEW u \in Ids, NEW e \in Emails \cup {NoEmail},
           NEW R \in SUBSET Roles, CreateUser(u, e, R)
    PROVE  AccountCreated(u) /\ account[u].roles = {} /\ account'[u].roles = R
<1> DEFINE made == [state |-> "present", email |-> e, active |-> TRUE, roles |-> R]
<1>1. made \in Account
  BY DEF Account
<1>2. account' = [account EXCEPT ![u] = made] /\ account[u] = Unused
  BY DEF CreateUser
<1> QED
  BY <1>1, <1>2 DEF AccountCreated, AccountsTyped, Unused

\* AccountsKept is inductive.
LEMMA AccountsKeptInductive ==
    ASSUME AccountsKept, [AccountsNext]_accountVars
    PROVE  AccountsKept'
<1> USE Names, RestingServes
<1>a. ASSUME NEW h \in Servers, NEW d \in Serving, serving' = [serving EXCEPT ![h] = d],
             d.pc # "idle" => system.admin,
             d.pc = "load" => d.by \in Ids /\ account[d.by].state # "unused",
             d.pc \in {"assign", "bust", "count", "delete", "update", "grant"} => d.id \in Ids,
             UNCHANGED <<account, cache, system>>,
             identity' \in [Emails -> 0..MaxUsers], invite' \in [Emails -> Invite],
             invites' \in 0..MaxInvites, served' \in 0..MaxServed,
             unguarded' \in BOOLEAN, overtaken' \subseteq Ids
      PROVE  AccountsKept'
  BY <1>a, AccountsMove DEF AccountsKept, AccountsTyped
<1>b. \A u \in Ids : ListUserGrants(u) \subseteq AllKeys
  BY DEF AccountsKept, AccountsTyped, Account, ListUserGrants, RoleGrants, Roles, AllKeys
<1>c. ASSUME NEW h \in Servers, Arrives(h)
      PROVE  system.admin /\ served' \in 0..MaxServed
  BY <1>c, AccountsAssumption DEF Arrives, AccountsKept, AccountsTyped
<1>1. ASSUME NEW e \in Emails, InitializeSystem(e)
      PROVE  AccountsKept'
  <2>1. PICK u \in Ids : CreateUser(u, e, {"admin"})
    BY <1>1 DEF InitializeSystem
  <2>2. AccountCreated(u)
    <3>1. {"admin"} \in SUBSET Roles /\ e \in Emails \cup {NoEmail}
      OBVIOUS
    <3> QED BY <2>1, <3>1, CreatesAccount DEF AccountsKept
  <2>3. /\ system' \in [admin : BOOLEAN, key : BOOLEAN] /\ system'.admin
        /\ UNCHANGED <<served, identity, invite, invites, cache, serving, unguarded, overtaken>>
    BY <1>1 DEF InitializeSystem, AccountsKept, AccountsTyped
  <2> QED BY <2>2, <2>3 DEF AccountCreated, AccountsKept, AccountsTyped
<1>2. CASE SetTmdbKey
  BY <1>2 DEF SetTmdbKey, AccountsKept, AccountsTyped
<1>3. ASSUME NEW h \in Servers, NEW u \in Ids, Require(h, u)
      PROVE  AccountsKept'
  <2>1. account[u].state # "unused" /\ system.admin /\ served' \in 0..MaxServed
    BY <1>3, <1>c DEF Require, AccountsKept
  <2>2. CASE cache[u] = {}
    <3> DEFINE d == [Resting EXCEPT !.pc = "load", !.by = u, !.keys = ListUserGrants(u)]
    <3>1. d \in Serving /\ d.pc = "load" /\ d.by = u
      BY <1>b DEF Serving
    <3> QED BY <1>3, <2>1, <2>2, <3>1, <1>a DEF Require, AccountsKept, AccountsTyped
  <2>3. CASE cache[u] # {}
    <3> DEFINE d == [Resting EXCEPT !.pc = "admitted", !.by = u]
    <3>1. d \in Serving /\ d.pc = "admitted"
      BY DEF Serving
    <3> QED BY <1>3, <2>1, <2>3, <3>1, <1>a DEF Require, AccountsKept, AccountsTyped
  <2> QED BY <2>2, <2>3
<1>4. ASSUME NEW h \in Servers, StoreGrants(h)
      PROVE  AccountsKept'
  <2> DEFINE s == serving[h]
             d == IF Resolve(s.keys, "admin.users.manage")
                  THEN [Resting EXCEPT !.pc = "admitted", !.by = s.by] ELSE Resting
  <2>1. s \in Serving /\ s.by \in Ids /\ system.admin /\ account[s.by].state # "unused"
    BY <1>4 DEF StoreGrants, AccountsKept, AccountsTyped
  <2>2. d \in Serving /\ d.pc \in {"admitted", "idle"}
    BY <2>1 DEF Serving
  <2>3. cache' \in [Ids -> SUBSET (SUBSET AllKeys)] /\ \A u \in Ids \ {s.by} : cache'[u] = cache[u]
    <3>1. s.keys \in SUBSET AllKeys
      BY <2>1 DEF Serving
    <3> QED BY <1>4, <2>1, <3>1 DEF StoreGrants, AccountsKept, AccountsTyped
  <2> QED BY <1>4, <2>1, <2>2, <2>3, AccountsMove DEF StoreGrants, AccountsKept, AccountsTyped
<1>5. ASSUME NEW h \in Servers, NEW u \in Ids, NEW r \in Roles, UnassignAllRoles(h, u, r)
      PROVE  AccountsKept'
  <2> DEFINE d == [Resting EXCEPT !.pc = "assign", !.id = u, !.role = r]
  <2>1. d \in Serving /\ d.pc = "assign" /\ d.id = u
    BY DEF Serving
  <2>2. serving[h].pc = "admitted" /\ system.admin /\ account[u].state # "unused"
    BY <1>5 DEF UnassignAllRoles, AccountsKept
  <2>3. /\ account' \in [Ids -> Account] /\ account'[u].state = account[u].state
        /\ \A v \in Ids \ {u} : account'[v] = account[v]
    <3>1. {} \in SUBSET Roles /\ account' = [account EXCEPT ![u].roles = {}]
      BY <1>5 DEF UnassignAllRoles
    <3> QED BY <3>1, RolesChange DEF AccountsKept
  <2>4. overtaken' \subseteq Ids /\ unguarded' \in BOOLEAN
    BY <1>5 DEF UnassignAllRoles, RolesWritten, AccountsKept, AccountsTyped
  <2> QED BY <1>5, <2>1, <2>2, <2>3, <2>4, AccountsMove DEF UnassignAllRoles, AccountsKept, AccountsTyped
<1>6. ASSUME NEW h \in Servers, AssignRole(h)
      PROVE  AccountsKept'
  <2> DEFINE s == serving[h]
             d == [s EXCEPT !.pc = "bust"]
  <2>1. s \in Serving /\ s.pc = "assign" /\ s.id \in Ids /\ system.admin
    BY <1>6 DEF AssignRole, AccountsKept, AccountsTyped
  <2>2. /\ d \in Serving /\ d.pc = "bust" /\ d.id = s.id
        /\ serving' = [serving EXCEPT ![h] = d]
    BY <1>6, <2>1 DEF AssignRole, Step, Serving, AccountsKept, AccountsTyped
  <2>3. account[s.id].roles \cup {s.role} \in SUBSET Roles /\ account[s.id].state = "present"
    BY <1>6, <2>1 DEF AssignRole, Present, Serving, AccountsKept, AccountsTyped, Account
  <2>4. /\ account' \in [Ids -> Account] /\ account'[s.id].state = account[s.id].state
        /\ \A v \in Ids \ {s.id} : account'[v] = account[v]
    <3> DEFINE R == account[s.id].roles \cup {s.role}
    <3>1. account' = [account EXCEPT ![s.id].roles = R]
      BY <1>6 DEF AssignRole
    <3>2. R \in SUBSET Roles
      BY <2>3
    <3> HIDE DEF R
    <3> QED BY <2>1, <3>1, <3>2, RolesChange DEF AccountsKept
  <2>5. overtaken' \subseteq Ids
    BY <1>6, <2>1 DEF AssignRole, RolesWritten, AccountsKept, AccountsTyped
  <2> QED
    BY <1>6, <2>1, <2>2, <2>3, <2>4, <2>5, AccountsMove DEF AssignRole, AccountsKept, AccountsTyped
<1>7. ASSUME NEW h \in Servers, AssignFails(h)
      PROVE  AccountsKept'
  <2>1. serving[h].id \in Ids
    BY <1>7 DEF AssignFails, AccountsKept
  <2>2. overtaken' \subseteq Ids
    BY <1>7, <2>1 DEF AssignFails, RolesWritten, AccountsKept, AccountsTyped
  <2> QED BY <1>7, <2>2, <1>a DEF AssignFails, Rest, AccountsKept, AccountsTyped
<1>8. ASSUME NEW h \in Servers, Bust(h)
      PROVE  AccountsKept'
  <2>1. cache' \in [Ids -> SUBSET (SUBSET AllKeys)] /\ \A u \in Ids : cache'[u] \in {cache[u], {}}
    BY <1>8 DEF Bust, AccountsKept, AccountsTyped
  <2> QED BY <1>8, <2>1, AccountsMove DEF Bust, Rest, AccountsKept, AccountsTyped
<1>9. ASSUME NEW h \in Servers, NEW u \in Ids, ListUserRoles(h, u)
      PROVE  AccountsKept'
  <2> DEFINE d == [Resting EXCEPT !.pc = IF u \in Admins THEN "count" ELSE "delete", !.id = u]
  <2>1. d \in Serving /\ d.pc \in {"count", "delete"} /\ d.id = u
    BY DEF Serving
  <2>2. system.admin /\ serving' = [serving EXCEPT ![h] = d]
    BY <1>9 DEF ListUserRoles, Manage, AccountsKept
  <2> QED BY <1>9, <2>1, <2>2, <1>a DEF ListUserRoles, AccountsKept, AccountsTyped
<1>10. ASSUME NEW h \in Servers, NEW u \in Ids, ListRolesFails(h, u)
      PROVE  AccountsKept'
  <2> DEFINE d == [Resting EXCEPT !.pc = "delete", !.id = u]
  <2>1. d \in Serving /\ d.pc \in {"count", "delete"} /\ d.id = u
    BY DEF Serving
  <2>2. system.admin /\ serving' = [serving EXCEPT ![h] = d]
    BY <1>10 DEF ListRolesFails, Manage, AccountsKept
  <2> QED BY <1>10, <2>1, <2>2, <1>a DEF ListRolesFails, AccountsKept, AccountsTyped
<1>11. ASSUME NEW h \in Servers, CountUsersByRole(h)
      PROVE  AccountsKept'
  <2> DEFINE s == serving[h]
             d == [s EXCEPT !.pc = "delete"]
  <2>1. s \in Serving /\ s.pc = "count" /\ s.id \in Ids /\ system.admin
    BY <1>11 DEF CountUsersByRole, AccountsKept, AccountsTyped
  <2>2. d \in Serving /\ d.pc = "delete" /\ d.id = s.id
    BY <2>1 DEF Serving
  <2>3. \E c \in {d, Resting} : serving' = [serving EXCEPT ![h] = c]
    BY <1>11, <2>1 DEF CountUsersByRole, Step, Rest, Serving, AccountsKept, AccountsTyped
  <2> HIDE DEF d
  <2>4. PICK c \in {d, Resting} : serving' = [serving EXCEPT ![h] = c]
    BY <2>3
  <2>5. /\ c \in Serving /\ c.pc \in {"idle", "delete"} /\ (c.pc = "delete" => c.id \in Ids)
    BY <2>1, <2>2
  <2> QED BY <1>11, <2>1, <2>4, <2>5, <1>a DEF CountUsersByRole, AccountsKept, AccountsTyped
<1>12. ASSUME NEW h \in Servers, DeleteUser(h)
      PROVE  AccountsKept'
  <2> DEFINE u == serving[h].id
  <2>1. u \in Ids /\ Deleted \in Account /\ Deleted.state = "deleted" /\ NoInvite \in Invite
    BY <1>12 DEF DeleteUser, AccountsKept, Deleted, Unused, Account, NoInvite, Invite
  <2>2. /\ account' \in [Ids -> Account] /\ account'[u].state = "deleted"
        /\ \A v \in Ids \ {u} : account'[v] = account[v]
    BY <1>12, <2>1 DEF DeleteUser, AccountsKept, AccountsTyped
  <2>3. identity' \in [Emails -> 0..MaxUsers] /\ invite' \in [Emails -> Invite]
    BY <1>12, <2>1 DEF DeleteUser, AccountsKept, AccountsTyped
  <2>4. overtaken' \subseteq Ids /\ unguarded' \in BOOLEAN
    BY <1>12, <2>1 DEF DeleteUser, RolesWritten, AccountsKept, AccountsTyped
  <2> QED
    BY <1>12, <2>1, <2>2, <2>3, <2>4, AccountsMove DEF DeleteUser, Rest, AccountsKept, AccountsTyped
<1>13. ASSUME NEW h \in Servers, StatementFails(h)
      PROVE  AccountsKept'
  BY <1>13, <1>a DEF StatementFails, Rest, AccountsKept, AccountsTyped
<1>14. ASSUME NEW h \in Servers, NEW u \in Ids, NEW active \in BOOLEAN, UpdateUser(h, u, active)
      PROVE  AccountsKept'
  <2>1. /\ account' \in [Ids -> Account]
        /\ \A v \in Ids : /\ account'[v].state = account[v].state
                          /\ account[v].state = "unused" => account'[v] = account[v]
    BY <1>14, SetActiveTyped DEF UpdateUser, AccountsKept
  <2>2. serving' = [serving EXCEPT ![h] = Resting]
    BY <1>14 DEF UpdateUser, Rest
  <2>3. UNCHANGED <<served, identity, invite, invites, system, cache, unguarded, overtaken>>
    BY <1>14 DEF UpdateUser
  <2>4. \A v \in Ids : account'[v].state = "unused" =>
           account[v].state = "unused" /\ account'[v] = account[v] /\ cache'[v] = {}
    BY <2>1, <2>3 DEF AccountsKept
  <2> QED BY <2>1, <2>2, <2>3, <2>4, AccountsMove DEF AccountsKept, AccountsTyped
<1>15. ASSUME NEW h \in Servers, NEW u \in Ids, GetProfile(h, u)
      PROVE  AccountsKept'
  <2> DEFINE d == [Resting EXCEPT !.pc = "update", !.id = u, !.active = account[u].active]
  <2>1. account[u].active \in BOOLEAN
    BY DEF AccountsKept, AccountsTyped, Account
  <2>2. d \in Serving /\ d.pc = "update" /\ d.id = u
    BY <2>1 DEF Serving
  <2> QED BY <1>15, <2>2, <1>a, <1>c DEF GetProfile, AccountsKept, AccountsTyped
<1>16. ASSUME NEW h \in Servers, UpdateProfile(h)
      PROVE  AccountsKept'
  <2> DEFINE s == serving[h]
  <2>1. s \in Serving /\ s.id \in Ids
    BY <1>16 DEF UpdateProfile, AccountsKept, AccountsTyped
  <2>2. s.active \in BOOLEAN
    BY <2>1 DEF Serving
  <2>3. /\ account' \in [Ids -> Account]
        /\ \A v \in Ids : /\ account'[v].state = account[v].state
                          /\ account[v].state = "unused" => account'[v] = account[v]
    BY <1>16, <2>1, <2>2, SetActiveTyped DEF UpdateProfile, AccountsKept
  <2>4. serving' = [serving EXCEPT ![h] = Resting]
    BY <1>16 DEF UpdateProfile, Rest
  <2>5. UNCHANGED <<served, identity, invite, invites, system, cache, unguarded, overtaken>>
    BY <1>16 DEF UpdateProfile
  <2>6. \A v \in Ids : account'[v].state = "unused" =>
           account[v].state = "unused" /\ account'[v] = account[v] /\ cache'[v] = {}
    BY <2>3, <2>5 DEF AccountsKept
  <2> QED BY <2>3, <2>4, <2>5, <2>6, AccountsMove DEF AccountsKept, AccountsTyped
<1>17. ASSUME NEW h \in Servers, NEW e \in Emails, NEW r \in Roles, InvitesCreate(h, e, r)
      PROVE  AccountsKept'
  <2> DEFINE s == serving[h]
             d == [Resting EXCEPT !.pc = "upsert", !.by = s.by, !.email = e, !.role = r]
  <2>1. s \in Serving /\ system.admin
    BY <1>17 DEF InvitesCreate, AccountsKept, AccountsTyped
  <2>2. d \in Serving /\ d.pc = "upsert"
    BY <2>1 DEF Serving
  <2>3. \E c \in {d, Resting} : serving' = [serving EXCEPT ![h] = c]
    BY <1>17 DEF InvitesCreate, Rest
  <2> HIDE DEF d
  <2>4. PICK c \in {d, Resting} : serving' = [serving EXCEPT ![h] = c]
    BY <2>3
  <2>5. c \in Serving /\ c.pc \in {"idle", "upsert"}
    BY <2>2
  <2> QED BY <1>17, <2>1, <2>4, <2>5, <1>a DEF InvitesCreate, AccountsKept, AccountsTyped
<1>18. ASSUME NEW h \in Servers, UpsertInvite(h)
      PROVE  AccountsKept'
  <2> DEFINE s == serving[h]
             new == invite[s.email] = NoInvite
             made == [state |-> "open", id |-> IF new THEN invites + 1 ELSE invite[s.email].id,
                     role |-> s.role, fresh |-> TRUE, by |-> s.by]
  <2>1. s \in Serving /\ s.role \in Roles /\ s.by \in 0..MaxUsers
    BY <1>18 DEF UpsertInvite, Serving, AccountsKept, AccountsTyped
  <2>2. invites \in 0..MaxInvites /\ invites' \in 0..MaxInvites /\ (new => invites + 1 \in 0..MaxInvites)
    BY <1>18, AccountsAssumption DEF UpsertInvite, AccountsKept, AccountsTyped
  <2>3. \A e \in Emails : invite[e].id \in 0..MaxInvites
    BY DEF AccountsKept, AccountsTyped, Invite
  <2>4. s.email \in Emails => made \in Invite
    BY <2>1, <2>2, <2>3 DEF Invite
  <2>5. invite' = [invite EXCEPT ![s.email] = made]
    BY <1>18 DEF UpsertInvite
  <2>6. invite' \in [Emails -> Invite]
    BY <2>4, <2>5 DEF AccountsKept, AccountsTyped
  <2> QED BY <1>18, <2>2, <2>6, <1>a DEF UpsertInvite, Rest, AccountsKept, AccountsTyped
<1>19. ASSUME NEW h \in Servers, NEW e \in Emails, DeleteInvite(h, e)
      PROVE  AccountsKept'
  <2>1. NoInvite \in Invite
    BY DEF NoInvite, Invite
  <2> QED BY <1>19, <2>1, <1>a DEF DeleteInvite, Rest, AccountsKept, AccountsTyped
<1>20. ASSUME NEW e \in Emails, InviteExpires(e)
      PROVE  AccountsKept'
  <2>1. invite' \in [Emails -> Invite]
    <3> DEFINE i == invite[e]
    <3>0. i \in Invite
      BY DEF AccountsKept, AccountsTyped
    <3> HIDE DEF i
    <3>1. [i EXCEPT !.fresh = FALSE] \in Invite
      BY <3>0 DEF Invite
    <3>2. invite' = [invite EXCEPT ![e] = [i EXCEPT !.fresh = FALSE]]
      BY <1>20 DEF InviteExpires, i
    <3> QED BY <3>1, <3>2 DEF AccountsKept, AccountsTyped
  <2> QED BY <1>20, <2>1 DEF InviteExpires, AccountsKept, AccountsTyped
<1>21. ASSUME NEW h \in Servers, NEW e \in Emails, Signup(h, e)
      PROVE  AccountsKept'
  <2> DEFINE d == [Resting EXCEPT !.pc = "create", !.way = "signup", !.email = e,
                                 !.role = "requester", !.ticket = 0]
  <2>1. invite[e].role \in Roles /\ invite[e].id \in 0..MaxInvites
    BY DEF AccountsKept, AccountsTyped, Invite
  <2>2. d \in Serving /\ d.pc = "create"
    BY <2>1 DEF Serving
  <2> QED BY <1>21, <2>2, <1>a, <1>c DEF Signup, Joins, AccountsKept, AccountsTyped
<1>22. ASSUME NEW h \in Servers, NEW e \in Emails, AcceptInvite(h, e)
      PROVE  AccountsKept'
  <2> DEFINE d == [Resting EXCEPT !.pc = "create", !.way = "link", !.email = e,
                                 !.role = invite[e].role, !.ticket = invite[e].id]
  <2>1. invite[e].role \in Roles /\ invite[e].id \in 0..MaxInvites
    BY DEF AccountsKept, AccountsTyped, Invite
  <2>2. d \in Serving /\ d.pc = "create"
    BY <2>1 DEF Serving
  <2> QED BY <1>22, <2>2, <1>a, <1>c DEF AcceptInvite, Joins, AccountsKept, AccountsTyped
<1>23. ASSUME NEW h \in Servers, NEW e \in Emails, LoginWithPlex(h, e)
      PROVE  AccountsKept'
  <2> DEFINE known(u) == [Resting EXCEPT !.pc = "identify", !.way = "plex", !.email = e, !.id = u]
             joins(pc, i) == [Resting EXCEPT !.pc = pc, !.way = "plex", !.email = e,
                                             !.role = "requester", !.ticket = i]
  <2>1. invite[e].id \in 0..MaxInvites
    BY DEF AccountsKept, AccountsTyped, Invite
  <2>2. \A u \in Ids : known(u) \in Serving /\ known(u).pc = "identify"
    BY DEF Serving
  <2>3. /\ joins("claim", invite[e].id) \in Serving /\ joins("claim", invite[e].id).pc = "claim"
        /\ joins("create", 0) \in Serving /\ joins("create", 0).pc = "create"
    BY <2>1 DEF Serving
  <2>4. \A u \in KnownByPlex(e) : u \in Ids
    BY DEF KnownByPlex, GetUserByEmail
  <2>5. \E c \in {joins("claim", invite[e].id), joins("create", 0)} \cup {known(u) : u \in Ids} :
           serving' = [serving EXCEPT ![h] = c]
    BY <1>23, <2>4 DEF LoginWithPlex, Joins
  <2> HIDE DEF known, joins
  <2>6. PICK c \in Serving : c.pc \in {"identify", "claim", "create"} /\ serving' = [serving EXCEPT ![h] = c]
    BY <2>2, <2>3, <2>5
  <2> QED BY <1>23, <2>6, <1>a, <1>c DEF LoginWithPlex, AccountsKept, AccountsTyped
<1>24. ASSUME NEW h \in Servers, UsersCreate(h)
      PROVE  AccountsKept'
  <2> DEFINE s == serving[h]
  <2>1. s \in Serving /\ system.admin
    BY <1>24 DEF UsersCreate, AccountsKept, AccountsTyped
  <2>2. PICK u \in Ids : /\ CreateUser(u, s.email, {})
                        /\ serving' = [serving EXCEPT ![h].pc = "grant", ![h].id = u]
    BY <1>24 DEF UsersCreate
  <2> DEFINE d == [s EXCEPT !.pc = "grant", !.id = u]
  <2>3. d \in Serving /\ d.pc = "grant" /\ d.id = u
    BY <2>1 DEF Serving
  <2>4. serving' = [serving EXCEPT ![h] = d]
    BY <2>2 DEF AccountsKept, AccountsTyped
  <2>5. s.email \in Emails \cup {NoEmail}
    BY <2>1 DEF Serving
  <2>6. AccountCreated(u)
    <3>1. {} \in SUBSET Roles
      OBVIOUS
    <3> QED BY <2>2, <2>5, <3>1, CreatesAccount DEF AccountsKept
  <2>7. UNCHANGED <<served, identity, invite, invites, system, cache, unguarded, overtaken>>
    BY <1>24 DEF UsersCreate
  <2>8. \A v \in Ids : account'[v].state = "unused" =>
           account[v].state = "unused" /\ account'[v] = account[v] /\ cache'[v] = {}
    BY <2>6, <2>7 DEF AccountCreated, AccountsKept
  <2>9. account' \in [Ids -> Account]
    BY <2>6 DEF AccountCreated
  <2> QED BY <2>1, <2>3, <2>4, <2>7, <2>8, <2>9, AccountsMove DEF AccountsKept, AccountsTyped
<1>25. ASSUME NEW h \in Servers, GrantFirstRole(h)
      PROVE  AccountsKept'
  <2> DEFINE s == serving[h]
  <2>1. s \in Serving /\ s.pc = "grant" /\ s.id \in Ids /\ system.admin
    BY <1>25 DEF GrantFirstRole, AccountsKept, AccountsTyped
  <2>2. AfterGrant(s) \in Serving /\ AfterGrant(s).pc \in {"idle", "claim", "identify"}
    BY <2>1 DEF AfterGrant, Serving
  <2>3. CASE UNCHANGED <<account, overtaken>>
    BY <1>25, <2>1, <2>2, <2>3, <1>a DEF GrantFirstRole, AccountsKept, AccountsTyped
  <2>4. CASE /\ Present(s.id) /\ account' = [account EXCEPT ![s.id].roles = @ \cup {s.role}]
             /\ RolesWritten(s.id, FALSE)
    <3>1. account[s.id].roles \cup {s.role} \in SUBSET Roles /\ account[s.id].state = "present"
      BY <2>1, <2>4 DEF Present, Serving, AccountsKept, AccountsTyped, Account
    <3>2. /\ account' \in [Ids -> Account] /\ account'[s.id].state = account[s.id].state
          /\ \A v \in Ids \ {s.id} : account'[v] = account[v]
      <4> DEFINE R == account[s.id].roles \cup {s.role}
      <4>1. account' = [account EXCEPT ![s.id].roles = R]
        BY <2>4
      <4>2. R \in SUBSET Roles
        BY <3>1
      <4> HIDE DEF R
      <4> QED BY <2>1, <4>1, <4>2, RolesChange DEF AccountsKept
    <3>3. overtaken' \subseteq Ids
      BY <2>1, <2>4 DEF RolesWritten, AccountsKept, AccountsTyped
    <3> QED
      BY <1>25, <2>1, <2>2, <3>1, <3>2, <3>3, AccountsMove DEF GrantFirstRole, AccountsKept, AccountsTyped
  <2> QED BY <1>25, <2>3, <2>4 DEF GrantFirstRole
<1>26. ASSUME NEW h \in Servers, ClaimInvite(h)
      PROVE  AccountsKept'
  <2> DEFINE s == serving[h]
             d == [s EXCEPT !.pc = "create"]
  <2>1. s \in Serving /\ system.admin
    BY <1>26 DEF ClaimInvite, AccountsKept, AccountsTyped
  <2>2. d \in Serving /\ d.pc = "create"
    BY <2>1 DEF Serving
  <2>3. \E c \in {d, Resting} : serving' = [serving EXCEPT ![h] = c]
    BY <1>26 DEF ClaimInvite
  <2>4. invite' \in [Emails -> Invite]
    <3>1. \A e \in Emails : [invite[e] EXCEPT !.state = "claimed"] \in Invite
      BY DEF AccountsKept, AccountsTyped, Invite
    <3>2. \/ invite' = invite
          \/ invite' = [invite EXCEPT ![s.email] = [invite[s.email] EXCEPT !.state = "claimed"]]
      BY <1>26 DEF ClaimInvite
    <3> QED BY <3>1, <3>2 DEF AccountsKept, AccountsTyped
  <2> HIDE DEF d
  <2>5. PICK c \in {d, Resting} : serving' = [serving EXCEPT ![h] = c]
    BY <2>3
  <2>6. c \in Serving /\ c.pc \in {"idle", "create"}
    BY <2>2
  <2> QED BY <1>26, <2>1, <2>4, <2>5, <2>6, <1>a DEF ClaimInvite, AccountsKept, AccountsTyped
<1>27. ASSUME NEW h \in Servers, UpsertIdentity(h)
      PROVE  AccountsKept'
  <2>1. serving[h].id \in 0..MaxUsers
    BY DEF AccountsKept, AccountsTyped, Serving
  <2>2. identity' \in [Emails -> 0..MaxUsers]
    BY <1>27, <2>1 DEF UpsertIdentity, AccountsKept, AccountsTyped
  <2> QED BY <1>27, <2>2, <1>a DEF UpsertIdentity, Rest, AccountsKept, AccountsTyped
<1>28. CASE AccountsRestart
  BY <1>28 DEF AccountsRestart, AccountsKept, AccountsTyped
<1>29. CASE UNCHANGED accountVars
  BY <1>29 DEF accountVars, AccountsKept, AccountsTyped
<1> QED
  BY <1>1, <1>2, <1>3, <1>4, <1>5, <1>6, <1>7, <1>8, <1>9, <1>10, <1>11, <1>12, <1>13, <1>14,
     <1>15, <1>16, <1>17, <1>18, <1>19, <1>20, <1>21, <1>22, <1>23, <1>24, <1>25, <1>26, <1>27,
     <1>28, <1>29 DEF AccountsNext, Setup, Administer, Enter

-----------------------------------------------------------------------------
\* What an operation does that neither writes roles nor has to do with the cache
\* or a deletion.
Unroled ==
    /\ \A u \in Ids : account'[u].roles = account[u].roles
    /\ UNCHANGED <<cache, overtaken>>
    /\ \A g \in Servers :
          \/ serving'[g] = serving[g]
          \/ /\ serving'[g].pc \notin {"load", "assign", "bust"}
             /\ serving[g].pc \notin {"assign", "bust"}

Calm ==
    /\ Unroled
    /\ system'.admin = system.admin /\ unguarded' = unguarded
    /\ \A g \in Servers : serving'[g] = serving[g] \/ serving'[g].pc # "delete"

CalmOf(h) ==
    \/ \E u \in Ids : Require(h, u) /\ cache[u] # {}
    \/ \E u \in Ids, active \in BOOLEAN : UpdateUser(h, u, active)
    \/ \E u \in Ids : GetProfile(h, u)
    \/ \E e \in Emails, r \in Roles : InvitesCreate(h, e, r)
    \/ \E e \in Emails : \/ DeleteInvite(h, e) \/ Signup(h, e) \/ AcceptInvite(h, e)
                         \/ LoginWithPlex(h, e)
    \/ StatementFails(h) \/ UpdateProfile(h) \/ UpsertInvite(h) \/ UsersCreate(h)
    \/ ClaimInvite(h) \/ UpsertIdentity(h)

\* The calm operations are calm.
LEMMA CalmMoves ==
    ASSUME AccountsKept, NEW h \in Servers, CalmOf(h)
    PROVE  Calm
<1> USE RestingServes DEF AccountsKept, AccountsTyped
<1>1. /\ UNCHANGED <<system, cache, overtaken, unguarded>>
      /\ serving[h].pc \notin {"assign", "bust"}
  BY DEF CalmOf, Require, UpdateUser, GetProfile, InvitesCreate, DeleteInvite, Signup, AcceptInvite,
         LoginWithPlex, StatementFails, UpdateProfile, UpsertInvite, UsersCreate, ClaimInvite,
         UpsertIdentity, Arrives
<1>2. \A u \in Ids : account'[u].roles = account[u].roles
  <2>1. ASSUME NEW u \in Ids, NEW active \in BOOLEAN, UpdateUser(h, u, active)
        PROVE  \A v \in Ids : account'[v].roles = account[v].roles
    BY <2>1, SetActiveTyped DEF UpdateUser
  <2>2. CASE UpdateProfile(h)
    <3>1. serving[h] \in Serving /\ serving[h].id \in Ids
      BY <2>2 DEF UpdateProfile
    <3>2. serving[h].active \in BOOLEAN
      BY <3>1 DEF Serving
    <3> QED BY <2>2, <3>1, <3>2, SetActiveTyped DEF UpdateProfile
  <2>3. CASE UsersCreate(h)
    <3>1. serving[h].email \in Emails \cup {NoEmail} /\ {} \in SUBSET Roles
      BY DEF Serving
    <3>2. PICK u \in Ids : CreateUser(u, serving[h].email, {})
      BY <2>3 DEF UsersCreate
    <3>3. AccountCreated(u) /\ account[u].roles = {} /\ account'[u].roles = {}
      BY <3>1, <3>2, CreatesAccount
    <3> QED BY <3>3 DEF AccountCreated
  <2>4. CASE UNCHANGED account
    BY <2>4
  <2> QED
    BY <2>1, <2>2, <2>3, <2>4
    DEF CalmOf, Require, GetProfile, InvitesCreate, DeleteInvite, Signup, AcceptInvite,
        LoginWithPlex, StatementFails, UpsertInvite, ClaimInvite, UpsertIdentity
<1>3. /\ serving'[h].pc \notin {"load", "assign", "bust", "delete"}
      /\ \A g \in Servers \ {h} : serving'[g] = serving[g]
  <2>1. CASE \E u \in Ids : Require(h, u) /\ cache[u] # {}
    <3>1. PICK u \in Ids : Require(h, u) /\ cache[u] # {}
      BY <2>1
    <3>2. serving' = [serving EXCEPT ![h] = [Resting EXCEPT !.pc = "admitted", !.by = u]]
      BY <3>1 DEF Require
    <3>3. [Resting EXCEPT !.pc = "admitted", !.by = u].pc = "admitted"
      BY DEF Resting
    <3> QED BY <3>2, <3>3
  <2>2. CASE \E u \in Ids : GetProfile(h, u)
    BY <2>2 DEF GetProfile, Resting
  <2>3. CASE \E e \in Emails, r \in Roles : InvitesCreate(h, e, r)
    <3>1. PICK e \in Emails, r \in Roles : InvitesCreate(h, e, r)
      BY <2>3
    <3> DEFINE d == [Resting EXCEPT !.pc = "upsert", !.by = serving[h].by, !.email = e, !.role = r]
    <3>2. Rest(h) \/ serving' = [serving EXCEPT ![h] = d]
      BY <3>1 DEF InvitesCreate
    <3>3. d.pc = "upsert"
      BY DEF Resting
    <3> HIDE DEF d
    <3> QED BY <3>2, <3>3 DEF Rest
  <2>4. CASE \E e \in Emails : Signup(h, e) \/ AcceptInvite(h, e) \/ LoginWithPlex(h, e)
    <3>1. PICK e \in Emails : Signup(h, e) \/ AcceptInvite(h, e) \/ LoginWithPlex(h, e)
      BY <2>4
    <3> DEFINE joins(pc, way, r, i) == [Resting EXCEPT !.pc = pc, !.way = way, !.email = e,
                                                       !.role = r, !.ticket = i]
               known(u) == [Resting EXCEPT !.pc = "identify", !.way = "plex", !.email = e, !.id = u]
    <3>2. \/ \E pc \in {"create", "claim"} : \E way, r, i :
                serving' = [serving EXCEPT ![h] = joins(pc, way, r, i)]
          \/ \E u : serving' = [serving EXCEPT ![h] = known(u)]
      <4>1. CASE Signup(h, e)
        <5>1. serving' = [serving EXCEPT ![h] = joins("create", "signup", "requester", 0)]
          BY <4>1 DEF Signup, Joins
        <5> HIDE DEF joins
        <5> QED BY <5>1
      <4>2. CASE AcceptInvite(h, e)
        <5>1. serving' = [serving EXCEPT ![h] = joins("create", "link", invite[e].role, invite[e].id)]
          BY <4>2 DEF AcceptInvite, Joins
        <5> HIDE DEF joins
        <5> QED BY <5>1
      <4>3. CASE LoginWithPlex(h, e)
        <5>1. \/ serving' = [serving EXCEPT ![h] = joins("claim", "plex", "requester", invite[e].id)]
              \/ serving' = [serving EXCEPT ![h] = joins("create", "plex", "requester", 0)]
              \/ \E u \in KnownByPlex(e) : serving' = [serving EXCEPT ![h] = known(u)]
          BY <4>3 DEF LoginWithPlex, Joins
        <5> HIDE DEF joins, known
        <5> QED BY <5>1
      <4> QED BY <3>1, <4>1, <4>2, <4>3
    <3>3. /\ \A pc, way, r, i : joins(pc, way, r, i).pc = pc
          /\ \A u : known(u).pc = "identify"
      BY DEF Resting
    <3> HIDE DEF joins, known
    <3> QED BY <3>2, <3>3
  <2>5. CASE UsersCreate(h)
    <3>1. PICK u \in Ids : serving' = [serving EXCEPT ![h].pc = "grant", ![h].id = u]
      BY <2>5 DEF UsersCreate
    <3>2. [serving[h] EXCEPT !.pc = "grant", !.id = u].pc = "grant"
      BY DEF Serving
    <3> QED BY <3>1, <3>2
  <2>6. CASE ClaimInvite(h)
    <3>1. [serving[h] EXCEPT !.pc = "create"].pc = "create"
      BY DEF Serving
    <3> QED BY <2>6, <3>1 DEF ClaimInvite
  <2>7. CASE Rest(h)
    BY <2>7 DEF Rest
  <2> QED
    BY <2>1, <2>2, <2>3, <2>4, <2>5, <2>6, <2>7
    DEF CalmOf, UpdateUser, DeleteInvite, StatementFails, UpdateProfile, UpsertInvite, UpsertIdentity
<1> QED
  BY <1>1, <1>2, <1>3 DEF Calm, Unroled

\* What an operation does that leaves the roles, the cache and the deletions alone.
AdminsStay ==
    /\ \A u \in Ids : account[u].roles \subseteq account'[u].roles
    /\ system'.admin = system.admin /\ unguarded' = unguarded
    /\ \A g \in Servers : serving'[g] = serving[g] \/ serving'[g].pc # "delete"

\* The system has an admin, and would still have one after each deletion that
\* has passed the check.
AdminKept ==
    ~unguarded /\ system.admin =>
        /\ Admins # {}
        /\ \A h \in Servers : serving[h].pc = "delete" => Admins \ {serving[h].id} # {}

\* Where admins stay, AdminKept does.
LEMMA AdminsStayKept ==
    ASSUME AdminKept, AdminsStay
    PROVE  AdminKept'
<1>1. Admins \subseteq Admins'
  BY DEF Admins, AdminsStay
<1> QED BY <1>1 DEF AdminKept, AdminsStay

\* The grants of u that are cached, or being loaded, are those of its roles.
LoadedCurrent(u) ==
    /\ ~Assigning(u) => cache[u] \subseteq {ListUserGrants(u)}
    /\ \A h \in Servers :
          serving[h].pc = "load" /\ serving[h].by = u =>
              serving[h].keys = ListUserGrants(u) /\ ~Assigning(u)

GrantsKept == \A u \in Ids : u \notin overtaken => LoadedCurrent(u)

\* Where no role is written, and nothing cached or loaded, GrantsKept stays.
LEMMA UnroledKept ==
    ASSUME GrantsKept, Unroled
    PROVE  GrantsKept'
<1> SUFFICES ASSUME NEW u \in Ids, u \notin overtaken
             PROVE  LoadedCurrent(u)'
  BY DEF GrantsKept, Unroled
<1>1. LoadedCurrent(u)
  BY DEF GrantsKept
<1>2. ListUserGrants(u)' = ListUserGrants(u)
  BY DEF ListUserGrants, Unroled
<1>3. Assigning(u)' = Assigning(u)
  BY DEF Assigning, Unroled
<1> QED BY <1>1, <1>2, <1>3 DEF LoadedCurrent, Unroled

\* A write of the roles of u by the operation of h.
LEMMA RolesWrittenKept ==
    ASSUME GrantsKept, NEW h \in Servers, NEW u \in Ids, NEW b \in BOOLEAN,
           RolesWritten(u, b), cache' = cache,
           \A v \in Ids \ {u} : account'[v].roles = account[v].roles,
           \A g \in Servers \ {h} : serving'[g] = serving[g],
           serving'[h].pc # "load",
           serving[h].pc \in {"assign", "bust"} => serving[h].id = u,
           serving'[h].pc \in {"assign", "bust"} => serving'[h].id = u,
           b => serving'[h].pc \in {"assign", "bust"}
    PROVE  GrantsKept'
<1> SUFFICES ASSUME NEW v \in Ids, v \notin overtaken'
             PROVE  LoadedCurrent(v)'
  BY DEF GrantsKept
<1>1. CASE v # u
  <2>1. LoadedCurrent(v)
    BY DEF GrantsKept, RolesWritten
  <2>2. ListUserGrants(v)' = ListUserGrants(v)
    BY <1>1 DEF ListUserGrants
  <2>3. Assigning(v)' = Assigning(v)
    <3>1. \A g \in Servers :
            (serving'[g].pc \in {"assign", "bust"} /\ serving'[g].id = v)
            <=> (serving[g].pc \in {"assign", "bust"} /\ serving[g].id = v)
      BY <1>1
    <3> QED BY <3>1 DEF Assigning
  <2> QED BY <2>1, <2>2, <2>3 DEF LoadedCurrent
<1>2. CASE v = u
  <2>1. ~Loading(u) /\ (b \/ cache[u] = {})
    BY <1>2 DEF RolesWritten
  <2>2. \A g \in Servers : ~(serving'[g].pc = "load" /\ serving'[g].by = u)
    BY <2>1 DEF Loading
  <2>3. ~b \/ Assigning(u)'
    BY DEF Assigning
  <2> QED BY <1>2, <2>1, <2>2, <2>3 DEF LoadedCurrent
<1> QED BY <1>1, <1>2

\* AdminKept is inductive relative to AccountsKept.
LEMMA AdminKeptInductive ==
    ASSUME AccountsKept, AdminKept, [AccountsNext]_accountVars
    PROVE  AdminKept'
<1> USE RestingServes
<1>t. /\ account \in [Ids -> Account] /\ serving \in [Servers -> Serving]
      /\ system \in [admin : BOOLEAN, key : BOOLEAN]
  BY DEF AccountsKept, AccountsTyped
<1>1. ASSUME NEW e \in Emails, InitializeSystem(e)
      PROVE  AdminKept'
  <2>1. PICK u \in Ids : CreateUser(u, e, {"admin"})
    BY <1>1 DEF InitializeSystem
  <2>2. account'[u].roles = {"admin"}
    <3>1. {"admin"} \in SUBSET Roles /\ e \in Emails \cup {NoEmail}
      BY Names
    <3> QED BY <2>1, <3>1, CreatesAccount DEF AccountsKept
  <2>3. u \in Admins'
    BY <2>2 DEF Admins
  <2>4. \A h \in Servers : serving'[h].pc # "delete"
    BY <1>1 DEF InitializeSystem, AccountsKept
  <2> QED BY <2>3, <2>4 DEF AdminKept
<1>2. CASE SetTmdbKey
  BY <1>2, <1>t, AdminsStayKept DEF SetTmdbKey, AdminsStay
<1>3. ASSUME NEW h \in Servers, NEW u \in Ids, Require(h, u)
      PROVE  AdminKept'
  <2> DEFINE load == [Resting EXCEPT !.pc = "load", !.by = u, !.keys = ListUserGrants(u)]
             admitted == [Resting EXCEPT !.pc = "admitted", !.by = u]
  <2>1. load.pc = "load" /\ admitted.pc = "admitted"
    BY DEF Resting
  <2>2. \E c \in {load, admitted} : serving' = [serving EXCEPT ![h] = c]
    BY <1>3 DEF Require
  <2> HIDE DEF load, admitted
  <2> QED BY <1>3, <1>t, <2>1, <2>2, AdminsStayKept DEF Require, AdminsStay
<1>4. ASSUME NEW h \in Servers, StoreGrants(h)
      PROVE  AdminKept'
  <2> DEFINE admitted == [Resting EXCEPT !.pc = "admitted", !.by = serving[h].by]
  <2>1. admitted.pc = "admitted"
    BY DEF Resting
  <2>2. \E c \in {admitted, Resting} : serving' = [serving EXCEPT ![h] = c]
    BY <1>4 DEF StoreGrants
  <2> HIDE DEF admitted
  <2> QED BY <1>4, <1>t, <2>1, <2>2, AdminsStayKept DEF StoreGrants, AdminsStay
<1>5. ASSUME NEW h \in Servers, NEW u \in Ids, NEW r \in Roles, UnassignAllRoles(h, u, r)
      PROVE  AdminKept'
  <2> DEFINE d == [Resting EXCEPT !.pc = "assign", !.id = u, !.role = r]
  <2>1. d.pc = "assign"
    BY DEF Resting
  <2>2. serving' = [serving EXCEPT ![h] = d]
    BY <1>5 DEF UnassignAllRoles
  <2> HIDE DEF d
  <2>3. CASE u \in Admins
    BY <1>5, <2>3 DEF UnassignAllRoles, AdminKept
  <2>4. CASE u \notin Admins
    <3>1. Admins' = Admins
      <4>1. /\ "admin" \notin account[u].roles /\ "admin" \notin account'[u].roles
            /\ \A v \in Ids \ {u} : account'[v] = account[v]
        <5>1. {} \in SUBSET Roles /\ account' = [account EXCEPT ![u].roles = {}]
          BY <1>5 DEF UnassignAllRoles
        <5> QED BY <2>4, <5>1, RolesChange DEF AccountsKept, Admins
      <4> QED BY <4>1 DEF Admins
    <3>2. unguarded' = unguarded /\ system' = system
      BY <1>5, <2>4 DEF UnassignAllRoles, AccountsKept, AccountsTyped
    <3> QED BY <1>t, <2>1, <2>2, <3>1, <3>2 DEF AdminKept
  <2> QED BY <2>3, <2>4
<1>6. ASSUME NEW h \in Servers, AssignRole(h)
      PROVE  AdminKept'
  <2> DEFINE s == serving[h]
             R == account[s.id].roles \cup {s.role}
  <2>1. /\ s \in Serving /\ s.pc = "assign" /\ s.id \in Ids /\ [s EXCEPT !.pc = "bust"].pc = "bust"
    BY <1>6 DEF AssignRole, AccountsKept, AccountsTyped, Serving
  <2>2. s.role \in Roles /\ account[s.id].roles \in SUBSET Roles
    BY <2>1, <1>t DEF Serving, Account
  <2>3. account' = [account EXCEPT ![s.id].roles = R] /\ R \in SUBSET Roles
    BY <1>6, <2>2 DEF AssignRole
  <2>4. account[s.id].roles \subseteq R
    OBVIOUS
  <2> HIDE DEF R
  <2>5. \A v \in Ids : account[v].roles \subseteq account'[v].roles
    BY <2>1, <2>3, <2>4, RolesChange DEF AccountsKept
  <2> QED BY <1>6, <1>t, <2>1, <2>5, AdminsStayKept DEF AssignRole, Step, AdminsStay
<1>7. ASSUME NEW h \in Servers, AssignFails(h) \/ Bust(h)
      PROVE  AdminKept'
  BY <1>7, <1>t, AdminsStayKept DEF AssignFails, Bust, Rest, AdminsStay
<1>8. ASSUME NEW h \in Servers, NEW u \in Ids, ListUserRoles(h, u)
      PROVE  AdminKept'
  <2> DEFINE d(pc) == [Resting EXCEPT !.pc = pc, !.id = u]
  <2>1. \A pc : d(pc).pc = pc /\ d(pc).id = u
    BY DEF Resting
  <2>2. serving' = [serving EXCEPT ![h] = d(IF u \in Admins THEN "count" ELSE "delete")]
    BY <1>8 DEF ListUserRoles, Manage
  <2> HIDE DEF d
  <2>3. /\ \A g \in Servers \ {h} : serving'[g] = serving[g]
        /\ serving'[h].pc = "delete" => serving'[h].id = u /\ u \notin Admins
    BY <2>1, <2>2, <1>t
  <2>4. Admins' = Admins /\ unguarded' = unguarded /\ system' = system
    BY <1>8 DEF ListUserRoles, Admins
  <2> QED BY <2>3, <2>4 DEF AdminKept
<1>9. ASSUME NEW h \in Servers, NEW u \in Ids, ListRolesFails(h, u)
      PROVE  AdminKept'
  BY <1>9 DEF ListRolesFails, AdminKept
<1>10. ASSUME NEW h \in Servers, CountUsersByRole(h)
       PROVE  AdminKept'
  <2>1. CASE Rest(h)
    BY <1>10, <1>t, <2>1, AdminsStayKept DEF CountUsersByRole, Rest, AdminsStay
  <2>2. CASE Step(h, "delete") /\ ~(Cardinality(Admins) <= 1)
    <3> DEFINE u == serving[h].id
    <3>1. Admins \ {u} # {}
      <4> SUFFICES ASSUME Admins \ {u} = {}
                   PROVE  FALSE
        OBVIOUS
      <4>1. Admins = {} \/ Admins = {u}
        OBVIOUS
      <4>2. Cardinality(Admins) \in {0, 1}
        BY <4>1, FS_EmptySet, FS_Singleton
      <4> QED BY <2>2, <4>2
    <3>2. /\ \A g \in Servers \ {h} : serving'[g] = serving[g]
          /\ serving'[h].id = u
      <4>1. [serving[h] EXCEPT !.pc = "delete"].id = u
        BY <1>t DEF Serving
      <4> QED BY <1>t, <2>2, <4>1 DEF Step
    <3>3. Admins' = Admins /\ unguarded' = unguarded /\ system' = system
      BY <1>10 DEF CountUsersByRole, Admins
    <3> QED BY <3>1, <3>2, <3>3 DEF AdminKept
  <2> QED BY <1>10, <2>1, <2>2 DEF CountUsersByRole
<1>11. ASSUME NEW h \in Servers, DeleteUser(h)
       PROVE  AdminKept'
  <2> DEFINE u == serving[h].id
  <2>1. u \in Ids /\ serving[h].pc = "delete" /\ system' = system
    BY <1>11 DEF DeleteUser, AccountsKept
  <2>2. Admins' = Admins \ {u}
    <3>1. account' = [account EXCEPT ![u] = Deleted] /\ Deleted.roles = {}
      BY <1>11 DEF DeleteUser, Deleted, Unused
    <3> QED BY <1>t, <2>1, <3>1 DEF Admins
  <2>3. /\ serving'[h].pc = "idle"
        /\ \A g \in Servers \ {h} : serving'[g] = serving[g]
    BY <1>11, <1>t DEF DeleteUser, Rest
  <2>4. ~unguarded' => ~unguarded /\ (u \notin Admins \/ \A g \in Servers \ {h} : serving[g].pc # "delete")
    BY <1>11 DEF DeleteUser
  <2>5. CASE u \notin Admins
    <3>1. Admins' = Admins
      BY <2>2, <2>5
    <3> QED BY <2>1, <2>3, <2>4, <3>1 DEF AdminKept
  <2>6. CASE u \in Admins
    BY <2>1, <2>2, <2>3, <2>4, <2>6 DEF AdminKept
  <2> QED BY <2>5, <2>6
<1>12. ASSUME NEW h \in Servers, GrantFirstRole(h)
       PROVE  AdminKept'
  <2> DEFINE s == serving[h]
             R == account[s.id].roles \cup {s.role}
  <2>1. s \in Serving /\ s.id \in Ids
    BY <1>12 DEF GrantFirstRole, AccountsKept, AccountsTyped
  <2>2. AfterGrant(s).pc # "delete"
    BY <2>1 DEF AfterGrant, Serving
  <2>3. s.role \in Roles /\ account[s.id].roles \in SUBSET Roles
    BY <2>1, <1>t DEF Serving, Account
  <2>4. account' = account \/ account' = [account EXCEPT ![s.id].roles = R]
    BY <1>12 DEF GrantFirstRole
  <2>5. R \in SUBSET Roles /\ account[s.id].roles \subseteq R
    BY <2>3
  <2> HIDE DEF R
  <2>6. \A v \in Ids : account[v].roles \subseteq account'[v].roles
    <3>1. CASE account' = account
      BY <3>1
    <3>2. CASE account' = [account EXCEPT ![s.id].roles = R]
      BY <2>1, <2>5, <3>2, RolesChange DEF AccountsKept
    <3> QED BY <2>4, <3>1, <3>2
  <2>7. serving' = [serving EXCEPT ![h] = AfterGrant(s)] /\ UNCHANGED <<system, unguarded>>
    BY <1>12 DEF GrantFirstRole
  <2> QED BY <1>t, <2>2, <2>6, <2>7, AdminsStayKept DEF AdminsStay
<1>13. ASSUME NEW h \in Servers, CalmOf(h)
       PROVE  AdminKept'
  <2>1. AdminsStay
    BY <1>13, CalmMoves DEF Calm, Unroled, AdminsStay
  <2> QED BY <2>1, AdminsStayKept
<1>14. CASE AccountsRestart
  BY <1>14, AdminsStayKept DEF AccountsRestart, AdminsStay
<1>15. ASSUME NEW e \in Emails, InviteExpires(e)
       PROVE  AdminKept'
  BY <1>15, AdminsStayKept DEF InviteExpires, AdminsStay
<1>16. CASE UNCHANGED accountVars
  BY <1>16, AdminsStayKept DEF accountVars, AdminsStay
<1> QED
  BY <1>1, <1>2, <1>3, <1>4, <1>5, <1>6, <1>7, <1>8, <1>9, <1>10, <1>11, <1>12, <1>13, <1>14,
     <1>15, <1>16 DEF AccountsNext, Setup, Administer, Enter, CalmOf

\* GrantsKept is inductive relative to AccountsKept.
LEMMA GrantsKeptInductive ==
    ASSUME AccountsKept, GrantsKept, [AccountsNext]_accountVars
    PROVE  GrantsKept'
<1> USE RestingServes
<1>t. /\ account \in [Ids -> Account] /\ serving \in [Servers -> Serving]
      /\ cache \in [Ids -> SUBSET (SUBSET AllKeys)]
  BY DEF AccountsKept, AccountsTyped
<1>1. ASSUME NEW e \in Emails, InitializeSystem(e)
      PROVE  GrantsKept'
  <2>1. PICK u \in Ids : CreateUser(u, e, {"admin"})
    BY <1>1 DEF InitializeSystem
  <2>2. UNCHANGED <<cache, serving, overtaken>>
    BY <1>1 DEF InitializeSystem
  <2>3. AccountCreated(u)
    <3>1. {"admin"} \in SUBSET Roles /\ e \in Emails \cup {NoEmail}
      BY Names
    <3> QED BY <2>1, <3>1, CreatesAccount DEF AccountsKept
  <2>4. account[u].state = "unused" /\ cache[u] = {} /\ ~Loading(u)
    BY <2>1 DEF CreateUser, AccountsKept, Unused, Loading
  <2> SUFFICES ASSUME NEW v \in Ids, v \notin overtaken
               PROVE  LoadedCurrent(v)'
    BY <2>2 DEF GrantsKept
  <2>5. LoadedCurrent(v)
    BY DEF GrantsKept
  <2>6. CASE v = u
    BY <2>2, <2>4, <2>6 DEF LoadedCurrent, Loading
  <2>7. CASE v # u
    <3>1. ListUserGrants(v)' = ListUserGrants(v)
      BY <2>3, <2>7 DEF AccountCreated, ListUserGrants
    <3> QED BY <2>2, <2>5, <3>1 DEF LoadedCurrent, Assigning
  <2> QED BY <2>6, <2>7
<1>2. CASE SetTmdbKey
  BY <1>2, UnroledKept DEF SetTmdbKey, Unroled
<1>3. ASSUME NEW h \in Servers, NEW u \in Ids, Require(h, u), cache[u] = {}
      PROVE  GrantsKept'
  <2> DEFINE d == [Resting EXCEPT !.pc = "load", !.by = u, !.keys = ListUserGrants(u)]
  <2>1. d.pc = "load" /\ d.by = u /\ d.keys = ListUserGrants(u)
    BY DEF Resting
  <2>2. /\ serving' = [serving EXCEPT ![h] = d]
        /\ serving[h].pc = "idle"
        /\ overtaken' = IF Assigning(u) THEN overtaken \cup {u} ELSE overtaken
        /\ UNCHANGED <<account, cache>>
    BY <1>3 DEF Require, Arrives
  <2> HIDE DEF d
  <2> SUFFICES ASSUME NEW v \in Ids, v \notin overtaken'
               PROVE  LoadedCurrent(v)'
    BY DEF GrantsKept
  <2>3. LoadedCurrent(v) /\ (v = u => ~Assigning(u))
    BY <2>2 DEF GrantsKept
  <2>4. serving'[h] = d /\ \A g \in Servers \ {h} : serving'[g] = serving[g]
    BY <1>t, <2>2
  <2>5. Assigning(v)' = Assigning(v)
    BY <2>1, <2>2, <2>4 DEF Assigning
  <2>6. \A w \in Ids : ListUserGrants(w)' = ListUserGrants(w)
    BY <2>2 DEF ListUserGrants
  <2> QED BY <2>1, <2>2, <2>3, <2>4, <2>5, <2>6 DEF LoadedCurrent
<1>4. ASSUME NEW h \in Servers, StoreGrants(h)
      PROVE  GrantsKept'
  <2> DEFINE s == serving[h]
             admitted == [Resting EXCEPT !.pc = "admitted", !.by = s.by]
  <2>1. admitted.pc = "admitted"
    BY DEF Resting
  <2>2. /\ s.pc = "load" /\ s.by \in Ids
        /\ \E c \in {admitted, Resting} : serving' = [serving EXCEPT ![h] = c]
        /\ cache' = [cache EXCEPT ![s.by] = {s.keys}]
        /\ UNCHANGED <<account, overtaken>>
    BY <1>4 DEF StoreGrants, AccountsKept
  <2> HIDE DEF admitted
  <2>3. /\ serving'[h].pc \in {"admitted", "idle"}
        /\ \A g \in Servers \ {h} : serving'[g] = serving[g]
    BY <1>t, <2>1, <2>2
  <2> SUFFICES ASSUME NEW v \in Ids, v \notin overtaken
               PROVE  LoadedCurrent(v)'
    BY <2>2 DEF GrantsKept
  <2>4. LoadedCurrent(v)
    BY DEF GrantsKept
  <2>5. Assigning(v)' = Assigning(v)
    BY <2>2, <2>3 DEF Assigning
  <2>6. ListUserGrants(v)' = ListUserGrants(v)
    BY <2>2 DEF ListUserGrants
  <2>7. cache'[v] = IF v = s.by THEN {s.keys} ELSE cache[v]
    BY <1>t, <2>2
  <2>8. v = s.by => s.keys = ListUserGrants(v)
    BY <2>2, <2>4 DEF LoadedCurrent
  <2>9. \A g \in Servers : serving'[g].pc = "load" => serving'[g] = serving[g]
    BY <2>3
  <2> HIDE DEF s
  <2> QED BY <2>4, <2>5, <2>6, <2>7, <2>8, <2>9 DEF LoadedCurrent
<1>5. ASSUME NEW h \in Servers, NEW u \in Ids, NEW r \in Roles, UnassignAllRoles(h, u, r)
      PROVE  GrantsKept'
  <2> DEFINE d == [Resting EXCEPT !.pc = "assign", !.id = u, !.role = r]
  <2>1. d.pc = "assign" /\ d.id = u
    BY DEF Resting
  <2>2. /\ serving' = [serving EXCEPT ![h] = d] /\ serving[h].pc = "admitted"
        /\ RolesWritten(u, TRUE) /\ cache' = cache
        /\ account' = [account EXCEPT ![u].roles = {}]
    BY <1>5 DEF UnassignAllRoles
  <2> HIDE DEF d
  <2>3. \A v \in Ids \ {u} : account'[v].roles = account[v].roles
    BY <1>t, <2>2
  <2>4. serving'[h] = d /\ \A g \in Servers \ {h} : serving'[g] = serving[g]
    BY <1>t, <2>2
  <2> QED BY <2>1, <2>2, <2>3, <2>4, RolesWrittenKept
<1>6. ASSUME NEW h \in Servers, AssignRole(h)
      PROVE  GrantsKept'
  <2> DEFINE s == serving[h]
             d == [s EXCEPT !.pc = "bust"]
  <2>1. s \in Serving /\ s.pc = "assign" /\ s.id \in Ids
    BY <1>6 DEF AssignRole, AccountsKept, AccountsTyped
  <2>2. d.pc = "bust" /\ d.id = s.id
    BY <2>1 DEF Serving
  <2>3. /\ serving' = [serving EXCEPT ![h] = d]
        /\ RolesWritten(s.id, TRUE) /\ cache' = cache
        /\ account' = [account EXCEPT ![s.id].roles = @ \cup {s.role}]
    BY <1>6, <1>t DEF AssignRole, Step
  <2> HIDE DEF d
  <2>4. \A v \in Ids \ {s.id} : account'[v].roles = account[v].roles
    BY <1>t, <2>3
  <2>5. serving'[h] = d /\ \A g \in Servers \ {h} : serving'[g] = serving[g]
    BY <1>t, <2>3
  <2> QED BY <2>1, <2>2, <2>3, <2>4, <2>5, RolesWrittenKept
<1>7. ASSUME NEW h \in Servers, AssignFails(h)
      PROVE  GrantsKept'
  <2>1. /\ serving' = [serving EXCEPT ![h] = Resting] /\ serving[h].id \in Ids
        /\ RolesWritten(serving[h].id, FALSE) /\ UNCHANGED <<account, cache>>
    BY <1>7 DEF AssignFails, Rest, AccountsKept
  <2>2. serving'[h] = Resting /\ \A g \in Servers \ {h} : serving'[g] = serving[g]
    BY <1>t, <2>1
  <2> QED BY <2>1, <2>2, RolesWrittenKept
<1>8. ASSUME NEW h \in Servers, Bust(h)
      PROVE  GrantsKept'
  <2> DEFINE u == serving[h].id
  <2>1. /\ u \in Ids /\ serving[h].pc = "bust"
        /\ serving' = [serving EXCEPT ![h] = Resting]
        /\ cache' = [cache EXCEPT ![u] = {}]
        /\ overtaken' = (IF Loading(u) THEN overtaken ELSE overtaken \ {u})
        /\ account' = account
    BY <1>8 DEF Bust, Rest, AccountsKept
  <2>2. serving'[h] = Resting /\ \A g \in Servers \ {h} : serving'[g] = serving[g]
    BY <1>t, <2>1
  <2> SUFFICES ASSUME NEW v \in Ids, v \notin overtaken'
               PROVE  LoadedCurrent(v)'
    BY DEF GrantsKept
  <2>3. CASE v = u
    <3>1. Assigning(u)
      BY <2>1 DEF Assigning
    <3>2. \A g \in Servers : ~(serving[g].pc = "load" /\ serving[g].by = u)
      BY <2>1, <2>3, <3>1 DEF GrantsKept, LoadedCurrent, Loading
    <3>3. cache'[v] = {}
      BY <1>t, <2>1, <2>3
    <3> HIDE DEF u
    <3> QED BY <2>2, <2>3, <3>2, <3>3 DEF LoadedCurrent
  <2>4. CASE v # u
    <3>1. LoadedCurrent(v)
      BY <2>1, <2>4 DEF GrantsKept
    <3>2. \A g \in Servers :
            (serving'[g].pc \in {"assign", "bust"} /\ serving'[g].id = v)
            <=> (serving[g].pc \in {"assign", "bust"} /\ serving[g].id = v)
      BY <2>1, <2>2, <2>4
    <3>3. Assigning(v)' = Assigning(v)
      BY <3>2 DEF Assigning
    <3>4. ListUserGrants(v)' = ListUserGrants(v) /\ cache'[v] = cache[v]
      BY <1>t, <2>1, <2>4 DEF ListUserGrants
    <3>5. \A g \in Servers : serving'[g].pc = "load" => serving'[g] = serving[g]
      BY <2>2
    <3> HIDE DEF u
    <3> QED BY <3>1, <3>3, <3>4, <3>5 DEF LoadedCurrent
  <2> QED BY <2>3, <2>4
<1>9. ASSUME NEW h \in Servers, NEW u \in Ids, ListUserRoles(h, u) \/ ListRolesFails(h, u)
      PROVE  GrantsKept'
  <2> DEFINE d(pc) == [Resting EXCEPT !.pc = pc, !.id = u]
  <2>1. \A pc : d(pc).pc = pc
    BY DEF Resting
  <2>2. /\ \E pc \in {"count", "delete"} : serving' = [serving EXCEPT ![h] = d(pc)]
        /\ serving[h].pc = "admitted"
        /\ UNCHANGED <<account, cache, overtaken>>
    BY <1>9 DEF ListUserRoles, ListRolesFails, Manage
  <2> HIDE DEF d
  <2> QED BY <1>t, <2>1, <2>2, UnroledKept DEF Unroled
<1>10. ASSUME NEW h \in Servers, CountUsersByRole(h)
       PROVE  GrantsKept'
  <2> DEFINE d == [serving[h] EXCEPT !.pc = "delete"]
  <2>1. d.pc = "delete"
    BY <1>t DEF Serving
  <2>2. /\ \E c \in {d, Resting} : serving' = [serving EXCEPT ![h] = c]
        /\ serving[h].pc = "count"
        /\ UNCHANGED <<account, cache, overtaken>>
    BY <1>10, <1>t DEF CountUsersByRole, Rest, Step
  <2> HIDE DEF d
  <2> QED BY <1>t, <2>1, <2>2, UnroledKept DEF Unroled
<1>11. ASSUME NEW h \in Servers, DeleteUser(h)
       PROVE  GrantsKept'
  <2> DEFINE u == serving[h].id
  <2>1. /\ u \in Ids /\ serving[h].pc = "delete"
        /\ serving' = [serving EXCEPT ![h] = Resting]
        /\ account' = [account EXCEPT ![u] = Deleted]
        /\ RolesWritten(u, FALSE) /\ cache' = cache
    BY <1>11 DEF DeleteUser, Rest, AccountsKept
  <2>2. \A v \in Ids \ {u} : account'[v].roles = account[v].roles
    BY <1>t, <2>1
  <2>3. serving'[h] = Resting /\ \A g \in Servers \ {h} : serving'[g] = serving[g]
    BY <1>t, <2>1
  <2> QED BY <2>1, <2>2, <2>3, RolesWrittenKept
<1>12. ASSUME NEW h \in Servers, GrantFirstRole(h)
       PROVE  GrantsKept'
  <2> DEFINE s == serving[h]
  <2>1. /\ s \in Serving /\ s.id \in Ids /\ s.pc = "grant"
        /\ serving' = [serving EXCEPT ![h] = AfterGrant(s)] /\ cache' = cache
        /\ \/ /\ account' = [account EXCEPT ![s.id].roles = @ \cup {s.role}]
              /\ RolesWritten(s.id, FALSE)
           \/ UNCHANGED <<account, overtaken>>
    BY <1>12 DEF GrantFirstRole, AccountsKept, AccountsTyped
  <2>2. AfterGrant(s).pc \in {"idle", "claim", "identify"}
    BY <2>1 DEF AfterGrant, Serving
  <2>3. serving'[h] = AfterGrant(s) /\ \A g \in Servers \ {h} : serving'[g] = serving[g]
    BY <1>t, <2>1
  <2>4. CASE UNCHANGED <<account, overtaken>>
    BY <2>1, <2>2, <2>3, <2>4, UnroledKept DEF Unroled
  <2>5. CASE account' = [account EXCEPT ![s.id].roles = @ \cup {s.role}] /\ RolesWritten(s.id, FALSE)
    <3>1. \A v \in Ids \ {s.id} : account'[v].roles = account[v].roles
      BY <1>t, <2>5
    <3> QED BY <2>1, <2>2, <2>3, <2>5, <3>1, RolesWrittenKept
  <2> QED BY <2>1, <2>4, <2>5
<1>13. ASSUME NEW h \in Servers, CalmOf(h)
       PROVE  GrantsKept'
  BY <1>13, CalmMoves, UnroledKept DEF Calm
<1>14. CASE AccountsRestart
  BY <1>14 DEF AccountsRestart, GrantsKept, LoadedCurrent
<1>15. ASSUME NEW e \in Emails, InviteExpires(e)
       PROVE  GrantsKept'
  BY <1>15, UnroledKept DEF InviteExpires, Unroled
<1>16. CASE UNCHANGED accountVars
  BY <1>16, UnroledKept DEF accountVars, Unroled
<1> QED
  BY <1>1, <1>2, <1>3, <1>4, <1>5, <1>6, <1>7, <1>8, <1>9, <1>10, <1>11, <1>12, <1>13, <1>14,
     <1>15, <1>16 DEF AccountsNext, Setup, Administer, Enter, CalmOf

-----------------------------------------------------------------------------
\* The invariants of the accounts hold at first.
LEMMA AccountsStart ==
    ASSUME AccountsInit
    PROVE  AccountsKept /\ AdminKept /\ GrantsKept
<1> USE RestingServes
<1>1. AccountsTyped
  <2>1. Unused \in Account
    BY DEF Unused, Account
  <2>2. NoInvite \in Invite
    BY Names DEF NoInvite, Invite
  <2>3. 0 \in 0..MaxUsers /\ 0 \in 0..MaxInvites /\ 0 \in 0..MaxServed
    BY AccountsAssumption
  <2>4. /\ [u \in Ids |-> Unused] \in [Ids -> Account]
        /\ [e \in Emails |-> NoInvite] \in [Emails -> Invite]
        /\ [e \in Emails |-> 0] \in [Emails -> 0..MaxUsers]
        /\ [h \in Servers |-> Resting] \in [Servers -> Serving]
        /\ [u \in Ids |-> {}] \in [Ids -> SUBSET (SUBSET AllKeys)]
    BY <2>1, <2>2, <2>3
  <2> QED BY <2>3, <2>4 DEF AccountsInit, AccountsTyped
<1>2. AccountsKept
  BY <1>1 DEF AccountsInit, AccountsKept
<1>3. AdminKept
  BY DEF AccountsInit, AdminKept
<1>4. GrantsKept
  BY DEF AccountsInit, GrantsKept, LoadedCurrent
<1> QED BY <1>2, <1>3, <1>4

\* The inductive invariants of the accounts hold in every state.
THEOREM AccountsHold == AccountsSpec => [](AccountsKept /\ AdminKept /\ GrantsKept)
<1>1. AccountsInit => AccountsKept /\ AdminKept /\ GrantsKept
  BY AccountsStart
<1>2. AccountsKept /\ AdminKept /\ GrantsKept /\ [AccountsNext]_accountVars
      => (AccountsKept /\ AdminKept /\ GrantsKept)'
  BY AccountsKeptInductive, AdminKeptInductive, GrantsKeptInductive
<1> QED BY <1>1, <1>2, PTL DEF AccountsSpec

\* AdminRemains: a system that is set up keeps an admin, unless one lost the role
\* to an assignment or a deletion overlapped another that had passed the check
\* (UsersService.Delete).
THEOREM AnAdminRemains == AccountsSpec => []AdminRemains
<1>1. AdminKept => AdminRemains
  BY DEF AdminKept, AdminRemains
<1> QED BY <1>1, AccountsHold, PTL

\* GrantsCurrent: the cached grants of a user are those of the user's roles, but
\* for a write of the roles that overtook their loading or did not drop them
\* (AuthzService.effectiveSet and Bust).
THEOREM CachedGrantsCurrent == AccountsSpec => []GrantsCurrent
<1>1. GrantsKept => GrantsCurrent
  BY DEF GrantsKept, LoadedCurrent, GrantsCurrent
<1> QED BY <1>1, AccountsHold, PTL

-----------------------------------------------------------------------------
(***************************************************************************)
(* Settings.  A row that is not there has no flag, and a request knows the *)
(* row it works on.                                                        *)
(***************************************************************************)
Tidy(r) == r.state # "present" => r \in {UnusedRow, DeletedRow}

Knows(s) ==
    /\ s.pc # "idle" => s.kind \in Kinds /\ s.id \in RowIds
    /\ s.pc \in {"write", "test"} => s.password # Keep
    /\ s.pc = "unset" => s.default /\ s.listed.state = "present" /\ s.old \in RowIds
    /\ s.pc \in {"init", "test"} => s.kind = "downloader"

SettingsKept ==
    /\ SettingsTyped
    /\ \A k \in Kinds, i \in RowIds : Tidy(row[k][i])
    /\ \A h \in Savers : Knows(save[h])

\* The names and numbers that a request is made of.
LEMMA SaveNames ==
    /\ {"idle", "unset", "keep", "write", "init", "test", "remove"} \subseteq SaveSteps
    /\ 0 \in 0..MaxRows /\ RowIds \subseteq 0..MaxRows
BY SettingsAssumption DEF SaveSteps, RowIds

\* A row that is not there is no default, and not enabled.
LEMMA PlainRows ==
    /\ UnusedRow \in SettingsRow /\ DeletedRow \in SettingsRow
    /\ UnusedRow.state = "unused" /\ DeletedRow.state = "deleted"
    /\ ~UnusedRow.default /\ ~DeletedRow.default /\ ~UnusedRow.enabled /\ ~DeletedRow.enabled
BY DEF UnusedRow, DeletedRow, SettingsRow

\* A request that has ended is one of the things a request can be.
LEMMA NoSaveIdle ==
    NoSave \in Save /\ NoSave.pc = "idle" /\ Knows(NoSave)
<1>1. NoSave \in Save
  BY SaveNames, PlainRows DEF NoSave, Save
<1>2. NoSave.pc = "idle"
  BY DEF NoSave
<1> QED BY <1>1, <1>2 DEF Knows

\* A request moves, and with it what it writes.
LEMMA SettingsMove ==
    ASSUME SettingsKept,
           NEW h \in Savers, NEW d \in Save, Knows(d), save' = [save EXCEPT ![h] = d],
           row' \in [Kinds -> [RowIds -> SettingsRow]],
           \A k \in Kinds, i \in RowIds : Tidy(row'[k][i]),
           client' \in [RowIds -> Passwords \cup {NoPassword}],
           manager' \in Savers \cup {Nobody}, saves' \in 0..MaxSaves,
           lost' \subseteq Kinds, reverted' \subseteq RowIds
    PROVE  SettingsKept'
<1>1. /\ save' \in [Savers -> Save]
      /\ \A g \in Savers : save'[g] = IF g = h THEN d ELSE save[g]
  BY DEF SettingsKept, SettingsTyped
<1>2. SettingsTyped'
  BY <1>1 DEF SettingsTyped
<1>3. \A g \in Savers : Knows(save'[g])
  BY <1>1 DEF SettingsKept
<1>4. \A g \in Savers : Knows(save[g])'
  BY <1>3 DEF Knows
<1>5. \A k \in Kinds, i \in RowIds : Tidy(row[k][i])'
  BY DEF Tidy
<1> QED BY <1>2, <1>4, <1>5 DEF SettingsKept

\* A write of one row leaves the others alone.
LEMMA RowChanges ==
    ASSUME SettingsKept, NEW k \in Kinds, NEW i \in RowIds, NEW r \in SettingsRow, Tidy(r),
           row' = [row EXCEPT ![k][i] = r]
    PROVE  /\ row' \in [Kinds -> [RowIds -> SettingsRow]]
           /\ \A l \in Kinds, j \in RowIds : Tidy(row'[l][j])
           /\ row'[k][i] = r
           /\ \A j \in RowIds \ {i} : row'[k][j] = row[k][j]
           /\ \A l \in Kinds \ {k} : row'[l] = row[l]
<1>1. row \in [Kinds -> [RowIds -> SettingsRow]]
  BY DEF SettingsKept, SettingsTyped
<1>2. /\ row' \in [Kinds -> [RowIds -> SettingsRow]]
      /\ row'[k][i] = r
      /\ \A j \in RowIds \ {i} : row'[k][j] = row[k][j]
      /\ \A l \in Kinds \ {k} : row'[l] = row[l]
  BY <1>1
<1>3. \A l \in Kinds, j \in RowIds : Tidy(row'[l][j])
  <2> SUFFICES ASSUME NEW l \in Kinds, NEW j \in RowIds
               PROVE  row'[l][j] \in {r, row[l][j]}
    BY DEF SettingsKept
  <2> QED BY <1>2
<1> QED BY <1>2, <1>3

\* Ready goes on with the same row.
LEMMA ReadySaves ==
    ASSUME NEW s \in Save, s.kind \in Kinds, s.id \in RowIds
    PROVE  /\ Ready(s) \in Save /\ Knows(Ready(s)) /\ Ready(s).pc \in {"keep", "write"}
           /\ Ready(s).kind = s.kind /\ Ready(s).default = s.default
<1>1. /\ Ready(s) \in Save /\ Ready(s).pc \in {"keep", "write"}
      /\ Ready(s).kind = s.kind /\ Ready(s).id = s.id /\ Ready(s).default = s.default
      /\ Ready(s).pc = "write" => Ready(s).password # Keep
  BY SaveNames DEF Ready, Save
<1> QED BY <1>1 DEF Knows

\* Begun goes on with a request that knows its row, and the default it lists.
LEMMA BegunSaves ==
    ASSUME SettingsKept, NEW h \in Savers, NEW s \in Save, s.kind \in Kinds, s.id \in RowIds,
           Begun(h, s)
    PROVE  \E d \in Save : /\ Knows(d) /\ d.pc \in {"unset", "keep", "write"}
                           /\ save' = [save EXCEPT ![h] = d]
<1> DEFINE others == Defaults(s.kind) \ {s.id}
           old == CHOOSE d \in others : TRUE
           d == [s EXCEPT !.pc = "unset", !.old = old, !.listed = row[s.kind][old]]
<1>1. CASE save' = [save EXCEPT ![h] = Ready(s)]
  BY <1>1, ReadySaves
<1>2. CASE s.default /\ others # {} /\ save' = [save EXCEPT ![h] = d]
  <2>1. old \in RowIds /\ row[s.kind][old].default
    BY <1>2 DEF Defaults
  <2>2. row[s.kind][old] \in SettingsRow /\ row[s.kind][old].state = "present"
    BY <2>1, PlainRows DEF SettingsKept, SettingsTyped, Tidy
  <2> HIDE DEF others, old
  <2>3. /\ d \in Save /\ d.pc = "unset" /\ d.kind = s.kind /\ d.id = s.id /\ d.default = s.default
        /\ d.old = old /\ d.listed = row[s.kind][old]
    BY <2>1, <2>2, SaveNames DEF Save
  <2> HIDE DEF d
  <2>4. Knows(d)
    BY <1>2, <2>1, <2>2, <2>3 DEF Knows
  <2> QED BY <1>2, <2>3, <2>4
<1> QED BY <1>1, <1>2 DEF Begun

\* The beginning of a request to write a row.
LEMMA CreatesRow ==
    ASSUME SettingsKept, NEW h \in Savers, NEW k \in Kinds,
           NEW password \in Passwords \cup {NoPassword, Keep},
           NEW enabled \in BOOLEAN, NEW default \in BOOLEAN,
           \/ CreateRow(h, k, password, enabled, default)
           \/ \E i \in RowIds : UpdateRow(h, k, i, password, enabled, default)
    PROVE  /\ \E d \in Save : /\ Knows(d) /\ d.pc \in {"unset", "keep", "write"}
                              /\ save' = [save EXCEPT ![h] = d]
           /\ save[h].pc = "idle" /\ saves' \in 0..MaxSaves
           /\ UNCHANGED <<row, client, manager, lost, reverted>>
<1> DEFINE create(i) == [NoSave EXCEPT !.kind = k, !.id = i, !.new = TRUE, !.password = password,
                                       !.enabled = enabled, !.default = default]
           update(i) == [NoSave EXCEPT !.kind = k, !.id = i, !.password = password,
                                       !.enabled = enabled, !.default = default]
<1>1. \A i \in RowIds :
        /\ create(i) \in Save /\ create(i).kind = k /\ create(i).id = i
        /\ update(i) \in Save /\ update(i).kind = k /\ update(i).id = i
  BY SaveNames, NoSaveIdle DEF Save
<1>2. PICK i \in RowIds : Begun(h, create(i)) \/ Begun(h, update(i))
  BY DEF CreateRow, UpdateRow
<1>3. /\ save[h].pc = "idle" /\ saves' \in 0..MaxSaves
      /\ UNCHANGED <<row, client, manager, lost, reverted>>
  <2>1. Begins(h, k) /\ UNCHANGED <<row, client, manager, lost, reverted>>
    BY DEF CreateRow, UpdateRow
  <2>2. save[h] = NoSave /\ saves < MaxSaves /\ saves' = saves + 1
    BY <2>1 DEF Begins
  <2> QED BY <2>1, <2>2, NoSaveIdle, SettingsAssumption DEF SettingsKept, SettingsTyped
<1> HIDE DEF create, update
<1>4. \E d \in Save : /\ Knows(d) /\ d.pc \in {"unset", "keep", "write"}
                      /\ save' = [save EXCEPT ![h] = d]
  <2>1. CASE Begun(h, create(i))
    BY <1>1, <2>1, BegunSaves
  <2>2. CASE Begun(h, update(i))
    BY <1>1, <2>2, BegunSaves
  <2> QED BY <1>2, <2>1, <2>2
<1> QED BY <1>3, <1>4

\* A request to write a row begins.
RequestBegins(h) ==
    /\ \E d \in Save : /\ Knows(d) /\ d.pc \in {"unset", "keep", "write"}
                       /\ save' = [save EXCEPT ![h] = d]
    /\ save[h].pc = "idle" /\ saves' \in 0..MaxSaves
    /\ UNCHANGED <<row, client, manager, lost, reverted>>

\* An operation either begins to write a row or deletes one.
LEMMA Operations ==
    ASSUME SettingsKept, NEW h \in Savers, NEW k \in Kinds, Operate(h, k)
    PROVE  RequestBegins(h) \/ \E i \in RowIds : Delete(h, k, i)
<1>1. PICK i \in RowIds, default \in BOOLEAN, enabled \in BOOLEAN, password \in Passwords :
        \/ CreateRow(h, k, password, enabled, default)
        \/ \E p \in {password, Keep} : UpdateRow(h, k, i, p, enabled, default)
        \/ CreateRow(h, k, NoPassword, TRUE, default)
        \/ UpdateRow(h, k, i, NoPassword, TRUE, default)
        \/ Delete(h, k, i)
  BY DEF Operate
<1>2. CASE Delete(h, k, i)
  BY <1>2
<1>3. CASE \E p \in Passwords \cup {NoPassword, Keep}, e \in BOOLEAN :
             \/ CreateRow(h, k, p, e, default)
             \/ \E j \in RowIds : UpdateRow(h, k, j, p, e, default)
  <2>1. PICK p \in Passwords \cup {NoPassword, Keep}, e \in BOOLEAN :
             \/ CreateRow(h, k, p, e, default)
             \/ \E j \in RowIds : UpdateRow(h, k, j, p, e, default)
    BY <1>3
  <2> QED BY <2>1, CreatesRow DEF RequestBegins
<1> QED BY <1>1, <1>2, <1>3

\* SettingsKept is inductive.
LEMMA SettingsKeptInductive ==
    ASSUME SettingsKept, [SettingsNext]_settingsVars
    PROVE  SettingsKept'
<1> USE SaveNames, NoSaveIdle
<1>t. /\ row \in [Kinds -> [RowIds -> SettingsRow]]
      /\ \A k \in Kinds, i \in RowIds : Tidy(row[k][i])
      /\ client \in [RowIds -> Passwords \cup {NoPassword}]
      /\ manager \in Savers \cup {Nobody} /\ saves \in 0..MaxSaves
      /\ save \in [Savers -> Save]
      /\ lost \subseteq Kinds /\ reverted \subseteq RowIds
  BY DEF SettingsKept, SettingsTyped
<1>k. ASSUME NEW h \in Savers, save[h].pc # "idle"
      PROVE  save[h] \in Save /\ save[h].kind \in Kinds /\ save[h].id \in RowIds
  BY <1>k, <1>t DEF SettingsKept, Knows
<1>1. ASSUME NEW h \in Savers, NEW k \in Kinds, Operate(h, k)
      PROVE  SettingsKept'
  <2>1. CASE RequestBegins(h)
    BY <2>1, <1>t, SettingsMove DEF RequestBegins
  <2>2. ASSUME NEW i \in RowIds, Delete(h, k, i)
        PROVE  SettingsKept'
    <3> DEFINE d == [NoSave EXCEPT !.pc = "remove", !.kind = k, !.id = i]
    <3>1. d \in Save /\ d.pc = "remove" /\ d.kind = k /\ d.id = i
      BY DEF Save
    <3> HIDE DEF d
    <3>2. Knows(d)
      BY <3>1 DEF Knows
    <3>3. /\ save' = [save EXCEPT ![h] = d] /\ saves' \in 0..MaxSaves
          /\ client' \in [RowIds -> Passwords \cup {NoPassword}]
          /\ UNCHANGED <<row, manager, lost, reverted>>
      BY <1>t, <2>2, SettingsAssumption DEF Delete, Begins, d
    <3> QED BY <1>t, <3>1, <3>2, <3>3, SettingsMove
  <2> QED BY <1>1, <2>1, <2>2, Operations
<1>2. ASSUME NEW h \in Savers, UnsetDefault(h)
      PROVE  SettingsKept'
  <2> DEFINE s == save[h]
             r == [s.listed EXCEPT !.default = FALSE]
  <2>1. s \in Save /\ s.kind \in Kinds /\ s.id \in RowIds /\ s.old \in RowIds /\ s.listed.state = "present"
    BY <1>2, <1>t DEF UnsetDefault, SettingsKept, Knows
  <2>2. s.listed \in SettingsRow
    BY <2>1 DEF Save
  <2>3. r \in SettingsRow /\ r.state = "present"
    BY <2>1, <2>2 DEF SettingsRow
  <2>4. row' = [row EXCEPT ![s.kind][s.old] = r] /\ save' = [save EXCEPT ![h] = Ready(s)]
    BY <1>2 DEF UnsetDefault
  <2>5. UNCHANGED <<saves, client, manager, lost>> /\ reverted' \subseteq RowIds
    BY <1>2, <1>t, <2>1 DEF UnsetDefault
  <2> HIDE DEF s, r
  <2>6. Tidy(r)
    BY <2>3 DEF Tidy
  <2>7. row' \in [Kinds -> [RowIds -> SettingsRow]] /\ \A l \in Kinds, j \in RowIds : Tidy(row'[l][j])
    BY <2>1, <2>3, <2>4, <2>6, RowChanges
  <2> QED BY <1>t, <2>1, <2>4, <2>5, <2>7, ReadySaves, SettingsMove
<1>3. ASSUME NEW h \in Savers, UnsetFails(h)
      PROVE  SettingsKept'
  <2>1. save[h].pc # "idle"
    BY <1>3 DEF UnsetFails
  <2>2. \E d \in {NoSave, Ready(save[h])} : save' = [save EXCEPT ![h] = d]
    BY <1>3 DEF UnsetFails
  <2>3. UNCHANGED <<saves, row, client, manager, lost, reverted>>
    BY <1>3 DEF UnsetFails
  <2> QED BY <1>t, <1>k, <2>1, <2>2, <2>3, ReadySaves, SettingsMove
<1>4. ASSUME NEW h \in Savers, KeepPassword(h)
      PROVE  SettingsKept'
  <2> DEFINE s == save[h]
             p == row[s.kind][s.id].password
             d == [s EXCEPT !.pc = "write", !.password = p]
  <2>1. s \in Save /\ s.kind \in Kinds /\ s.id \in RowIds
    BY <1>4, <1>k DEF KeepPassword
  <2>2. p \in Passwords \cup {NoPassword, Keep} /\ p # Keep
    <3>1. row[s.kind][s.id] \in SettingsRow
      BY <1>t, <2>1
    <3>2. p \in Passwords \cup {NoPassword}
      BY <3>1 DEF SettingsRow
    <3> QED BY <3>2, SettingsAssumption
  <2>3. save' = [save EXCEPT ![h] = d] /\ UNCHANGED <<saves, row, client, manager, lost, reverted>>
    BY <1>4, <1>t DEF KeepPassword
  <2> HIDE DEF s, p
  <2>4. d \in Save /\ d.pc = "write" /\ d.kind = s.kind /\ d.id = s.id /\ d.password # Keep
    BY <2>1, <2>2 DEF Save
  <2> HIDE DEF d
  <2>5. Knows(d)
    BY <2>1, <2>4 DEF Knows
  <2> QED BY <1>t, <2>3, <2>4, <2>5, SettingsMove
<1>5. ASSUME NEW h \in Savers, WriteRow(h)
      PROVE  SettingsKept'
  <2> DEFINE s == save[h]
             d == [s EXCEPT !.pc = "init"]
  <2>1. s \in Save /\ s.kind \in Kinds /\ s.id \in RowIds /\ s.pc = "write"
    BY <1>5, <1>k DEF WriteRow
  <2>2. \E c \in {NoSave, d} : /\ save' = [save EXCEPT ![h] = c]
                               /\ c = d => s.kind = "downloader" \/ c = NoSave
    BY <1>5 DEF WriteRow, AfterWrite
  <2>3. /\ row' = [row EXCEPT ![s.kind][s.id] = WrittenRow(s)]
        /\ UNCHANGED <<saves, client, manager, reverted>>
    BY <1>5 DEF WriteRow
  <2>4. lost' \subseteq Kinds
    BY <1>5, <1>t, <2>1 DEF WriteRow
  <2> HIDE DEF s
  <2>5. d \in Save /\ d.pc = "init" /\ d.kind = s.kind /\ d.id = s.id
    BY <2>1 DEF Save
  <2>6. row' \in [Kinds -> [RowIds -> SettingsRow]] /\ \A l \in Kinds, j \in RowIds : Tidy(row'[l][j])
    <3>1. s.password \in Passwords \cup {NoPassword} /\ s.enabled \in BOOLEAN /\ s.default \in BOOLEAN
      <4>1. s.password # Keep
        BY <2>1 DEF SettingsKept, Knows, s
      <4> QED BY <2>1, <4>1 DEF Save
    <3>2. WrittenRow(s) \in SettingsRow /\ WrittenRow(s).state = "present"
      BY <3>1 DEF WrittenRow, SettingsRow
    <3>3. Tidy(WrittenRow(s))
      BY <3>2 DEF Tidy
    <3> QED BY <2>1, <2>3, <3>2, <3>3, RowChanges
  <2> HIDE DEF d
  <2>7. s.kind = "downloader" => Knows(d)
    BY <2>1, <2>5 DEF Knows
  <2> QED BY <1>t, <2>2, <2>3, <2>4, <2>5, <2>6, <2>7, SettingsMove
<1>6. ASSUME NEW h \in Savers, WriteFails(h) \/ DeleteFails(h)
      PROVE  SettingsKept'
  <2>1. save' = [save EXCEPT ![h] = NoSave] /\ UNCHANGED <<saves, row, client, manager, reverted>>
    BY <1>6 DEF WriteFails, DeleteFails, Responds
  <2>2. lost' \subseteq Kinds
    <3>1. save[h].pc # "idle"
      BY <1>6 DEF WriteFails, DeleteFails
    <3> QED BY <1>6, <1>t, <1>k, <3>1 DEF WriteFails, DeleteFails
  <2> QED BY <1>t, <2>1, <2>2, SettingsMove
<1>7. ASSUME NEW h \in Savers, InitializeDownloader(h)
      PROVE  SettingsKept'
  <2> DEFINE s == save[h]
             now == row["downloader"][s.id]
             d == [s EXCEPT !.pc = "test", !.password = now.password]
  <2>1. s \in Save /\ s.kind = "downloader" /\ s.kind \in Kinds /\ s.id \in RowIds
    BY <1>7, <1>k DEF InitializeDownloader, SettingsKept, Knows
  <2>2. now.password \in Passwords \cup {NoPassword, Keep} /\ now.password # Keep
    <3>1. now \in SettingsRow
      BY <1>t, <2>1
    <3>2. now.password \in Passwords \cup {NoPassword}
      BY <3>1 DEF SettingsRow
    <3> QED BY <3>2, SettingsAssumption
  <2>3. /\ \E c \in {NoSave, d} : save' = [save EXCEPT ![h] = c]
        /\ UNCHANGED <<saves, row, lost>>
    BY <1>7, <1>t DEF InitializeDownloader, Responds
  <2>4. /\ client' \in [RowIds -> Passwords \cup {NoPassword}]
        /\ manager' \in Savers \cup {Nobody} /\ reverted' \subseteq RowIds
    BY <1>7, <1>t DEF InitializeDownloader
  <2> HIDE DEF s, now
  <2>5. d \in Save /\ d.pc = "test" /\ d.kind = s.kind /\ d.id = s.id /\ d.password # Keep
    BY <2>1, <2>2 DEF Save
  <2> HIDE DEF d
  <2>6. Knows(d)
    BY <2>1, <2>5 DEF Knows
  <2> QED BY <1>t, <2>3, <2>4, <2>5, <2>6, SettingsMove
<1>8. ASSUME NEW h \in Savers, TestClient(h)
      PROVE  SettingsKept'
  <2> DEFINE s == save[h]
  <2>1. s \in Save /\ s.pc = "test" /\ s.kind = "downloader" /\ s.id \in RowIds /\ s.kind \in Kinds
    BY <1>8, <1>k DEF TestClient, SettingsKept, Knows
  <2>2. /\ save' = [save EXCEPT ![h] = NoSave] /\ manager' = Nobody
        /\ UNCHANGED <<saves, row, lost, reverted>>
        /\ client' = client \/ client' = [client EXCEPT ![s.id] = s.password]
    BY <1>8 DEF TestClient, Responds
  <2>3. s.password \in Passwords \cup {NoPassword}
    BY <2>1, <1>8 DEF Save, SettingsKept, Knows
  <2> HIDE DEF s
  <2>4. client' \in [RowIds -> Passwords \cup {NoPassword}]
    BY <1>t, <2>1, <2>2, <2>3
  <2> QED BY <1>t, <2>2, <2>4, SettingsMove
<1>9. ASSUME NEW h \in Savers, DeleteRow(h)
      PROVE  SettingsKept'
  <2> DEFINE s == save[h]
  <2>1. s \in Save /\ s.kind \in Kinds /\ s.id \in RowIds
    BY <1>9, <1>k DEF DeleteRow
  <2>2. /\ row' = [row EXCEPT ![s.kind][s.id] = DeletedRow] /\ save' = [save EXCEPT ![h] = NoSave]
        /\ UNCHANGED <<saves, client, manager, reverted>>
    BY <1>9 DEF DeleteRow, Responds
  <2>3. lost' \subseteq Kinds
    BY <1>9, <1>t, <2>1 DEF DeleteRow
  <2> HIDE DEF s
  <2>4. row' \in [Kinds -> [RowIds -> SettingsRow]] /\ \A l \in Kinds, j \in RowIds : Tidy(row'[l][j])
    BY <2>1, <2>2, PlainRows, RowChanges DEF Tidy
  <2> QED BY <1>t, <2>2, <2>3, <2>4, SettingsMove
<1>10. CASE SettingsRestart
  <2>1. /\ client' \in [RowIds -> Passwords \cup {NoPassword}] /\ manager' = Nobody
        /\ save' = [h \in Savers |-> NoSave] /\ lost' \subseteq Kinds /\ reverted' = {}
        /\ UNCHANGED <<saves, row>>
    BY <1>10, <1>t DEF SettingsRestart
  <2>2. SettingsTyped'
    BY <1>t, <2>1 DEF SettingsTyped
  <2>3. \A h \in Savers : save'[h] = NoSave
    BY <2>1
  <2>4. \A h \in Savers : Knows(save[h])'
    BY <2>3, NoSaveIdle DEF Knows
  <2>5. \A k \in Kinds, i \in RowIds : Tidy(row[k][i])'
    BY <1>t, <2>1 DEF Tidy
  <2> QED BY <2>2, <2>4, <2>5 DEF SettingsKept
<1>11. CASE UNCHANGED settingsVars
  BY <1>11 DEF settingsVars, SettingsKept, SettingsTyped, Tidy, Knows
<1> QED
  BY <1>1, <1>2, <1>3, <1>4, <1>5, <1>6, <1>7, <1>8, <1>9, <1>10, <1>11 DEF SettingsNext

-----------------------------------------------------------------------------
\* The witness of DefaultStands for a kind.
Writing(h, k) == save[h].kind = k /\ save[h].default /\ save[h].pc \in {"keep", "write"}

Defaulted(k) == Defaults(k) # {} \/ \E h \in Savers : Writing(h, k)

\* A step of h that writes no row.
LEMMA WritesNoRow ==
    ASSUME DefaultStands, NEW h \in Savers, row' = row, lost \subseteq lost',
           \A g \in Savers \ {h} : save'[g] = save[g],
           \A k \in Kinds \ lost' : Writing(h, k) => Writing(h, k)' \/ Defaults(k) # {}
    PROVE  DefaultStands'
<1> SUFFICES ASSUME NEW k \in Kinds \ lost'
             PROVE  Defaulted(k)'
  BY DEF DefaultStands, Defaulted, Writing
<1>1. Defaulted(k)
  BY DEF DefaultStands, Defaulted, Writing
<1>2. Defaults(k)' = Defaults(k)
  BY DEF Defaults
<1>3. \A g \in Savers \ {h} : Writing(g, k) => Writing(g, k)'
  BY DEF Writing
<1> QED BY <1>1, <1>2, <1>3 DEF Defaulted

\* A step of h that writes the row i of its kind l.
LEMMA WritesRow ==
    ASSUME SettingsKept, DefaultStands, NEW h \in Savers, NEW l \in Kinds, NEW i \in RowIds,
           NEW r \in SettingsRow, Tidy(r), row' = [row EXCEPT ![l][i] = r],
           \A g \in Savers \ {h} : save'[g] = save[g],
           save[h].kind = l, save[h].pc # "keep",
           \A k \in Kinds \ {l} : k \notin lost' => k \notin lost,
           \/ l \in lost'
           \/ r.default
           \/ Writing(h, l)'
           \/ l \notin lost /\ i \notin Defaults(l) /\ ~Writing(h, l)
    PROVE  DefaultStands'
<1> SUFFICES ASSUME NEW k \in Kinds \ lost'
             PROVE  Defaulted(k)'
  BY DEF DefaultStands, Defaulted, Writing
<1>1. /\ row'[l][i] = r
      /\ \A j \in RowIds \ {i} : row'[l][j] = row[l][j]
      /\ \A m \in Kinds \ {l} : row'[m] = row[m]
  <2>1. row \in [Kinds -> [RowIds -> SettingsRow]]
    BY DEF SettingsKept, SettingsTyped
  <2> QED BY <2>1
<1>2. \A g \in Savers \ {h} : Writing(g, k) => Writing(g, k)'
  BY DEF Writing
<1>3. CASE k # l
  <2>1. Defaulted(k)
    BY <1>3 DEF DefaultStands, Defaulted, Writing
  <2>2. Defaults(k)' = Defaults(k)
    BY <1>1, <1>3 DEF Defaults
  <2>3. ~Writing(h, k)
    BY <1>3 DEF Writing
  <2> QED BY <1>2, <2>1, <2>2, <2>3 DEF Defaulted
<1>4. CASE k = l /\ r.default
  <2>1. i \in Defaults(k)'
    BY <1>1, <1>4 DEF Defaults
  <2> QED BY <2>1 DEF Defaulted
<1>5. CASE k = l /\ Writing(h, l)'
  BY <1>5 DEF Defaulted
<1>6. CASE k = l /\ l \notin lost /\ i \notin Defaults(l) /\ ~Writing(h, l)
  <2>1. Defaulted(k)
    BY <1>6 DEF DefaultStands, Defaulted, Writing
  <2>2. Defaults(k) \subseteq Defaults(k)'
    BY <1>1, <1>6 DEF Defaults
  <2> QED BY <1>2, <1>6, <2>1, <2>2 DEF Defaulted
<1> QED BY <1>3, <1>4, <1>5, <1>6

\* DefaultStands is inductive relative to SettingsKept.
LEMMA DefaultStandsInductive ==
    ASSUME SettingsKept, DefaultStands, [SettingsNext]_settingsVars
    PROVE  DefaultStands'
<1> USE NoSaveIdle
<1>t. save \in [Savers -> Save] /\ row \in [Kinds -> [RowIds -> SettingsRow]] /\ lost \subseteq Kinds
  BY DEF SettingsKept, SettingsTyped
<1>k. ASSUME NEW h \in Savers, save[h].pc # "idle"
      PROVE  save[h] \in Save /\ save[h].kind \in Kinds /\ save[h].id \in RowIds
  BY <1>k, <1>t DEF SettingsKept, Knows
<1>a. ASSUME NEW h \in Savers, NEW d, save' = [save EXCEPT ![h] = d],
             row' = row, lost \subseteq lost', save[h].pc \notin {"keep", "write"}
      PROVE  DefaultStands'
  <2>1. \A g \in Savers \ {h} : save'[g] = save[g]
    BY <1>t, <1>a
  <2>2. \A k : ~Writing(h, k)
    BY <1>a DEF Writing
  <2> QED BY <1>a, <2>1, <2>2, WritesNoRow
<1>1. ASSUME NEW h \in Savers, NEW k \in Kinds, Operate(h, k)
      PROVE  DefaultStands'
  <2>1. CASE RequestBegins(h)
    BY <2>1, <1>a DEF RequestBegins
  <2>2. ASSUME NEW i \in RowIds, Delete(h, k, i)
        PROVE  DefaultStands'
    <3>1. \E d : save' = [save EXCEPT ![h] = d]
      BY <2>2 DEF Delete
    <3>2. row' = row /\ lost' = lost /\ save[h].pc = "idle"
      BY <2>2 DEF Delete, Begins
    <3> QED BY <1>a, <3>1, <3>2
  <2> QED BY <1>1, <2>1, <2>2, Operations
<1>2. ASSUME NEW h \in Savers, UnsetDefault(h)
      PROVE  DefaultStands'
  <2> DEFINE s == save[h]
             r == [s.listed EXCEPT !.default = FALSE]
  <2>1. /\ s \in Save /\ s.kind \in Kinds /\ s.id \in RowIds /\ s.old \in RowIds
        /\ s.listed.state = "present" /\ s.default /\ s.pc = "unset"
    BY <1>2, <1>t DEF UnsetDefault, SettingsKept, Knows
  <2>2. s.listed \in SettingsRow
    BY <2>1 DEF Save
  <2>3. r \in SettingsRow /\ r.state = "present"
    BY <2>1, <2>2 DEF SettingsRow
  <2>4. /\ row' = [row EXCEPT ![s.kind][s.old] = r] /\ save' = [save EXCEPT ![h] = Ready(s)]
        /\ lost' = lost
    BY <1>2 DEF UnsetDefault
  <2>5. save'[h] = Ready(s) /\ \A g \in Savers \ {h} : save'[g] = save[g]
    BY <1>t, <2>4
  <2>6. Ready(s).kind = s.kind /\ Ready(s).default /\ Ready(s).pc \in {"keep", "write"}
    BY <2>1, ReadySaves
  <2>7. PICK l \in Kinds : l = s.kind
    BY <2>1
  <2>8. Writing(h, l)'
    BY <2>5, <2>6, <2>7 DEF Writing
  <2>9. Tidy(r)
    BY <2>3 DEF Tidy
  <2> HIDE DEF r
  <2> QED BY <2>1, <2>3, <2>4, <2>5, <2>7, <2>8, <2>9, WritesRow
<1>3. ASSUME NEW h \in Savers, UnsetFails(h)
      PROVE  DefaultStands'
  <2>1. \E d \in {NoSave, Ready(save[h])} : save' = [save EXCEPT ![h] = d]
    BY <1>3 DEF UnsetFails
  <2>2. row' = row /\ lost' = lost /\ save[h].pc = "unset"
    BY <1>3 DEF UnsetFails
  <2> QED BY <1>a, <2>1, <2>2
<1>4. ASSUME NEW h \in Savers, KeepPassword(h)
      PROVE  DefaultStands'
  <2> DEFINE s == save[h]
             d == [s EXCEPT !.pc = "write", !.password = row[s.kind][s.id].password]
  <2>1. s \in Save
    BY <1>t
  <2>2. d.kind = s.kind /\ d.default = s.default /\ d.pc = "write"
    BY <2>1 DEF Save
  <2>3. save' = [save EXCEPT ![h] = d] /\ row' = row /\ lost' = lost
    BY <1>4, <1>t DEF KeepPassword
  <2> HIDE DEF d
  <2>4. save'[h] = d /\ \A g \in Savers \ {h} : save'[g] = save[g]
    BY <1>t, <2>3
  <2>5. \A k : Writing(h, k) => Writing(h, k)'
    BY <2>2, <2>4 DEF Writing
  <2> QED BY <2>3, <2>4, <2>5, WritesNoRow
<1>5. ASSUME NEW h \in Savers, WriteRow(h)
      PROVE  DefaultStands'
  <2> DEFINE s == save[h]
  <2>1. s \in Save /\ s.kind \in Kinds /\ s.id \in RowIds /\ s.pc = "write"
    BY <1>5, <1>k DEF WriteRow
  <2>2. /\ row' = [row EXCEPT ![s.kind][s.id] = WrittenRow(s)]
        /\ \A g \in Savers \ {h} : save'[g] = save[g]
    BY <1>5, <1>t DEF WriteRow
  <2>3. /\ lost \ {s.kind} \subseteq lost'
        /\ \/ s.default
           \/ s.kind \in lost'
           \/ ~s.default /\ lost' = lost /\ s.id \notin Defaults(s.kind)
    BY <1>5 DEF WriteRow
  <2>4. /\ WrittenRow(s) \in SettingsRow /\ WrittenRow(s).state = "present"
        /\ WrittenRow(s).default = s.default
    <3>1. s.password \in Passwords \cup {NoPassword} /\ s.enabled \in BOOLEAN /\ s.default \in BOOLEAN
      <4>1. s.password # Keep
        BY <2>1 DEF SettingsKept, Knows
      <4> QED BY <2>1, <4>1 DEF Save
    <3> QED BY <3>1 DEF WrittenRow, SettingsRow
  <2>5. Tidy(WrittenRow(s))
    BY <2>4 DEF Tidy
  <2>6. ~s.default => ~Writing(h, s.kind)
    BY DEF Writing
  <2>7. \/ s.kind \in lost'
        \/ WrittenRow(s).default
        \/ s.kind \notin lost /\ s.id \notin Defaults(s.kind) /\ ~Writing(h, s.kind)
    BY <2>3, <2>4, <2>6
  <2> QED BY <2>1, <2>2, <2>3, <2>4, <2>5, <2>7, WritesRow
<1>6. ASSUME NEW h \in Savers, WriteFails(h)
      PROVE  DefaultStands'
  <2>1. /\ \A g \in Savers \ {h} : save'[g] = save[g]
        /\ row' = row
        /\ lost' = IF save[h].default /\ Defaults(save[h].kind) = {}
                   THEN lost \cup {save[h].kind} ELSE lost
    BY <1>6, <1>t DEF WriteFails, Responds
  <2>2. \A k \in Kinds \ lost' : Writing(h, k) => Defaults(k) # {}
    BY <2>1 DEF Writing
  <2> QED BY <2>1, <2>2, WritesNoRow
<1>7. ASSUME NEW h \in Savers, InitializeDownloader(h) \/ TestClient(h) \/ DeleteFails(h)
      PROVE  DefaultStands'
  <2>1. row' = row /\ lost' = lost /\ save[h].pc \in {"init", "test", "remove"}
    BY <1>7 DEF InitializeDownloader, TestClient, DeleteFails
  <2>2. \A g \in Savers \ {h} : save'[g] = save[g]
    BY <1>7, <1>t DEF InitializeDownloader, TestClient, DeleteFails, Responds
  <2>3. \A k : ~Writing(h, k)
    BY <2>1 DEF Writing
  <2> QED BY <2>1, <2>2, <2>3, WritesNoRow
<1>8. ASSUME NEW h \in Savers, DeleteRow(h)
      PROVE  DefaultStands'
  <2> DEFINE s == save[h]
  <2>1. s \in Save /\ s.kind \in Kinds /\ s.id \in RowIds /\ s.pc = "remove"
    BY <1>8, <1>k DEF DeleteRow
  <2>2. /\ row' = [row EXCEPT ![s.kind][s.id] = DeletedRow]
        /\ \A g \in Savers \ {h} : save'[g] = save[g]
        /\ lost' = IF s.id \in Defaults(s.kind) THEN lost \cup {s.kind} ELSE lost
    BY <1>8, <1>t DEF DeleteRow, Responds
  <2>3. Tidy(DeletedRow) /\ DeletedRow \in SettingsRow
    BY PlainRows DEF Tidy
  <2>4. ~Writing(h, s.kind)
    BY <2>1 DEF Writing
  <2>5. CASE s.kind \in lost'
    BY <2>1, <2>2, <2>3, <2>5, WritesRow
  <2>6. CASE s.kind \notin lost'
    <3>1. s.kind \notin lost /\ s.id \notin Defaults(s.kind)
      BY <2>2, <2>6
    <3> QED BY <2>1, <2>2, <2>3, <2>4, <3>1, WritesRow
  <2> QED BY <2>5, <2>6
<1>9. CASE SettingsRestart
  BY <1>9 DEF SettingsRestart, DefaultStands, Defaults
<1>10. CASE UNCHANGED settingsVars
  BY <1>10 DEF settingsVars, DefaultStands, Defaults
<1> QED
  BY <1>1, <1>2, <1>3, <1>4, <1>5, <1>6, <1>7, <1>8, <1>9, <1>10 DEF SettingsNext

-----------------------------------------------------------------------------
\* A request that has yet to have the manager build the client of i.
Pending(i) == \E h \in Savers : save[h].pc = "init" /\ save[h].id = i

\* A client built with p is that of the row i as it is, once every request for
\* the row has had its turn.
Faithful(i, p) ==
    IsRow("downloader", i) /\ ~Pending(i) =>
        row["downloader"][i].enabled /\ p = row["downloader"][i].password

\* What is tested is the row as it is, under the mutex, and so is the client
\* that passed; a row that was never there has no client.
ClientKept ==
    "downloader" \in Kinds =>
    /\ \A h \in Savers :
          /\ save[h].pc \in {"init", "test"} => row["downloader"][save[h].id].state # "unused"
          /\ save[h].pc = "test" => manager = h
          /\ save[h].pc = "test" /\ save[h].id \notin reverted => Faithful(save[h].id, save[h].password)
    /\ \A i \in RowIds :
          /\ row["downloader"][i].state = "unused" => client[i] = NoPassword
          /\ i \notin reverted /\ client[i] # NoPassword => Faithful(i, client[i])

\* A step of h that neither builds nor tests a client: what was faithful to a row
\* stays so.
LEMMA ClientFollows ==
    ASSUME SettingsKept, ClientKept, "downloader" \in Kinds, NEW h \in Savers,
           \A g \in Savers \ {h} : save'[g] = save[g],
           save[h].pc \notin {"init", "test"}, save'[h].pc # "test",
           save'[h].pc = "init" => row'["downloader"][save'[h].id].state # "unused",
           manager' = manager, reverted \subseteq reverted',
           \A i \in RowIds :
              /\ row'["downloader"][i].state = "unused" => row["downloader"][i].state = "unused"
              /\ client'[i] \in {client[i], NoPassword},
           \A i \in RowIds : \A p :
              row["downloader"][i].state # "unused" /\ i \notin reverted' /\ Faithful(i, p)
              => Faithful(i, p)'
    PROVE  ClientKept'
<1>1. ASSUME NEW g \in Savers
      PROVE  /\ save'[g].pc \in {"init", "test"} => row'["downloader"][save'[g].id].state # "unused"
             /\ save'[g].pc = "test" => manager' = g
             /\ save'[g].pc = "test" /\ save'[g].id \notin reverted' =>
                   Faithful(save[g].id, save[g].password)'
  <2>1. CASE g = h
    BY <2>1
  <2>2. CASE g # h
    <3>1. PICK i, p : i = save[g].id /\ p = save[g].password
      OBVIOUS
    <3>2. save'[g] = save[g]
      BY <2>2
    <3>3. Faithful(save[g].id, save[g].password)' = Faithful(i, p)'
      BY <3>1, <3>2 DEF Faithful, IsRow, Pending
    <3>4. save[g].pc \in {"init", "test"} => i \in RowIds
      BY <3>1 DEF SettingsKept, Knows
    <3>5. save[g].pc = "test" /\ i \notin reverted => Faithful(i, p)
      BY <3>1 DEF ClientKept
    <3> QED BY <3>1, <3>2, <3>3, <3>4, <3>5 DEF ClientKept
  <2> QED BY <2>1, <2>2
<1>2. ASSUME NEW i \in RowIds
      PROVE  /\ row'["downloader"][i].state = "unused" => client'[i] = NoPassword
             /\ i \notin reverted' /\ client'[i] # NoPassword => Faithful(i, client[i])'
  <2>1. row["downloader"][i].state = "unused" => client[i] = NoPassword
    BY DEF ClientKept
  <2>2. CASE client'[i] = NoPassword
    BY <2>2
  <2>3. CASE client'[i] = client[i] /\ client[i] # NoPassword
    <3>1. PICK p : p = client[i]
      OBVIOUS
    <3>2. i \notin reverted' => Faithful(i, p)
      BY <2>3, <3>1 DEF ClientKept
    <3>3. Faithful(i, client[i])' = Faithful(i, p)'
      BY <2>3, <3>1 DEF Faithful
    <3> QED BY <2>1, <2>3, <3>2, <3>3
  <2> QED BY <2>2, <2>3
<1> QED BY <1>1, <1>2 DEF ClientKept

\* Where it does not write the row of a downloader either.
LEMMA ClientCalm ==
    ASSUME SettingsKept, ClientKept, "downloader" \in Kinds, NEW h \in Savers,
           row'["downloader"] = row["downloader"],
           UNCHANGED <<manager, reverted>>,
           \A i \in RowIds : client'[i] \in {client[i], NoPassword},
           \A g \in Savers \ {h} : save'[g] = save[g],
           save[h].pc \notin {"init", "test"}, save'[h].pc \notin {"init", "test"}
    PROVE  ClientKept'
<1>1. \A i : Pending(i)' = Pending(i)
  BY DEF Pending
<1>2. \A i, p : Faithful(i, p)' = Faithful(i, p)
  BY <1>1 DEF Faithful, IsRow
<1> QED BY <1>2, ClientFollows

\* ClientKept is inductive relative to SettingsKept.
LEMMA ClientKeptInductive ==
    ASSUME SettingsKept, ClientKept, [SettingsNext]_settingsVars
    PROVE  ClientKept'
<1> USE NoSaveIdle
<1> SUFFICES ASSUME "downloader" \in Kinds
             PROVE  ClientKept'
  BY DEF ClientKept
<1>t. /\ save \in [Savers -> Save] /\ row \in [Kinds -> [RowIds -> SettingsRow]]
      /\ client \in [RowIds -> Passwords \cup {NoPassword}]
  BY DEF SettingsKept, SettingsTyped
<1>k. ASSUME NEW h \in Savers, save[h].pc # "idle"
      PROVE  save[h] \in Save /\ save[h].kind \in Kinds /\ save[h].id \in RowIds
  BY <1>k, <1>t DEF SettingsKept, Knows
<1>a. ASSUME NEW h \in Savers, NEW d, save' = [save EXCEPT ![h] = d], d.pc \notin {"init", "test"},
             UNCHANGED <<row, client, manager, reverted>>, save[h].pc \notin {"init", "test"}
      PROVE  ClientKept'
  BY <1>a, <1>t, ClientCalm
<1>1. ASSUME NEW h \in Savers, NEW k \in Kinds, Operate(h, k)
      PROVE  ClientKept'
  <2>1. CASE RequestBegins(h)
    <3>1. PICK d \in Save : d.pc \in {"unset", "keep", "write"} /\ save' = [save EXCEPT ![h] = d]
      BY <2>1 DEF RequestBegins
    <3> QED BY <2>1, <3>1, <1>a DEF RequestBegins
  <2>2. ASSUME NEW i \in RowIds, Delete(h, k, i)
        PROVE  ClientKept'
    <3> DEFINE d == [NoSave EXCEPT !.pc = "remove", !.kind = k, !.id = i]
    <3>1. d.pc = "remove"
      BY DEF NoSave
    <3>2. save' = [save EXCEPT ![h] = d] /\ save[h].pc = "idle" /\ UNCHANGED <<row, manager, reverted>>
      BY <2>2 DEF Delete, Begins
    <3> HIDE DEF d
    <3>3. save'[h] = d /\ \A g \in Savers \ {h} : save'[g] = save[g]
      BY <1>t, <3>2
    <3>4. \A j \in RowIds : client'[j] \in {client[j], NoPassword}
      BY <1>t, <2>2 DEF Delete
    <3> QED BY <3>1, <3>2, <3>3, <3>4, ClientCalm
  <2> QED BY <1>1, <2>1, <2>2, Operations
<1>2. ASSUME NEW h \in Savers, UnsetDefault(h)
      PROVE  ClientKept'
  <2> DEFINE s == save[h]
             now == row[s.kind][s.old]
             r == [s.listed EXCEPT !.default = FALSE]
  <2>1. /\ s \in Save /\ s.kind \in Kinds /\ s.id \in RowIds /\ s.old \in RowIds
        /\ s.listed.state = "present" /\ s.pc = "unset"
    BY <1>2, <1>t DEF UnsetDefault, SettingsKept, Knows
  <2>2. s.listed \in SettingsRow
    BY <2>1 DEF Save
  <2>3. /\ r.state = "present" /\ r.password = s.listed.password /\ r.enabled = s.listed.enabled
    BY <2>1, <2>2 DEF SettingsRow
  <2>4. /\ row' = [row EXCEPT ![s.kind][s.old] = r] /\ save' = [save EXCEPT ![h] = Ready(s)]
        /\ UNCHANGED <<client, manager>> /\ now.state = "present"
        /\ reverted' = IF s.kind = "downloader" /\ (now.password # s.listed.password
                                                    \/ now.enabled # s.listed.enabled)
                       THEN reverted \cup {s.old} ELSE reverted
    BY <1>2 DEF UnsetDefault, IsRow
  <2>5. save'[h] = Ready(s) /\ \A g \in Savers \ {h} : save'[g] = save[g]
    BY <1>t, <2>4
  <2>6. Ready(s).pc \in {"keep", "write"}
    BY <2>1, ReadySaves
  <2> HIDE DEF r
  <2>7. CASE s.kind # "downloader"
    <3>1. row'["downloader"] = row["downloader"] /\ reverted' = reverted
      BY <1>t, <2>1, <2>4, <2>7
    <3> QED BY <2>1, <2>4, <2>5, <2>6, <3>1, ClientCalm
  <2>8. CASE s.kind = "downloader"
    <3>1. /\ row'["downloader"][s.old] = r
          /\ \A j \in RowIds \ {s.old} : row'["downloader"][j] = row["downloader"][j]
      BY <1>t, <2>1, <2>4, <2>8
    <3>2. \A i : Pending(i)' = Pending(i)
      BY <2>1, <2>5, <2>6 DEF Pending
    <3>3. \A i \in RowIds : \A p : i \notin reverted' /\ Faithful(i, p) => Faithful(i, p)'
      <4> SUFFICES ASSUME NEW i \in RowIds, NEW p, i \notin reverted', Faithful(i, p)
                   PROVE  Faithful(i, p)'
        OBVIOUS
      <4>1. CASE i = s.old
        <5>1. now.password = r.password /\ now.enabled = r.enabled
          BY <2>3, <2>4, <2>8, <4>1
        <5> QED BY <2>4, <2>8, <3>1, <3>2, <4>1, <5>1 DEF Faithful, IsRow
      <4>2. CASE i # s.old
        BY <3>1, <3>2, <4>2 DEF Faithful, IsRow
      <4> QED BY <4>1, <4>2
    <3>4. \A i \in RowIds : row'["downloader"][i].state = "unused" => row["downloader"][i].state = "unused"
      BY <2>3, <3>1
    <3>5. reverted \subseteq reverted'
      BY <2>4
    <3> HIDE DEF now
    <3> QED BY <2>1, <2>4, <2>5, <2>6, <3>3, <3>4, <3>5, ClientFollows
  <2> QED BY <2>7, <2>8
<1>3. ASSUME NEW h \in Savers, UnsetFails(h)
      PROVE  ClientKept'
  <2>1. save[h].pc = "unset" /\ UNCHANGED <<row, client, manager, reverted>>
    BY <1>3 DEF UnsetFails
  <2>2. \E d \in {NoSave, Ready(save[h])} : save' = [save EXCEPT ![h] = d]
    BY <1>3 DEF UnsetFails
  <2>3. Ready(save[h]).pc \in {"keep", "write"}
    BY <1>k, <2>1, ReadySaves
  <2> QED BY <1>a, <2>1, <2>2, <2>3
<1>4. ASSUME NEW h \in Savers, KeepPassword(h)
      PROVE  ClientKept'
  <2> DEFINE s == save[h]
             d == [s EXCEPT !.pc = "write", !.password = row[s.kind][s.id].password]
  <2>1. d.pc = "write"
    BY <1>t DEF Save
  <2>2. /\ save' = [save EXCEPT ![h] = d] /\ s.pc = "keep"
        /\ UNCHANGED <<row, client, manager, reverted>>
    BY <1>4, <1>t DEF KeepPassword
  <2> HIDE DEF d
  <2> QED BY <1>a, <2>1, <2>2
<1>5. ASSUME NEW h \in Savers, WriteRow(h)
      PROVE  ClientKept'
  <2> DEFINE s == save[h]
             r == WrittenRow(s)
  <2>1. s \in Save /\ s.kind \in Kinds /\ s.id \in RowIds /\ s.pc = "write"
    BY <1>5, <1>k DEF WriteRow
  <2>2. r.state = "present"
    BY DEF WrittenRow
  <2>3. /\ row' = [row EXCEPT ![s.kind][s.id] = r] /\ UNCHANGED <<client, manager, reverted>>
        /\ s.new => row[s.kind][s.id].state = "unused"
        /\ save'[h] = AfterWrite(s) /\ \A g \in Savers \ {h} : save'[g] = save[g]
    BY <1>5, <1>t DEF WriteRow
  <2> HIDE DEF r
  <2>4. CASE s.kind # "downloader"
    <3>1. row'["downloader"] = row["downloader"]
      BY <1>t, <2>1, <2>3, <2>4
    <3>2. save'[h] = NoSave
      BY <2>3, <2>4 DEF AfterWrite
    <3> QED BY <2>1, <2>3, <3>1, <3>2, ClientCalm
  <2>5. CASE s.kind = "downloader"
    <3>1. /\ row'["downloader"][s.id] = r
          /\ \A j \in RowIds \ {s.id} : row'["downloader"][j] = row["downloader"][j]
      BY <1>t, <2>1, <2>3, <2>5
    <3>2. /\ save'[h].pc \in {"init", "idle"}
          /\ save'[h].pc = "init" => save'[h].id = s.id
          /\ save'[h].pc = "idle" => s.new
      <4> DEFINE d == [s EXCEPT !.pc = "init"]
      <4>1. d.pc = "init" /\ d.id = s.id
        BY <2>1 DEF Save
      <4>2. save'[h] = d \/ (save'[h] = NoSave /\ s.new)
        BY <2>1, <2>3, <2>5 DEF AfterWrite, Save
      <4> HIDE DEF d
      <4> QED BY <4>1, <4>2
    <3>3. \A i \in RowIds : \A p :
             row["downloader"][i].state # "unused" /\ i \notin reverted' /\ Faithful(i, p)
             => Faithful(i, p)'
      <4> SUFFICES ASSUME NEW i \in RowIds, NEW p, row["downloader"][i].state # "unused", Faithful(i, p)
                   PROVE  Faithful(i, p)'
        OBVIOUS
      <4>1. CASE i = s.id
        <5>1. save'[h].pc = "init"
          BY <2>3, <2>5, <3>2, <4>1
        <5>2. Pending(i)'
          BY <3>2, <4>1, <5>1 DEF Pending
        <5> QED BY <5>2 DEF Faithful
      <4>2. CASE i # s.id
        <5>1. Pending(i)' = Pending(i)
          BY <2>1, <2>3, <3>2, <4>2 DEF Pending
        <5> QED BY <3>1, <4>2, <5>1 DEF Faithful, IsRow
      <4> QED BY <4>1, <4>2
    <3>4. \A i \in RowIds : row'["downloader"][i].state = "unused" => row["downloader"][i].state = "unused"
      BY <2>2, <3>1
    <3>5. save'[h].pc = "init" => row'["downloader"][save'[h].id].state # "unused"
      BY <2>2, <3>1, <3>2
    <3> QED BY <2>1, <2>3, <3>2, <3>3, <3>4, <3>5, ClientFollows
  <2> QED BY <2>4, <2>5
<1>6. ASSUME NEW h \in Savers, WriteFails(h) \/ DeleteFails(h)
      PROVE  ClientKept'
  BY <1>6, <1>a DEF WriteFails, DeleteFails, Responds
<1>7. ASSUME NEW h \in Savers, DeleteRow(h)
      PROVE  ClientKept'
  <2> DEFINE s == save[h]
  <2>1. s \in Save /\ s.kind \in Kinds /\ s.id \in RowIds /\ s.pc = "remove"
    BY <1>7, <1>k DEF DeleteRow
  <2>2. /\ row' = [row EXCEPT ![s.kind][s.id] = DeletedRow]
        /\ UNCHANGED <<client, manager, reverted>>
        /\ save'[h] = NoSave /\ \A g \in Savers \ {h} : save'[g] = save[g]
    BY <1>7, <1>t DEF DeleteRow, Responds
  <2>3. CASE s.kind # "downloader"
    <3>1. row'["downloader"] = row["downloader"]
      BY <1>t, <2>1, <2>2, <2>3
    <3> QED BY <2>1, <2>2, <3>1, ClientCalm
  <2>4. CASE s.kind = "downloader"
    <3>1. /\ row'["downloader"][s.id].state = "deleted"
          /\ \A j \in RowIds \ {s.id} : row'["downloader"][j] = row["downloader"][j]
      BY <1>t, <2>1, <2>2, <2>4, PlainRows
    <3>2. \A i : Pending(i)' = Pending(i)
      BY <2>1, <2>2 DEF Pending
    <3>3. \A i \in RowIds : \A p : Faithful(i, p) => Faithful(i, p)'
      BY <3>1, <3>2 DEF Faithful, IsRow
    <3> QED BY <2>1, <2>2, <3>1, <3>3, ClientFollows
  <2> QED BY <2>3, <2>4
<1>8. ASSUME NEW h \in Savers, InitializeDownloader(h)
      PROVE  ClientKept'
  <2>1. PICK i \in RowIds : i = save[h].id
    BY <1>8, <1>k DEF InitializeDownloader
  <2> DEFINE s == save[h]
             now == row["downloader"][i]
             d == [s EXCEPT !.pc = "test", !.password = now.password]
  <2>2. s \in Save /\ s.pc = "init" /\ now \in SettingsRow /\ now.state # "unused"
    BY <1>8, <1>t, <2>1 DEF InitializeDownloader, ClientKept
  <2>3. \A g \in Savers : save[g].pc # "test"
    BY <1>8, SettingsAssumption DEF InitializeDownloader, Unlocked, ClientKept
  <2>4. /\ row' = row
        /\ IF now.state = "present"
           THEN client' = [client EXCEPT ![i] = NoPassword] /\ reverted' = reverted \ {i}
           ELSE UNCHANGED <<client, reverted>>
        /\ IF now.enabled
           THEN save' = [save EXCEPT ![h] = d] /\ manager' = h
           ELSE save' = [save EXCEPT ![h] = NoSave]
    BY <1>8, <1>t, <2>1 DEF InitializeDownloader, Responds
  <2>5. now.enabled => now.state = "present"
    BY PlainRows DEF SettingsKept, Tidy
  <2>6. d.pc = "test" /\ d.id = i /\ d.password = now.password
    BY <2>1, <2>2 DEF Save
  <2> HIDE DEF d
  <2>7. /\ save'[h] = IF now.enabled THEN d ELSE NoSave
        /\ \A g \in Savers \ {h} : save'[g] = save[g]
    BY <1>t, <2>4
  <2>8. \A j \in RowIds \ {i} : Pending(j)' = Pending(j)
    BY <2>1, <2>6, <2>7 DEF Pending
  <2>9. ASSUME NEW g \in Savers
        PROVE  /\ save'[g].pc \in {"init", "test"} => row'["downloader"][save'[g].id].state # "unused"
               /\ save'[g].pc = "test" => manager' = g
               /\ save'[g].pc = "test" /\ save'[g].id \notin reverted' =>
                   Faithful(save[g].id, save[g].password)'
    <3>1. CASE g # h
      BY <2>3, <2>4, <2>7, <3>1 DEF ClientKept
    <3>2. CASE g = h /\ ~now.enabled
      BY <2>7, <3>2
    <3>3. CASE g = h /\ now.enabled
      <4>1. save'[g] = d /\ manager' = h
        BY <2>4, <2>7, <3>3
      <4>2. Faithful(save[g].id, save[g].password)'
        BY <2>4, <2>6, <3>3, <4>1 DEF Faithful
      <4> QED BY <2>2, <2>4, <2>6, <3>3, <4>1, <4>2
    <3> QED BY <3>1, <3>2, <3>3
  <2>10. ASSUME NEW j \in RowIds
         PROVE  /\ row'["downloader"][j].state = "unused" => client'[j] = NoPassword
                /\ j \notin reverted' /\ client'[j] # NoPassword => Faithful(j, client[j])'
    <3>1. CASE j = i
      <4>1. CASE now.state = "present"
        <5>1. client'[j] = NoPassword
          BY <1>t, <2>4, <3>1, <4>1
        <5> QED BY <5>1
      <4>2. CASE now.state # "present"
        BY <2>2, <2>4, <3>1, <4>2 DEF Faithful, IsRow
      <4> QED BY <4>1, <4>2
    <3>2. CASE j # i
      <4>1. client'[j] = client[j] /\ (j \in reverted' <=> j \in reverted) /\ row' = row
        BY <1>t, <2>4, <3>2
      <4>2. Faithful(j, client[j])' = Faithful(j, client[j])
        BY <2>8, <3>2, <4>1 DEF Faithful, IsRow
      <4> QED BY <4>1, <4>2 DEF ClientKept
    <3> QED BY <3>1, <3>2
  <2> QED BY <2>9, <2>10 DEF ClientKept
<1>9. ASSUME NEW h \in Savers, TestClient(h)
      PROVE  ClientKept'
  <2>1. PICK i \in RowIds : i = save[h].id
    BY <1>9, <1>k DEF TestClient
  <2>2. PICK p : p = save[h].password
    OBVIOUS
  <2>3. /\ save[h].pc = "test" /\ UNCHANGED <<row, reverted>> /\ save' = [save EXCEPT ![h] = NoSave]
        /\ client' = client \/ client' = [client EXCEPT ![i] = p]
    BY <1>9, <2>1, <2>2 DEF TestClient, Responds
  <2>4. /\ i \notin reverted => Faithful(i, p)
        /\ row["downloader"][i].state # "unused"
        /\ \A g \in Savers \ {h} : save[g].pc # "test"
    BY <2>1, <2>2, <2>3 DEF ClientKept
  <2>5. save'[h] = NoSave /\ \A g \in Savers \ {h} : save'[g] = save[g]
    BY <1>t, <2>3
  <2>6. \A j : Pending(j)' = Pending(j)
    BY <2>3, <2>5 DEF Pending
  <2>7. \A j, q : Faithful(j, q)' = Faithful(j, q)
    BY <2>3, <2>6 DEF Faithful, IsRow
  <2>8. ASSUME NEW g \in Savers
        PROVE  /\ save'[g].pc \in {"init", "test"} => row'["downloader"][save'[g].id].state # "unused"
               /\ save'[g].pc # "test"
    BY <2>3, <2>4, <2>5 DEF ClientKept
  <2>9. ASSUME NEW j \in RowIds
        PROVE  /\ row'["downloader"][j].state = "unused" => client'[j] = NoPassword
               /\ j \notin reverted' /\ client'[j] # NoPassword => Faithful(j, client[j])'
    <3>1. PICK q : q = client'[j]
      OBVIOUS
    <3>2. Faithful(j, client[j])' = Faithful(j, q)'
      BY <3>1 DEF Faithful
    <3>3. q = client[j] \/ (j = i /\ q = p)
      BY <1>t, <2>3, <3>1
    <3>4. j \notin reverted /\ q # NoPassword => Faithful(j, q)
      BY <2>4, <3>3 DEF ClientKept
    <3>5. row["downloader"][j].state = "unused" => q = NoPassword
      BY <2>4, <3>3 DEF ClientKept
    <3> QED BY <2>3, <2>7, <3>1, <3>2, <3>4, <3>5
  <2> QED BY <2>8, <2>9 DEF ClientKept
<1>10. CASE SettingsRestart
  <2>1. /\ \A h \in Savers : save'[h] = NoSave
        /\ row' = row
        /\ \A i \in RowIds : client'[i] # NoPassword =>
              /\ row["downloader"][i].enabled
              /\ client'[i] = row["downloader"][i].password
    BY <1>10 DEF SettingsRestart
  <2>2. \A i \in RowIds : row["downloader"][i].state = "unused" => ~row["downloader"][i].enabled
    BY PlainRows DEF SettingsKept, Tidy
  <2> QED BY <2>1, <2>2 DEF ClientKept, Faithful
<1>11. CASE UNCHANGED settingsVars
  BY <1>11 DEF settingsVars, ClientKept, Faithful, IsRow, Pending
<1> QED
  BY <1>1, <1>2, <1>3, <1>4, <1>5, <1>6, <1>7, <1>8, <1>9, <1>10, <1>11 DEF SettingsNext

-----------------------------------------------------------------------------
\* The invariants of the settings hold at first.
LEMMA SettingsStart ==
    ASSUME SettingsInit
    PROVE  SettingsKept /\ DefaultStands /\ ClientKept
<1> USE NoSaveIdle, PlainRows
<1>1. SettingsTyped
  <2>1. 0 \in 0..MaxSaves
    BY SettingsAssumption
  <2> QED BY <2>1 DEF SettingsInit, SettingsTyped
<1>2. SettingsKept
  BY <1>1 DEF SettingsInit, SettingsKept, Tidy
<1> QED BY <1>2 DEF SettingsInit, DefaultStands, ClientKept

\* The inductive invariants of the settings hold in every state.
THEOREM SettingsHold == SettingsSpec => [](SettingsKept /\ DefaultStands /\ ClientKept)
<1>1. SettingsInit => SettingsKept /\ DefaultStands /\ ClientKept
  BY SettingsStart
<1>2. SettingsKept /\ DefaultStands /\ ClientKept /\ [SettingsNext]_settingsVars
      => (SettingsKept /\ DefaultStands /\ ClientKept)'
  BY SettingsKeptInductive, DefaultStandsInductive, ClientKeptInductive
<1> QED BY <1>1, <1>2, PTL DEF SettingsSpec

\* DefaultStands: a kind that has a default keeps one, or has a request on its
\* way to write one (DownloadersService.Create, NameTemplatesService.Update).
THEOREM ADefaultStands == SettingsSpec => []DefaultStands
BY SettingsHold, PTL

\* ClientCurrent: the client the workers are given was built from the row as it
\* is (Manager.InitializeDownloader).
THEOREM ClientsCurrent == SettingsSpec => []ClientCurrent
<1>1. ClientKept => ClientCurrent
  BY DEF ClientKept, Faithful, Pending, ClientCurrent
<1> QED BY <1>1, SettingsHold, PTL

-----------------------------------------------------------------------------
(***************************************************************************)
(* Quality profiles.  What refers to a row refers to one that is there;    *)
(* while the presets are seeded, nothing else is going on.                 *)
(***************************************************************************)
EditsKept ==
    /\ boot.pc # "up" => resolve = NoResolve /\ \A h \in Editors : edit[h] = NoEdit
    /\ \A h \in Editors :
          edit[h].pc # "idle" => edit[h].id \in Profiles /\ edit[h].domain \in Domains

TablesKept ==
    /\ \A p \in Profiles : \A f \in assigned[p] : Stored(format, f)
    /\ \A d \in Domains : binding[d] # NoProfile => Stored(profile, binding[d])
    /\ boot.pc = "up" /\ ~shaken => \A d \in Domains : binding[d] # NoProfile

\* How far the seeding has come: the presets of the domains before this one are
\* there, and then the bindings of the tiers before this one.
SeedProgress ==
    /\ boot.pc \in {"format", "row", "assign"} => boot.n \in DOMAIN Seeds
    /\ boot.pc \in {"row", "assign"} => Stored(format, Repack[Now])
    /\ boot.pc = "assign" => Stored(profile, Presets[Now]) /\ Presets[Now] \in fresh
    /\ boot.pc \in {"format", "row"} => ~Stored(profile, Presets[Now])
    /\ boot.pc \in {"preset", "format", "row", "assign"} =>
          \A k \in 1..(boot.n - 1) : Stored(profile, Presets[Seeds[k]])
    /\ boot.pc = "bind" =>
          /\ \A d \in Domains : Stored(profile, Presets[d])
          /\ \A k \in 1..(boot.n - 1) : binding[Seeds[k]] # NoProfile

StoreKept == StoreTyped /\ EditsKept /\ TablesKept /\ SeedProgress

\* A resolution finds what it is about to read, unless it was deleted meanwhile.
ResolveKept ==
    /\ resolve.pc \in {"profile", "list", "formats"} => resolve.id \in Profiles
    /\ ~shaken /\ ~disturbed => resolve.pc # "failed"
    /\ ~disturbed =>
          /\ resolve.pc = "profile" => Stored(profile, resolve.id)
          /\ resolve.pc = "formats" => \A f \in resolve.todo : Stored(format, f)

\* The seeds are the domains, each with a preset and a format.
LEMMA SeedsAre ==
    /\ DOMAIN Seeds = 1..Len(Seeds) /\ Len(Seeds) \in Nat
    /\ \A n \in DOMAIN Seeds : /\ Seeds[n] \in Domains
                               /\ Presets[Seeds[n]] \in Profiles /\ Repack[Seeds[n]] \in Formats
    /\ \A d \in Domains : Presets[d] \in Profiles /\ \E n \in DOMAIN Seeds : Seeds[n] = d
BY ProfileStoreAssumption

\* The records of what has not begun.
LEMMA PlainRecords ==
    /\ NoEdit \in Edit /\ NoEdit.pc = "idle"
    /\ NoResolve \in Resolution /\ NoResolve.pc = "idle"
    /\ Down.pc = "down" /\ Up.pc = "up" /\ Down.n = 1 /\ Up.n = 1
BY DEF NoEdit, Edit, NoResolve, Resolution, Down, Up

Boot == [pc : {"down", "preset", "format", "row", "assign", "bind", "up"}, n : 1..(Len(Seeds) + 1)]

\* The records of a start.
LEMMA Boots ==
    /\ Down \in Boot /\ Up \in Boot
    /\ \A pc \in {"down", "preset", "format", "row", "assign", "bind", "up"},
          n \in 1..(Len(Seeds) + 1) :
          LET b == [pc |-> pc, n |-> n] IN b \in Boot /\ b.pc = pc /\ b.n = n
BY SeedsAre DEF Down, Up, Boot

\* What To and NextPreset make of them.
LEMMA Reseats ==
    ASSUME boot \in Boot
    PROVE  /\ \A pc : To(pc) => boot'.pc = pc /\ boot'.n = boot.n
           /\ NextPreset => boot'.pc = boot.pc /\ boot'.n = boot.n + 1
           /\ \A pc \in {"down", "preset", "format", "row", "assign", "bind", "up"} : To(pc) => boot' \in Boot
           /\ boot.n \in DOMAIN Seeds /\ NextPreset => boot' \in Boot
BY SeedsAre DEF Boot, To, NextPreset

-----------------------------------------------------------------------------
\* StoreTyped is inductive, with what a request and a resolution know.
LEMMA StoreTypedInductive ==
    ASSUME StoreTyped, EditsKept, ResolveKept, [StoreNext]_storeVars
    PROVE  StoreTyped'
<1> USE PlainRecords, SeedsAre
<1>t. boot \in Boot
  BY DEF StoreTyped, Boot
<1>n. Seeding("preset") \/ Seeding("format") \/ Seeding("row") \/ Seeding("assign") \/ Seeding("bind")
      => Now \in Domains /\ Presets[Now] \in Profiles /\ Repack[Now] \in Formats /\ boot.n \in DOMAIN Seeds
  BY DEF Seeding, Now
<1>b. ASSUME boot' \in Boot, fresh' \subseteq Profiles,
             UNCHANGED <<tables, shaken, edit, edits, resolve, disturbed>>
      PROVE  StoreTyped'
  BY <1>b DEF StoreTyped, Boot, tables
<1>1. CASE Start
  <2>1. boot' \in Boot
    BY <1>1, Boots DEF Start
  <2> QED BY <1>1, <1>b, <2>1 DEF Start, StoreTyped
<1>2. CASE GetPreset
  BY <1>2, <1>t, <1>b, Reseats DEF GetPreset, Seeding, StoreTyped
<1>3. CASE SeedCustomFormat
  <2>1. boot' \in Boot /\ format' \in [Formats -> Domains \cup {"none", "gone"}]
    BY <1>3, <1>t, <1>n, Reseats DEF SeedCustomFormat, StoreTyped
  <2> QED BY <1>3, <2>1 DEF SeedCustomFormat, StoreTyped, Boot
<1>4. CASE SeedQualityProfile
  <2>1. /\ boot' \in Boot /\ profile' \in [Profiles -> Domains \cup {"none", "gone"}]
        /\ fresh' \subseteq Profiles
    BY <1>4, <1>t, <1>n, Reseats DEF SeedQualityProfile, StoreTyped
  <2> QED BY <1>4, <2>1 DEF SeedQualityProfile, StoreTyped, Boot
<1>5. CASE SeedFormats
  <2>1. boot.n + 1 \in 1..(Len(Seeds) + 1)
    BY <1>5, <1>n DEF SeedFormats
  <2>2. boot' \in Boot
    BY <1>5, <2>1, Boots DEF SeedFormats
  <2>3. assigned' \in [Profiles -> SUBSET Formats]
    BY <1>5, <1>n DEF SeedFormats, StoreTyped
  <2> QED BY <1>5, <2>2, <2>3 DEF SeedFormats, StoreTyped, Boot
<1>6. CASE PresetsDone
  <2>1. boot' \in Boot
    BY <1>6, Boots DEF PresetsDone
  <2> QED BY <1>6, <1>b, <2>1 DEF PresetsDone, StoreTyped
<1>7. CASE SeedBinding
  <2>1. boot' \in Boot /\ binding' \in [Domains -> Profiles \cup {NoProfile}]
    BY <1>7, <1>t, <1>n, Reseats DEF SeedBinding, StoreTyped
  <2> QED BY <1>7, <2>1 DEF SeedBinding, StoreTyped, Boot
<1>8. CASE Listen \/ SeedFails
  <2>1. boot' \in Boot
    BY <1>8, Boots DEF Listen, SeedFails
  <2> QED BY <1>8, <2>1 DEF Listen, SeedFails, StoreTyped, Boot, tables
<1>9. CASE Stop
  <2>1. boot' \in Boot
    BY <1>9, Boots DEF Stop
  <2> QED BY <1>9, <2>1 DEF Stop, StoreTyped, Boot, tables
<1>e. Edits => edits' \in 0..MaxEdits
  BY ProfileStoreAssumption DEF Edits, StoreTyped
<1>10. ASSUME NEW h \in Editors, NEW p \in Profiles, NEW d \in Domains, NEW formats \in SUBSET Formats,
              WriteProfile(h, p, d, formats)
       PROVE  StoreTyped'
  <2> DEFINE e == [pc |-> "row", id |-> p, domain |-> d, formats |-> formats, new |-> profile[p] = "none"]
  <2>1. e \in Edit
    BY DEF Edit
  <2>2. edit' = [edit EXCEPT ![h] = e]
    BY <1>10 DEF WriteProfile
  <2> HIDE DEF e
  <2>3. edit' \in [Editors -> Edit]
    BY <2>1, <2>2 DEF StoreTyped
  <2> QED BY <1>10, <1>e, <2>3 DEF WriteProfile, StoreTyped, tables
<1>11. ASSUME NEW h \in Editors, WriteProfileRow(h)
       PROVE  StoreTyped'
  <2> DEFINE e == edit[h]
             d == [e EXCEPT !.pc = "assign"]
  <2>1. e \in Edit /\ e.id \in Profiles /\ e.domain \in Domains
    BY <1>11 DEF WriteProfileRow, StoreTyped, EditsKept
  <2>2. d \in Edit
    BY <2>1 DEF Edit
  <2>3. \E c \in {d, NoEdit} : edit' = [edit EXCEPT ![h] = c]
    BY <1>11 DEF WriteProfileRow, Edited
  <2>4. profile' \in [Profiles -> Domains \cup {"none", "gone"}]
    BY <1>11, <2>1 DEF WriteProfileRow, StoreTyped
  <2> HIDE DEF d
  <2>5. edit' \in [Editors -> Edit]
    BY <2>2, <2>3 DEF StoreTyped
  <2> QED BY <1>11, <2>4, <2>5 DEF WriteProfileRow, StoreTyped
<1>12. ASSUME NEW h \in Editors, SetProfileFormats(h)
       PROVE  StoreTyped'
  <2>1. edit[h].formats \in SUBSET Formats
    BY DEF StoreTyped, Edit
  <2>2. assigned' \in [Profiles -> SUBSET Formats] /\ edit' \in [Editors -> Edit]
    BY <1>12, <2>1 DEF SetProfileFormats, Edited, StoreTyped
  <2> QED BY <1>12, <2>2 DEF SetProfileFormats, StoreTyped
<1>13. ASSUME NEW p \in Profiles, DeleteProfile(p)
       PROVE  StoreTyped'
  <2>1. /\ profile' \in [Profiles -> Domains \cup {"none", "gone"}]
        /\ assigned' \in [Profiles -> SUBSET Formats]
        /\ binding' \in [Domains -> Profiles \cup {NoProfile}]
    BY <1>13 DEF DeleteProfile, Ends, StoreTyped
  <2> QED BY <1>13, <1>e, <2>1 DEF DeleteProfile, StoreTyped
<1>14. ASSUME NEW f \in Formats, NEW d \in Domains, WriteCustomFormat(f, d)
       PROVE  StoreTyped'
  BY <1>14, <1>e DEF WriteCustomFormat, StoreTyped
<1>15. ASSUME NEW f \in Formats, DeleteCustomFormat(f)
       PROVE  StoreTyped'
  BY <1>15, <1>e DEF DeleteCustomFormat, Ends, Unassigned, StoreTyped
<1>16. ASSUME NEW d \in Domains, NEW p \in Profiles, BindTier(d, p)
       PROVE  StoreTyped'
  BY <1>16, <1>e DEF BindTier, StoreTyped
<1>r. ASSUME resolve' \in Resolution, UNCHANGED <<tables, boot, fresh, shaken, edit, edits>>,
             disturbed' \in BOOLEAN
      PROVE  StoreTyped'
  BY <1>r DEF StoreTyped, tables
<1>17. ASSUME NEW d \in Domains, ResolveByTier(d)
       PROVE  StoreTyped'
  <2>1. resolve' \in Resolution
    BY <1>17 DEF ResolveByTier, Resolution, StoreTyped
  <2> QED BY <1>17, <1>r, <2>1 DEF ResolveByTier, StoreTyped
<1>18. CASE GetQualityProfile
  <2>1. resolve' \in Resolution
    BY <1>18 DEF GetQualityProfile, Reads, Resolution, StoreTyped
  <2> QED BY <1>18, <1>r, <2>1 DEF GetQualityProfile, StoreTyped
<1>19. CASE ListProfileFormats
  <2>1. assigned[resolve.id] \in SUBSET Formats
    BY <1>19 DEF ListProfileFormats, ResolveKept, StoreTyped
  <2>2. resolve' \in Resolution
    BY <1>19, <2>1 DEF ListProfileFormats, Resolution, StoreTyped
  <2> QED BY <1>19, <1>r, <2>2 DEF ListProfileFormats, StoreTyped
<1>20. ASSUME NEW f \in Formats, GetCustomFormat(f)
       PROVE  StoreTyped'
  <2>1. resolve' \in Resolution
    BY <1>20 DEF GetCustomFormat, Resolution, StoreTyped
  <2> QED BY <1>20, <1>r, <2>1 DEF GetCustomFormat, StoreTyped
<1>21. CASE Resolved
  BY <1>21, <1>r DEF Resolved, StoreTyped
<1>22. CASE UNCHANGED storeVars
  BY <1>22 DEF storeVars, StoreTyped
<1> QED
  BY <1>1, <1>2, <1>3, <1>4, <1>5, <1>6, <1>7, <1>8, <1>9, <1>10, <1>11, <1>12, <1>13, <1>14,
     <1>15, <1>16, <1>17, <1>18, <1>19, <1>20, <1>21, <1>22
  DEF StoreNext, SeedDefaults, Maintain, ResolveTier

\* Only a server that is up serves.
LEMMA ServedWhenUp ==
    ASSUME EditsKept
    PROVE  /\ resolve.pc # "idle" => boot.pc = "up"
           /\ \A h \in Editors : edit[h].pc # "idle" => boot.pc = "up"
BY PlainRecords DEF EditsKept

\* The steps of the start keep the requests where they are: there are none.
LEMMA SeedingQuiet ==
    ASSUME SeedDefaults
    PROVE  boot.pc # "up" /\ UNCHANGED <<edit, edits, resolve, disturbed>>
BY DEF SeedDefaults, Start, GetPreset, SeedCustomFormat, SeedQualityProfile, SeedFormats,
       PresetsDone, SeedBinding, Listen, SeedFails, Seeding

\* The edits of the operator leave the start and the resolution alone.
LEMMA MaintainsUp ==
    ASSUME EditsKept, Maintain
    PROVE  boot.pc = "up" /\ UNCHANGED <<boot, fresh, resolve>>
BY ServedWhenUp
   DEF Maintain, WriteProfile, WriteProfileRow, SetProfileFormats, DeleteProfile, BindTier,
       DeleteCustomFormat, WriteCustomFormat, Edits

\* A resolution changes nothing but itself.
LEMMA ResolvesUp ==
    ASSUME EditsKept, ResolveTier
    PROVE  boot.pc = "up" /\ UNCHANGED <<tables, boot, fresh, shaken, edit, edits>>
BY ServedWhenUp
   DEF ResolveTier, ResolveByTier, GetQualityProfile, ListProfileFormats, GetCustomFormat, Resolved

\* EditsKept is inductive relative to StoreTyped.
LEMMA EditsKeptInductive ==
    ASSUME StoreTyped, EditsKept, [StoreNext]_storeVars
    PROVE  EditsKept'
<1> USE PlainRecords
<1>1. CASE SeedDefaults
  BY <1>1, SeedingQuiet DEF EditsKept
<1>2. CASE Stop
  BY <1>2 DEF Stop, EditsKept
<1>3. CASE Maintain
  <2>u. boot.pc = "up" /\ boot' = boot
    BY <1>3, MaintainsUp
  <2> SUFFICES ASSUME NEW h \in Editors, edit'[h].pc # "idle"
               PROVE  edit'[h].id \in Profiles /\ edit'[h].domain \in Domains
    BY <2>u DEF EditsKept
  <2>1. CASE UNCHANGED edit
    BY <2>1 DEF EditsKept
  <2>2. ASSUME NEW g \in Editors, NEW p \in Profiles, NEW d \in Domains,
               NEW formats \in SUBSET Formats, WriteProfile(g, p, d, formats)
        PROVE  edit'[h].id \in Profiles /\ edit'[h].domain \in Domains
    BY <2>2 DEF WriteProfile, EditsKept, StoreTyped
  <2>3. ASSUME NEW g \in Editors, WriteProfileRow(g) \/ SetProfileFormats(g)
        PROVE  edit'[h].id \in Profiles /\ edit'[h].domain \in Domains
    <3> DEFINE d == [edit[g] EXCEPT !.pc = "assign"]
    <3>1. edit[g] \in Edit /\ edit[g].id \in Profiles /\ edit[g].domain \in Domains
      BY <2>3 DEF WriteProfileRow, SetProfileFormats, EditsKept, StoreTyped
    <3>2. d.id = edit[g].id /\ d.domain = edit[g].domain
      BY <3>1 DEF Edit
    <3>3. \E c \in {d, NoEdit} : edit' = [edit EXCEPT ![g] = c]
      BY <2>3 DEF WriteProfileRow, SetProfileFormats, Edited
    <3> HIDE DEF d
    <3>4. edit'[h] \in {d, NoEdit, edit[h]} /\ (edit'[h] = d => h = g \/ d = edit[h])
      BY <3>3 DEF StoreTyped
    <3> QED BY <3>1, <3>2, <3>4 DEF EditsKept
  <2> QED
    BY <1>3, <2>1, <2>2, <2>3
    DEF Maintain, DeleteProfile, BindTier, DeleteCustomFormat, WriteCustomFormat
<1>4. CASE ResolveTier
  BY <1>4, ResolvesUp DEF EditsKept
<1>5. CASE UNCHANGED storeVars
  BY <1>5 DEF storeVars, EditsKept
<1> QED BY <1>1, <1>2, <1>3, <1>4, <1>5 DEF StoreNext

\* TablesKept is inductive relative to StoreKept.
LEMMA TablesKeptInductive ==
    ASSUME StoreKept, [StoreNext]_storeVars
    PROVE  TablesKept'
<1> USE PlainRecords, SeedsAre
<1>t. /\ profile \in [Profiles -> Domains \cup {"none", "gone"}]
      /\ assigned \in [Profiles -> SUBSET Formats]
      /\ format \in [Formats -> Domains \cup {"none", "gone"}]
      /\ binding \in [Domains -> Profiles \cup {NoProfile}]
  BY DEF StoreKept, StoreTyped
<1>k. /\ \A p \in Profiles : \A f \in assigned[p] : f \in Formats /\ Stored(format, f)
      /\ \A d \in Domains : binding[d] # NoProfile => binding[d] \in Profiles /\ Stored(profile, binding[d])
      /\ boot.pc = "up" /\ ~shaken => \A d \in Domains : binding[d] # NoProfile
  BY <1>t DEF StoreKept, TablesKept
<1>e. EditsKept
  BY DEF StoreKept
<1>1. CASE SeedDefaults
  <2>1. CASE Start \/ GetPreset \/ PresetsDone
    <3>1. UNCHANGED tables /\ boot'.pc # "up"
      BY <2>1, Reseats DEF Start, GetPreset, PresetsDone, Seeding, To, NextPreset, StoreKept, StoreTyped, Boot
    <3> QED BY <3>1, <1>k DEF TablesKept, tables, Stored
  <2>2. CASE SeedCustomFormat
    <3>1. Repack[Now] \in Formats /\ Now \in Domains /\ boot'.pc # "up"
      BY <2>2, Reseats DEF SeedCustomFormat, Seeding, Now, StoreKept, StoreTyped, Boot
    <3>2. \A f \in Formats : Stored(format, f) => Stored(format', f)
      BY <2>2, <1>t, <3>1 DEF SeedCustomFormat, Stored
    <3>3. UNCHANGED <<profile, assigned, binding>>
      BY <2>2 DEF SeedCustomFormat
    <3> QED BY <1>k, <3>1, <3>2, <3>3 DEF TablesKept, Stored
  <2>3. CASE SeedQualityProfile
    <3>1. Presets[Now] \in Profiles /\ Now \in Domains /\ boot'.pc # "up"
      BY <2>3, Reseats DEF SeedQualityProfile, Seeding, Now, StoreKept, StoreTyped, Boot
    <3>2. \A p \in Profiles : Stored(profile, p) => Stored(profile', p)
      BY <2>3, <1>t, <3>1 DEF SeedQualityProfile, Stored
    <3>3. UNCHANGED <<format, assigned, binding>>
      BY <2>3 DEF SeedQualityProfile
    <3> QED BY <1>k, <3>1, <3>2, <3>3 DEF TablesKept, Stored
  <2>4. CASE SeedFormats
    <3>1. Presets[Now] \in Profiles /\ boot'.pc = "preset" /\ Stored(format, Repack[Now])
      BY <2>4 DEF SeedFormats, Seeding, Now, StoreKept, SeedProgress
    <3>2. /\ UNCHANGED <<format, profile, binding>>
          /\ \A p \in Profiles : assigned'[p] = IF p = Presets[Now] THEN {Repack[Now]} ELSE assigned[p]
      BY <2>4, <1>t DEF SeedFormats
    <3> QED BY <1>k, <3>1, <3>2 DEF TablesKept, Stored
  <2>5. CASE SeedBinding
    <3>1. Presets[Now] \in Profiles /\ Now \in Domains /\ Stored(profile, Presets[Now]) /\ boot'.pc # "up"
      BY <2>5, Reseats DEF SeedBinding, Seeding, Now, StoreKept, StoreTyped, Boot, SeedProgress
    <3>2. /\ UNCHANGED <<format, profile, assigned>>
          /\ \A d \in Domains : binding'[d] \in {binding[d], Presets[Now]}
      BY <2>5, <1>t, <3>1 DEF SeedBinding
    <3> QED BY <1>k, <3>1, <3>2 DEF TablesKept, Stored
  <2>6. CASE Listen
    <3>1. UNCHANGED tables /\ boot.pc = "bind" /\ boot.n \notin DOMAIN Seeds
      BY <2>6 DEF Listen
    <3>2. boot.n \in 1..(Len(Seeds) + 1)
      BY DEF StoreKept, StoreTyped
    <3>3. \A n \in DOMAIN Seeds : n \in 1..(boot.n - 1)
      BY <3>1, <3>2
    <3>4. \A d \in Domains : binding[d] # NoProfile
      BY <3>1, <3>3 DEF StoreKept, SeedProgress
    <3> QED BY <1>k, <3>1, <3>4 DEF TablesKept, tables, Stored
  <2>7. CASE SeedFails
    BY <2>7, <1>k DEF SeedFails, TablesKept, tables, Stored
  <2> QED BY <1>1, <2>1, <2>2, <2>3, <2>4, <2>5, <2>6, <2>7 DEF SeedDefaults
<1>2. CASE Stop
  BY <1>2, <1>k DEF Stop, TablesKept, tables, Stored
<1>3. CASE Maintain
  <2>u. boot.pc = "up" /\ boot' = boot
    BY <1>3, <1>e, MaintainsUp
  <2>1. ASSUME NEW h \in Editors, NEW p \in Profiles, NEW d \in Domains,
               NEW formats \in SUBSET Formats, WriteProfile(h, p, d, formats)
        PROVE  TablesKept'
    BY <2>1, <1>k DEF WriteProfile, TablesKept, tables, Stored
  <2>2. ASSUME NEW h \in Editors, WriteProfileRow(h)
        PROVE  TablesKept'
    <3>1. edit[h].id \in Profiles /\ edit[h].domain \in Domains
      BY <2>2, <1>e DEF WriteProfileRow, EditsKept
    <3>2. \A p \in Profiles : Stored(profile, p) => Stored(profile', p)
      BY <2>2, <1>t, <3>1 DEF WriteProfileRow, Stored
    <3>3. UNCHANGED <<assigned, format, binding, boot, shaken>>
      BY <2>2 DEF WriteProfileRow
    <3> QED BY <1>k, <3>2, <3>3 DEF TablesKept, Stored
  <2>3. ASSUME NEW h \in Editors, SetProfileFormats(h)
        PROVE  TablesKept'
    <3>1. /\ UNCHANGED <<profile, format, binding, boot, shaken>>
          /\ \/ assigned' = assigned
             \/ /\ \A f \in edit[h].formats : Stored(format, f)
                /\ assigned' = [assigned EXCEPT ![edit[h].id] = edit[h].formats]
      BY <2>3 DEF SetProfileFormats
    <3>2. \A p \in Profiles : \A f \in assigned'[p] : Stored(format, f)
      BY <1>t, <1>k, <3>1
    <3> QED BY <1>k, <3>1, <3>2 DEF TablesKept, Stored
  <2>4. ASSUME NEW p \in Profiles, DeleteProfile(p)
        PROVE  TablesKept'
    <3>1. /\ UNCHANGED <<format, boot>> /\ shaken'
          /\ \A q \in Profiles : /\ assigned'[q] = IF q = p THEN {} ELSE assigned[q]
                                 /\ q # p => profile'[q] = profile[q]
          /\ \A d \in Domains : binding'[d] = IF binding[d] = p THEN NoProfile ELSE binding[d]
      BY <2>4, <1>t DEF DeleteProfile
    <3> QED BY <1>k, <3>1 DEF TablesKept, Stored
  <2>5. ASSUME NEW f \in Formats, NEW d \in Domains, WriteCustomFormat(f, d)
        PROVE  TablesKept'
    <3>1. \A g \in Formats : Stored(format, g) => Stored(format', g)
      BY <2>5, <1>t DEF WriteCustomFormat, Stored
    <3>2. UNCHANGED <<profile, assigned, binding, boot, shaken>>
      BY <2>5 DEF WriteCustomFormat
    <3> QED BY <1>k, <3>1, <3>2 DEF TablesKept, Stored
  <2>6. ASSUME NEW f \in Formats, DeleteCustomFormat(f)
        PROVE  TablesKept'
    <3>1. /\ \A g \in Formats \ {f} : format'[g] = format[g]
          /\ \A p \in Profiles : assigned'[p] = assigned[p] \ {f}
          /\ UNCHANGED <<profile, binding, boot, shaken>>
      BY <2>6, <1>t DEF DeleteCustomFormat, Unassigned
    <3> QED BY <1>k, <3>1 DEF TablesKept, Stored
  <2>7. ASSUME NEW d \in Domains, NEW p \in Profiles, BindTier(d, p)
        PROVE  TablesKept'
    <3>1. /\ \A c \in Domains : binding'[c] = IF c = d THEN p ELSE binding[c]
          /\ Stored(profile, p) /\ UNCHANGED <<profile, assigned, format, boot, shaken>>
      BY <2>7, <1>t DEF BindTier
    <3> QED BY <1>k, <3>1, ProfileStoreAssumption DEF TablesKept, Stored
  <2> QED BY <1>3, <2>1, <2>2, <2>3, <2>4, <2>5, <2>6, <2>7 DEF Maintain
<1>4. CASE ResolveTier
  BY <1>4, <1>e, <1>k, ResolvesUp DEF TablesKept, tables, Stored
<1>5. CASE UNCHANGED storeVars
  BY <1>5, <1>k DEF storeVars, TablesKept, Stored
<1> QED BY <1>1, <1>2, <1>3, <1>4, <1>5 DEF StoreNext

\* SeedProgress is inductive relative to StoreKept.
LEMMA SeedProgressInductive ==
    ASSUME StoreKept, [StoreNext]_storeVars
    PROVE  SeedProgress'
<1> USE PlainRecords, SeedsAre
<1>t. /\ profile \in [Profiles -> Domains \cup {"none", "gone"}]
      /\ format \in [Formats -> Domains \cup {"none", "gone"}]
      /\ binding \in [Domains -> Profiles \cup {NoProfile}]
      /\ boot \in Boot /\ boot.n \in 1..(Len(Seeds) + 1)
  BY DEF StoreKept, StoreTyped, Boot
<1>n. boot.n \in DOMAIN Seeds =>
        Now \in Domains /\ Presets[Now] \in Profiles /\ Repack[Now] \in Formats
  BY DEF Now
<1>s. \A k \in 1..(boot.n - 1) : k \in DOMAIN Seeds
  BY <1>t
<1>1. CASE Start
  BY <1>1 DEF Start, SeedProgress
<1>2. CASE GetPreset
  <2>1. /\ boot.pc = "preset" /\ boot.n \in DOMAIN Seeds /\ UNCHANGED tables
        /\ \A k \in 1..(boot.n - 1) : Stored(profile, Presets[Seeds[k]])
    BY <1>2 DEF GetPreset, Seeding, StoreKept, SeedProgress
  <2>2. CASE Stored(profile, Presets[Now]) /\ NextPreset
    <3>1. boot'.pc = "preset" /\ boot'.n = boot.n + 1
      BY <1>t, <2>1, <2>2, Reseats
    <3>2. \A k \in 1..boot.n : Stored(profile, Presets[Seeds[k]])
      BY <1>t, <2>1, <2>2 DEF Now
    <3> QED BY <1>t, <2>1, <3>1, <3>2 DEF SeedProgress, tables, Stored
  <2>3. CASE ~Stored(profile, Presets[Now]) /\ To("format")
    <3>1. boot'.pc = "format" /\ boot'.n = boot.n
      BY <1>t, <2>3, Reseats
    <3> QED BY <2>1, <2>3, <3>1 DEF SeedProgress, tables, Stored, Now
  <2> QED BY <1>2, <2>2, <2>3 DEF GetPreset, AlreadyPresent
<1>3. CASE SeedCustomFormat
  <2>1. /\ boot.pc = "format" /\ boot.n \in DOMAIN Seeds /\ profile' = profile
        /\ boot'.pc = "row" /\ boot'.n = boot.n /\ ~Stored(profile, Presets[Now])
        /\ \A k \in 1..(boot.n - 1) : Stored(profile, Presets[Seeds[k]])
    BY <1>3, <1>t, Reseats DEF SeedCustomFormat, Seeding, StoreKept, SeedProgress
  <2>2. Stored(format', Repack[Now])
    BY <1>3, <1>t, <1>n, <2>1 DEF SeedCustomFormat, Stored
  <2> QED BY <2>1, <2>2 DEF SeedProgress, Stored, Now
<1>4. CASE SeedQualityProfile
  <2>1. /\ boot.pc = "row" /\ boot.n \in DOMAIN Seeds /\ format' = format
        /\ boot'.pc = "assign" /\ boot'.n = boot.n /\ ~Stored(profile, Presets[Now])
        /\ Stored(format, Repack[Now])
        /\ \A k \in 1..(boot.n - 1) : Stored(profile, Presets[Seeds[k]])
    BY <1>4, <1>t, Reseats DEF SeedQualityProfile, Seeding, StoreKept, SeedProgress
  <2>2. /\ Stored(profile', Presets[Now]) /\ Presets[Now] \in fresh'
        /\ \A p \in Profiles : Stored(profile, p) => Stored(profile', p)
    BY <1>4, <1>t, <1>n, <2>1 DEF SeedQualityProfile, Stored
  <2>3. \A k \in 1..(boot.n - 1) : Presets[Seeds[k]] \in Profiles
    BY <1>s
  <2> QED BY <2>1, <2>2, <2>3 DEF SeedProgress, Stored, Now
<1>5. CASE SeedFormats
  <2>1. /\ boot.n \in DOMAIN Seeds /\ profile' = profile
        /\ boot'.pc = "preset" /\ boot'.n = boot.n + 1
        /\ Stored(profile, Presets[Now])
        /\ \A k \in 1..(boot.n - 1) : Stored(profile, Presets[Seeds[k]])
    BY <1>5 DEF SeedFormats, Seeding, StoreKept, SeedProgress
  <2>2. \A k \in 1..boot.n : Stored(profile, Presets[Seeds[k]])
    BY <1>t, <2>1 DEF Now
  <2> QED BY <1>t, <2>1, <2>2 DEF SeedProgress, Stored
<1>6. CASE PresetsDone
  <2>1. /\ boot.n \notin DOMAIN Seeds /\ profile' = profile /\ boot'.pc = "bind" /\ boot'.n = 1
        /\ \A k \in 1..(boot.n - 1) : Stored(profile, Presets[Seeds[k]])
    BY <1>6 DEF PresetsDone, tables, StoreKept, SeedProgress
  <2>2. \A n \in DOMAIN Seeds : n \in 1..(boot.n - 1)
    BY <1>t, <2>1
  <2>3. \A d \in Domains : Stored(profile, Presets[d])
    BY <2>1, <2>2
  <2> QED BY <2>1, <2>3 DEF SeedProgress, Stored
<1>7. CASE SeedBinding
  <2>1. /\ boot.n \in DOMAIN Seeds /\ profile' = profile /\ boot'.pc = "bind" /\ boot'.n = boot.n + 1
        /\ \A d \in Domains : Stored(profile, Presets[d])
        /\ \A k \in 1..(boot.n - 1) : binding[Seeds[k]] # NoProfile
    BY <1>7, <1>t, Reseats DEF SeedBinding, Seeding, StoreKept, SeedProgress
  <2>2. \A d \in Domains : /\ binding[d] # NoProfile => binding'[d] # NoProfile
                           /\ d = Now => binding'[d] # NoProfile
    BY <1>7, <1>t, <1>n, <2>1, ProfileStoreAssumption DEF SeedBinding, NotBound
  <2>3. \A k \in 1..boot.n : binding'[Seeds[k]] # NoProfile
    BY <1>t, <1>s, <2>1, <2>2 DEF Now
  <2> QED BY <1>t, <2>1, <2>3 DEF SeedProgress, Stored
<1>8. CASE Listen \/ SeedFails \/ Stop
  BY <1>8 DEF Listen, SeedFails, Stop, SeedProgress
<1>9. CASE Maintain \/ ResolveTier
  BY <1>9, MaintainsUp, ResolvesUp DEF StoreKept, SeedProgress
<1>10. CASE UNCHANGED storeVars
  BY <1>10 DEF storeVars, StoreKept, SeedProgress, Stored, Now
<1> QED
  BY <1>1, <1>2, <1>3, <1>4, <1>5, <1>6, <1>7, <1>8, <1>9, <1>10 DEF StoreNext, SeedDefaults

\* ResolveKept is inductive relative to StoreKept.
LEMMA ResolveKeptInductive ==
    ASSUME StoreKept, ResolveKept, [StoreNext]_storeVars
    PROVE  ResolveKept'
<1> USE PlainRecords
<1>t. /\ profile \in [Profiles -> Domains \cup {"none", "gone"}]
      /\ assigned \in [Profiles -> SUBSET Formats]
      /\ format \in [Formats -> Domains \cup {"none", "gone"}]
      /\ binding \in [Domains -> Profiles \cup {NoProfile}]
      /\ resolve \in Resolution /\ resolve.todo \in SUBSET Formats
  BY DEF StoreKept, StoreTyped, Resolution
<1>e. EditsKept /\ TablesKept
  BY DEF StoreKept
<1>1. CASE SeedDefaults
  <2>1. resolve = NoResolve /\ resolve' = resolve
    BY <1>1, <1>e, SeedingQuiet DEF EditsKept
  <2> QED BY <2>1 DEF ResolveKept
<1>2. CASE Stop
  BY <1>2 DEF Stop, ResolveKept
\* A request that deletes nothing.
<1>a. ASSUME UNCHANGED <<resolve, shaken, disturbed>>,
             \A p \in Profiles : Stored(profile, p) => Stored(profile', p),
             \A f \in Formats : Stored(format, f) => Stored(format', f)
      PROVE  ResolveKept'
  BY <1>a, <1>t DEF ResolveKept, Stored
<1>3. CASE Maintain
  <2>1. ASSUME NEW h \in Editors, NEW p \in Profiles, NEW d \in Domains,
               NEW formats \in SUBSET Formats, WriteProfile(h, p, d, formats)
        PROVE  ResolveKept'
    BY <2>1, <1>a DEF WriteProfile, tables, Stored
  <2>2. ASSUME NEW h \in Editors, WriteProfileRow(h)
        PROVE  ResolveKept'
    <3>1. edit[h].id \in Profiles /\ edit[h].domain \in Domains
      BY <2>2, <1>e DEF WriteProfileRow, EditsKept
    <3> QED BY <2>2, <1>a, <1>t, <3>1 DEF WriteProfileRow, Stored
  <2>3. ASSUME NEW h \in Editors, SetProfileFormats(h)
        PROVE  ResolveKept'
    BY <2>3, <1>a DEF SetProfileFormats, Stored
  <2>4. ASSUME NEW p \in Profiles, DeleteProfile(p)
        PROVE  ResolveKept'
    BY <2>4 DEF DeleteProfile, ResolveKept, Stored
  <2>5. ASSUME NEW f \in Formats, NEW d \in Domains, WriteCustomFormat(f, d)
        PROVE  ResolveKept'
    BY <2>5, <1>a, <1>t DEF WriteCustomFormat, Stored
  <2>6. ASSUME NEW f \in Formats, DeleteCustomFormat(f)
        PROVE  ResolveKept'
    BY <2>6 DEF DeleteCustomFormat, ResolveKept, Stored
  <2>7. ASSUME NEW d \in Domains, NEW p \in Profiles, BindTier(d, p)
        PROVE  ResolveKept'
    BY <2>7, <1>a DEF BindTier, Stored
  <2> QED BY <1>3, <2>1, <2>2, <2>3, <2>4, <2>5, <2>6, <2>7 DEF Maintain
<1>4. CASE ResolveTier
  <2>u. boot.pc = "up" /\ UNCHANGED <<profile, assigned, format, binding, shaken>>
    BY <1>4, <1>e, ResolvesUp DEF tables
  <2>1. ASSUME NEW d \in Domains, ResolveByTier(d)
        PROVE  ResolveKept'
    <3> DEFINE r == [pc |-> IF binding[d] = NoProfile THEN "failed" ELSE "profile",
                     id |-> binding[d], todo |-> {}]
    <3>1. resolve' = r /\ disturbed' = disturbed
      BY <2>1 DEF ResolveByTier
    <3>2. CASE binding[d] = NoProfile
      BY <1>e, <2>u, <3>1, <3>2 DEF TablesKept, ResolveKept
    <3>3. CASE binding[d] # NoProfile
      BY <1>t, <1>e, <2>u, <3>1, <3>3 DEF TablesKept, ResolveKept, Stored
    <3> QED BY <3>2, <3>3
  <2>2. CASE GetQualityProfile
    <3>1. resolve'.id = resolve.id /\ resolve'.pc = IF Stored(profile, resolve.id) THEN "list" ELSE "failed"
      BY <2>2, <1>t DEF GetQualityProfile, Reads, Resolution
    <3> QED BY <2>2, <2>u, <3>1 DEF GetQualityProfile, ResolveKept
  <2>3. CASE ListProfileFormats
    <3>1. resolve'.id = resolve.id /\ resolve'.pc = "formats" /\ resolve'.todo = assigned[resolve.id]
      BY <2>3, <1>t DEF ListProfileFormats, Resolution
    <3> QED BY <2>3, <1>e, <2>u, <3>1 DEF ListProfileFormats, ResolveKept, TablesKept, Stored
  <2>4. ASSUME NEW f \in Formats, GetCustomFormat(f)
        PROVE  ResolveKept'
    <3>1. /\ resolve.pc = "formats" /\ f \in resolve.todo /\ disturbed' = disturbed
          /\ resolve'.id = resolve.id
          /\ IF Stored(format, f) THEN resolve'.pc = "formats" /\ resolve'.todo = resolve.todo \ {f}
             ELSE resolve'.pc = "failed"
      BY <2>4, <1>t DEF GetCustomFormat, Resolution
    <3> QED BY <2>u, <3>1 DEF ResolveKept, Stored
  <2>5. CASE Resolved
    BY <2>5 DEF Resolved, ResolveKept
  <2> QED BY <1>4, <2>1, <2>2, <2>3, <2>4, <2>5 DEF ResolveTier
<1>5. CASE UNCHANGED storeVars
  BY <1>5 DEF storeVars, ResolveKept, Stored
<1> QED BY <1>1, <1>2, <1>3, <1>4, <1>5 DEF StoreNext

\* What a start finds, it leaves.
LEMMA SeedingKeepsFound ==
    ASSUME StoreKept, [StoreNext]_storeVars, boot.pc # "up"
    PROVE  /\ \A p \in Profiles : Stored(profile, p) =>
                 /\ profile'[p] = profile[p]
                 /\ p \notin fresh => assigned'[p] = assigned[p]
           /\ \A d \in Domains : binding[d] # NoProfile => binding'[d] = binding[d]
<1>t. /\ profile \in [Profiles -> Domains \cup {"none", "gone"}]
      /\ assigned \in [Profiles -> SUBSET Formats]
      /\ binding \in [Domains -> Profiles \cup {NoProfile}]
  BY DEF StoreKept, StoreTyped
<1>1. CASE SeedQualityProfile
  BY <1>1, <1>t DEF SeedQualityProfile
<1>2. CASE SeedFormats
  BY <1>2, <1>t DEF SeedFormats, Seeding, StoreKept, SeedProgress
<1>3. CASE SeedBinding
  BY <1>3, <1>t DEF SeedBinding, NotBound
<1>4. CASE UNCHANGED <<profile, assigned, binding>>
  BY <1>4
<1>5. CASE Maintain \/ ResolveTier
  BY <1>5, MaintainsUp, ResolvesUp DEF StoreKept
<1> QED
  BY <1>1, <1>2, <1>3, <1>4, <1>5
  DEF StoreNext, SeedDefaults, Start, GetPreset, SeedCustomFormat, PresetsDone, Listen, SeedFails,
      Stop, tables, storeVars

-----------------------------------------------------------------------------
\* The invariants of the quality profiles hold at first.
LEMMA StoreStart ==
    ASSUME StoreInit
    PROVE  StoreKept /\ ResolveKept
<1> USE PlainRecords
<1>1. StoreTyped
  <2>1. boot \in Boot /\ 0 \in 0..MaxEdits
    BY Boots, ProfileStoreAssumption DEF StoreInit
  <2> QED BY <2>1 DEF StoreInit, StoreTyped, Boot
<1>2. EditsKept /\ TablesKept /\ SeedProgress /\ ResolveKept
  BY DEF StoreInit, EditsKept, TablesKept, SeedProgress, ResolveKept
<1> QED BY <1>1, <1>2 DEF StoreKept

\* The inductive invariants of the quality profiles hold in every state.
THEOREM StoreHolds == StoreSpec => [](StoreKept /\ ResolveKept)
<1>1. StoreInit => StoreKept /\ ResolveKept
  BY StoreStart
<1>2. StoreKept /\ ResolveKept /\ [StoreNext]_storeVars => (StoreKept /\ ResolveKept)'
  <2> SUFFICES ASSUME StoreKept, ResolveKept, [StoreNext]_storeVars
               PROVE  (StoreKept /\ ResolveKept)'
    OBVIOUS
  <2>1. StoreTyped' /\ EditsKept'
    BY StoreTypedInductive, EditsKeptInductive DEF StoreKept
  <2> QED
    BY <2>1, TablesKeptInductive, SeedProgressInductive, ResolveKeptInductive DEF StoreKept
<1> QED BY <1>1, <1>2, PTL DEF StoreSpec

\* TierResolves: a tier resolves wherever an earlier start was cut short, unless a
\* profile was deleted or the seeding failed since this start
\* (QualityProfileService.SeedDefaults, ResolveByTier).
THEOREM TiersResolve == StoreSpec => []TierResolves
<1>1. ResolveKept => TierResolves
  BY DEF ResolveKept, TierResolves
<1> QED BY <1>1, StoreHolds, PTL

\* SeedingKeeps: a start leaves the profiles, formats and bindings that it finds
\* as they are (QualityProfileService.SeedDefaults).
THEOREM SeedingIsGentle == StoreSpec => SeedingKeeps
<1>1. StoreKept /\ [StoreNext]_storeVars =>
        [boot.pc # "up" =>
           /\ \A p \in Profiles : Stored(profile, p) =>
                 /\ profile'[p] = profile[p]
                 /\ p \notin fresh => assigned'[p] = assigned[p]
           /\ \A d \in Domains : binding[d] # NoProfile => binding'[d] = binding[d]]_storeVars
  BY SeedingKeepsFound
<1> QED BY <1>1, StoreHolds, PTL DEF StoreSpec, SeedingKeeps

-----------------------------------------------------------------------------
(***************************************************************************)
(* One component works while the others have not begun: to each of them,   *)
(* a step of another is a stutter.                                         *)
(***************************************************************************)
\* A behaviour of the administration is one of the sessions, of the accounts,
\* of the settings and of the quality profiles.
THEOREM EachComponentRuns ==
    AdministrationSpec => Spec /\ AccountsSpec /\ SettingsSpec /\ StoreSpec
<1>1. AdministrationInit => Init /\ AccountsInit /\ SettingsInit /\ StoreInit
  BY DEF AdministrationInit
<1>2. [AdministrationNext]_administrationVars =>
        /\ [Next]_vars /\ [AccountsNext]_accountVars
        /\ [SettingsNext]_settingsVars /\ [StoreNext]_storeVars
  BY DEF AdministrationNext, administrationVars
<1> QED BY <1>1, <1>2, PTL DEF AdministrationSpec, Spec, AccountsSpec, SettingsSpec, StoreSpec

\* Whatever the administration does, an admin remains, the cached grants and
\* the clients of the downloaders are current, a default stands, a tier
\* resolves, and a start keeps what it finds: AdminRemains, GrantsCurrent,
\* DefaultStands, ClientCurrent, TierResolves and SeedingKeeps.
THEOREM AdministrationHolds ==
    AdministrationSpec =>
        /\ [](AdminRemains /\ GrantsCurrent /\ DefaultStands /\ ClientCurrent /\ TierResolves)
        /\ SeedingKeeps
BY EachComponentRuns, AnAdminRemains, CachedGrantsCurrent, ADefaultStands, ClientsCurrent,
   TiersResolve, SeedingIsGentle, PTL
=============================================================================
