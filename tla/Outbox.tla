------------------------------- MODULE Outbox -------------------------------
(***************************************************************************)
(* The notification outbox (service/notification.go, repo/notification.go, *)
(* jobs/notification/worker.go and the channel adapters): a table of rows, *)
(* one per recipient and channel, which producers fill and delivery        *)
(* workers drain, with retries, a reaper for rows a crash left behind, and *)
(* a place to park mail until an SMTP relay is configured.                 *)
(*                                                                         *)
(* One event is notified.  Time passes as it needs to: a backoff is over   *)
(* by the next pass, a parked row is recent enough to be requeued, and a   *)
(* claim goes stale only when the worker that made it has gone, since a    *)
(* delivery takes seconds and the reaper waits five minutes.               *)
(***************************************************************************)
EXTENDS Naturals, FiniteSets

CONSTANTS
    Users,          \* the requesters of the want that became available
    Invites,        \* transactional mails, to people without an account
    Device,         \* the browsers a user may register for push
    Workers,
    NoRow,
    MaxAttempts,    \* worker.maxAttempts
    MaxFaults       \* restarts and failed writes

Channels == {"in_app", "email", "push"}
Rank == [in_app |-> 1, email |-> 2, push |-> 3]     \* the order rows are inserted
UserRows == Users \X Channels
Rows == UserRows \cup Invites
Channel(r) == IF r \in UserRows THEN r[2] ELSE "email"
Devices == UNION {Device[u] : u \in Users}
Mailbox == "mailbox"

ASSUME OutboxAssumption ==
    /\ DOMAIN Device = Users
    /\ Invites \cap UserRows = {}
    /\ NoRow \notin Rows /\ Mailbox \notin Devices
    /\ MaxAttempts \in Nat \ {0} /\ MaxFaults \in Nat

VARIABLES
    outbox,      \* notification_outbox
    configured,  \* email_provider: a row exists and is enabled
    saver,       \* the handler that saves the provider
    subs,        \* push_subscription, of devices that registered before
    producer,    \* NotifyWantAvailable: who is left, and their channels
    worker,      \* what each worker is doing
    accepted,    \* how often an address accepted a row (what went out)
    faults

vars == <<outbox, configured, saver, subs, producer, worker,
          accepted, faults>>

Statuses == {"absent", "queued", "delivering", "delivered", "dead", "awaiting_config"}
Row == [status : Statuses, attempts : 0..(MaxAttempts + MaxFaults)]
Absent == [status |-> "absent", attempts |-> 0]

Results == {"ok", "gone", "retryable", "permanent"}
Steps == {"idle", "list", "handle", "park", "claim", "send"}
IdleWorker == [pc |-> "idle", batch |-> {}, row |-> NoRow, todo |-> {}, got |-> {}]
Handling(batch) == [pc |-> "handle", batch |-> batch, row |-> NoRow, todo |-> {}, got |-> {}]
IdleProducer == [users |-> {}, user |-> "none", todo |-> {}]

TypeOK ==
    /\ outbox \in [Rows -> Row]
    /\ configured \in BOOLEAN
    /\ saver \in {"idle", "requeue"}
    /\ subs \subseteq Devices
    /\ producer \in [users : SUBSET Users, user : Users \cup {"none"},
                     todo : SUBSET Channels]
    /\ worker \in [Workers -> [pc : Steps, batch : SUBSET Rows, row : Rows \cup {NoRow},
                               todo : SUBSET (Devices \cup {Mailbox}),
                               got : SUBSET Results]]
    /\ accepted \in [Rows -> [Devices \cup {Mailbox} -> Nat]]
    /\ faults \in 0..MaxFaults

Fault == faults < MaxFaults /\ faults' = faults + 1

-----------------------------------------------------------------------------
(***************************************************************************)
(* NotifyWantAvailable and Enqueue.  Preferences are read once per user,   *)
(* so they are whatever they are then: unsubscribed, or the bell and any   *)
(* of the other channels.                                                  *)
(***************************************************************************)
NotifyWantAvailable ==
    /\ producer = IdleProducer
    /\ \A r \in UserRows : outbox[r].status = "absent"
    /\ producer' = [producer EXCEPT !.users = Users]
    /\ UNCHANGED <<outbox, configured, saver, subs, worker, accepted, faults>>

Enqueue(u) ==
    /\ producer.todo = {} /\ u \in producer.users
    /\ \E todo \in {{}} \cup {{"in_app"} \cup out : out \in SUBSET {"push", "email"}} :
        producer' = [users |-> producer.users \ {u}, user |-> u, todo |-> todo]
    /\ UNCHANGED <<outbox, configured, saver, subs, worker, accepted, faults>>

\* The bell comes first; each row is committed on its own.
InsertRow(c) ==
    /\ c \in producer.todo
    /\ \A d \in producer.todo : Rank[c] <= Rank[d]
    /\ outbox' = [outbox EXCEPT ![<<producer.user, c>>].status = "queued"]
    /\ producer' = [producer EXCEPT !.todo = @ \ {c}]
    /\ UNCHANGED <<configured, saver, subs, worker, accepted, faults>>

\* An insert that fails gives up the other channels and the other users.
InsertFails ==
    /\ producer.todo # {}
    /\ Fault
    /\ producer' = [IdleProducer EXCEPT !.user = producer.user]
    /\ UNCHANGED <<outbox, configured, saver, subs, worker, accepted>>

\* Only with a relay configured; without one the caller shows the link.
EnqueueTransactionalEmail(i) ==
    /\ configured /\ outbox[i].status = "absent"
    /\ outbox' = [outbox EXCEPT ![i].status = "queued"]
    /\ UNCHANGED <<configured, saver, subs, producer, worker, accepted, faults>>

-----------------------------------------------------------------------------
(***************************************************************************)
(* The operator saves the email provider.                                  *)
(***************************************************************************)
SaveProvider(enabled) ==
    /\ saver = "idle"
    /\ configured' = enabled
    /\ saver' = IF enabled THEN "requeue" ELSE "idle"
    /\ UNCHANGED <<outbox, subs, producer, worker, accepted, faults>>

RequeueAwaitingConfig ==
    /\ saver = "requeue"
    /\ outbox' = [r \in Rows |-> IF outbox[r].status = "awaiting_config"
                                 THEN [outbox[r] EXCEPT !.status = "queued"]
                                 ELSE outbox[r]]
    /\ saver' = "idle"
    /\ UNCHANGED <<configured, subs, producer, worker, accepted, faults>>

RequeueFails ==
    /\ saver = "requeue"
    /\ Fault
    /\ saver' = "idle"
    /\ UNCHANGED <<outbox, configured, subs, producer, worker, accepted>>

-----------------------------------------------------------------------------
(***************************************************************************)
(* The delivery worker: one pass of Drain.                                 *)
(***************************************************************************)
Step(w, pc) == worker' = [worker EXCEPT ![w].pc = pc]

\* On with the batch, or done with the pass.
NextRow(w) ==
    LET rest == worker[w].batch \ {worker[w].row} IN
    worker' = [worker EXCEPT ![w] =
                  IF rest = {} THEN IdleWorker ELSE Handling(rest)]

Delivering(w, r) == worker[w].pc = "send" /\ worker[w].row = r
Stale(r) == outbox[r].status = "delivering" /\ \A w \in Workers : ~Delivering(w, r)

\* Bug: a row a crash left behind stays there.
ReclaimNothing(w) ==
    /\ worker[w].pc = "idle"
    /\ Step(w, "list")
    /\ UNCHANGED <<outbox, configured, saver, subs, producer, accepted, faults>>

ReclaimStaleDelivering(w) ==
    /\ worker[w].pc = "idle"
    /\ outbox' = [r \in Rows |->
                     IF Stale(r)
                     THEN [status |-> "queued", attempts |-> outbox[r].attempts + 1]
                     ELSE outbox[r]]
    /\ Step(w, "list")
    /\ UNCHANGED <<configured, saver, subs, producer, accepted, faults>>

Due == {r \in Rows : outbox[r].status = "queued"}

ListDueOutbox(w) ==
    /\ worker[w].pc = "list"
    /\ worker' = [worker EXCEPT ![w] = IF Due = {} THEN IdleWorker ELSE Handling(Due)]
    /\ UNCHANGED <<outbox, configured, saver, subs, producer, accepted, faults>>

IsConfigured(r) == Channel(r) = "email" => configured

\* The batch is ordered by created_at.
Oldest(batch) ==
    {r \in batch : \A s \in batch : r \in UserRows /\ s \in UserRows /\ r[1] = s[1]
                                       => Rank[r[2]] <= Rank[s[2]]}

\* The start of handle: whether the channel is configured is read here and
\* acted upon in the next statement.  A mail that is not optional does not
\* park; an unconfigured relay fails it like any error of the relay.
Handle(w, r) ==
    /\ worker[w].pc = "handle" /\ r \in Oldest(worker[w].batch)
    /\ worker' = [worker EXCEPT ![w].row = r,
                     ![w].pc = IF IsConfigured(r) \/ r \in Invites THEN "claim" ELSE "park",
                     ![w].got = IF IsConfigured(r) THEN {} ELSE {"retryable"}]
    /\ UNCHANGED <<outbox, configured, saver, subs, producer, accepted, faults>>

MarkOutboxAwaitingConfig(w) ==
    LET r == worker[w].row IN
    /\ worker[w].pc = "park"
    /\ outbox' = IF outbox[r].status = "queued"
                 THEN [outbox EXCEPT ![r].status = "awaiting_config"] ELSE outbox
    /\ NextRow(w)
    /\ UNCHANGED <<configured, saver, subs, producer, accepted, faults>>

\* Whom an adapter sends a row to: a mailbox, the devices of the user, or
\* nobody, since an in-app row is its own delivery.
Addresses(r) ==
    CASE Channel(r) = "in_app" -> {}
      [] Channel(r) = "push"   -> Device[r[1]] \cap subs
      [] Channel(r) = "email"  -> {Mailbox}

StartDelivery(w, r) ==
    worker' = [worker EXCEPT ![w].pc = "send",
                  ![w].todo = IF worker[w].got = {} THEN Addresses(r) ELSE {}]

MarkOutboxDelivering(w) ==
    LET r == worker[w].row IN
    /\ worker[w].pc = "claim"
    /\ IF outbox[r].status = "queued"
       THEN /\ outbox' = [outbox EXCEPT ![r].status = "delivering"]
            /\ StartDelivery(w, r)
       ELSE NextRow(w) /\ UNCHANGED outbox
    /\ UNCHANGED <<configured, saver, subs, producer, accepted, faults>>

\* One call to a push service or the relay.  A subscription that is gone is
\* pruned.
Send(w, a, result) ==
    LET r == worker[w].row IN
    /\ worker[w].pc = "send" /\ a \in worker[w].todo
    /\ result = "gone" => a \in Devices
    /\ worker' = [worker EXCEPT ![w].todo = @ \ {a}, ![w].got = @ \cup {result}]
    /\ accepted' = IF result = "ok" THEN [accepted EXCEPT ![r][a] = @ + 1] ELSE accepted
    /\ subs' = IF result = "gone" THEN subs \ {a} ELSE subs
    /\ UNCHANGED <<outbox, configured, saver, producer, faults>>

-----------------------------------------------------------------------------
(***************************************************************************)
(* What becomes of the row: PushAdapter's rollup, retryOrKill and the      *)
(* statements they run, none of which looks at the status.                 *)
(***************************************************************************)
\* Bug: a sibling that failed has the whole row sent again.
RetryFirst(got) ==
    IF "retryable" \in got THEN "retryable"
    ELSE IF "ok" \in got THEN "ok"
    ELSE IF "permanent" \in got THEN "permanent" ELSE "ok"

Rollup(got) ==
    IF "ok" \in got THEN "ok"
    ELSE IF "retryable" \in got THEN "retryable"
    ELSE IF "permanent" \in got THEN "permanent" ELSE "ok"

Spent(attempts) == attempts + 1 >= MaxAttempts

Delivered(row) == [row EXCEPT !.status = "delivered"]
Dead(row) == [row EXCEPT !.status = "dead", !.attempts = @ + 1]
Rescheduled(row) == [row EXCEPT !.status = "queued", !.attempts = @ + 1]

\* Bug: whatever the adapter said, the row is delivered.
SettledAlways(row, result) == Delivered(row)

Settled(row, result) ==
    IF result = "ok" THEN Delivered(row)
    ELSE IF result = "permanent" \/ Spent(row.attempts) THEN Dead(row)
    ELSE Rescheduled(row)

Settle(w) ==
    LET r == worker[w].row IN
    /\ worker[w].pc = "send" /\ worker[w].todo = {}
    /\ outbox' = [outbox EXCEPT ![r] = Settled(@, Rollup(worker[w].got))]
    /\ NextRow(w)
    /\ UNCHANGED <<configured, saver, subs, producer, accepted, faults>>

\* The write fails: the row stays 'delivering' until the reaper comes.
SettleFails(w) ==
    /\ worker[w].pc = "send" /\ worker[w].todo = {}
    /\ Fault
    /\ NextRow(w)
    /\ UNCHANGED <<outbox, configured, saver, subs, producer, accepted>>

Crash ==
    /\ Fault
    /\ worker' = [w \in Workers |-> IdleWorker]
    /\ producer' = [IdleProducer EXCEPT !.user = producer.user]
    /\ saver' = "idle"
    /\ UNCHANGED <<outbox, configured, subs, accepted>>

-----------------------------------------------------------------------------
Init ==
    /\ outbox = [r \in Rows |-> Absent]
    /\ configured \in BOOLEAN
    /\ saver = "idle"
    /\ subs = Devices
    /\ producer = IdleProducer
    /\ worker = [w \in Workers |-> IdleWorker]
    /\ accepted = [r \in Rows |-> [a \in Devices \cup {Mailbox} |-> 0]]
    /\ faults = 0

Work(w) ==
    \/ ReclaimStaleDelivering(w) \/ ListDueOutbox(w)
    \/ \E r \in worker[w].batch : Handle(w, r)
    \/ MarkOutboxAwaitingConfig(w) \/ MarkOutboxDelivering(w)
    \/ \E a \in worker[w].todo, result \in Results : Send(w, a, result)
    \/ Settle(w)

Produce ==
    \/ \E u \in Users : Enqueue(u)
    \/ \E c \in Channels : InsertRow(c)

Next ==
    \/ \E w \in Workers : Work(w) \/ SettleFails(w)
    \/ Produce \/ NotifyWantAvailable \/ InsertFails
    \/ \E i \in Invites : EnqueueTransactionalEmail(i)
    \/ \E enabled \in BOOLEAN : SaveProvider(enabled)
    \/ RequeueAwaitingConfig \/ RequeueFails
    \/ Crash

Spec == Init /\ [][Next]_vars

\* The worker polls on a ticker and finishes its pass.
Fairness == \A w \in Workers : WF_vars(Work(w))

FairSpec == Spec /\ Fairness

-----------------------------------------------------------------------------
(***************************************************************************)
(* Properties.                                                             *)
(***************************************************************************)
\* The outbox delivers at least once, and is silent about a row it has
\* reported delivered or dead, though none of the statements that settle a
\* row looks at its status.
State(r) ==
    CASE outbox[r].status = "absent"    -> "none"
      [] outbox[r].status = "delivered" -> "done"
      [] outbox[r].status = "dead"      -> "lost"
      [] OTHER                          -> "pending"
Promise == INSTANCE AtLeastOnce WITH
    Messages <- Rows, Addressed <- {r \in Rows : Channel(r) = "email"},
    state <- [r \in Rows |-> State(r)],
    accepted <- {r \in Rows : \E a \in DOMAIN accepted[r] : accepted[r][a] > 0}
PromiseSpec == Promise!AloSpec

\* No address gets a notification twice but for a restart or a write that
\* failed: not by a retry for the sake of another device, not by two workers.
SentOncePerFault ==
    \A r \in Rows : \A a \in DOMAIN accepted[r] : accepted[r][a] <= 1 + faults

\* No two workers deliver the same row.
OneDelivery ==
    \A v, w \in Workers : \A r \in Rows :
        Delivering(v, r) /\ Delivering(w, r) => v = w

\* Whoever gets a push or a mail also gets the entry in the bell.
BellFirst ==
    \A u \in Users : \A c \in Channels :
        outbox[<<u, c>>].status # "absent" => outbox[<<u, "in_app">>].status # "absent"

\* A row whose errors might pass is given up only when its attempts are spent.
KilledWhenSpent ==
    [][\A w \in Workers : worker[w].pc = "send" =>
          LET r == worker[w].row IN
          outbox[r].status # "dead" /\ outbox'[r].status = "dead"
              => "permanent" \in worker[w].got \/ outbox'[r].attempts >= MaxAttempts]_vars

\* A row that is due does not stay in the queue, nor in the hands of a worker
\* that died: it is delivered, given up, or parked.
Settles ==
    \A r \in Rows : outbox[r].status \in {"queued", "delivering"}
        ~> outbox[r].status \in {"delivered", "dead", "awaiting_config"}
=============================================================================
