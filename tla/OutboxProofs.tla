---------------------------- MODULE OutboxProofs ----------------------------
(***************************************************************************)
(* Theorems about Outbox, for any number of recipients, devices, workers,  *)
(* attempts and faults.                                                    *)
(*                                                                         *)
(* The statements that settle a row do not look at its status.  What makes *)
(* them right is that a row in a worker's hands is 'delivering' and in no  *)
(* other worker's (Working, OneDelivery), which the claim's guard and the  *)
(* reaper's five minutes give; the counts rest on it (Counted, Budget).    *)
(***************************************************************************)
EXTENDS Outbox, TLAPS

RowType == [status : Statuses, attempts : Nat]
WorkerType == [pc : Steps, batch : SUBSET Rows, row : Rows \cup {NoRow},
               todo : SUBSET (Devices \cup {Mailbox}), got : SUBSET Results]
ProducerType == [users : SUBSET Users, user : Users \cup {"none"}, todo : SUBSET Channels]

Types ==
    /\ outbox \in [Rows -> RowType]
    /\ configured \in BOOLEAN
    /\ saver \in {"idle", "requeue"}
    /\ subs \subseteq Devices
    /\ producer \in ProducerType
    /\ worker \in [Workers -> WorkerType]
    /\ accepted \in [Rows -> [Devices \cup {Mailbox} -> Nat]]
    /\ faults \in 0..MaxFaults

\* What a worker has in its hands.
Mailing(w) ==
    Channel(worker[w].row) = "email" =>
        /\ worker[w].todo \subseteq {Mailbox} /\ "gone" \notin worker[w].got
        /\ worker[w].todo = {} => worker[w].got # {}
Working ==
    \A w \in Workers :
        /\ worker[w].pc \in {"park", "claim", "send"} => worker[w].row \in Rows
        /\ worker[w].pc = "claim" => worker[w].got \in {{}, {"retryable"}}
        /\ worker[w].pc = "send" =>
              /\ outbox[worker[w].row].status = "delivering"
              /\ Mailing(w)
              /\ "ok" \in worker[w].got =>
                    \E a \in Devices \cup {Mailbox} : accepted[worker[w].row][a] > 0

\* The rows a producer has still to insert are not there.
Producing ==
    /\ \A u \in producer.users, c \in Channels : outbox[<<u, c>>].status = "absent"
    /\ producer.todo # {} => producer.user \in Users \ producer.users
    /\ \A c \in producer.todo : outbox[<<producer.user, c>>].status = "absent"
    /\ producer.todo # {} /\ "in_app" \notin producer.todo =>
          outbox[<<producer.user, "in_app">>].status # "absent"

\* An address has one copy more than there were faults only while the row is
\* on its way to delivered.
OnItsWay(r, a) ==
    \/ outbox[r].status = "delivered"
    \/ \E w \in Workers : /\ Delivering(w, r)
                          /\ "ok" \in worker[w].got /\ a \notin worker[w].todo
Counted ==
    \A r \in Rows, a \in Devices \cup {Mailbox} :
        /\ accepted[r][a] <= 1 + faults
        /\ accepted[r][a] > faults => OnItsWay(r, a)

\* Every attempt beyond the budget is the reaper's, of a row a fault left.
Budget ==
    \A r \in Rows :
        /\ outbox[r].attempts <= MaxAttempts + faults
        /\ outbox[r].status # "dead" => outbox[r].attempts < MaxAttempts + faults
        /\ Stale(r) => outbox[r].attempts + 1 < MaxAttempts + faults

IInv == Types /\ Working /\ OneDelivery /\ Producing /\ BellFirst /\ Counted /\ Budget

-----------------------------------------------------------------------------
LEMMA Shapes ==
    /\ \A u \in Users, c \in Channels : <<u, c>> \in UserRows /\ <<u, c>> \in Rows
    /\ \A r \in Invites : r \in Rows /\ Channel(r) = "email"
    /\ \A r \in Rows \ Invites : r \in UserRows
    /\ \A r \in UserRows : r[1] \in Users /\ r[2] \in Channels /\ r = <<r[1], r[2]>> /\ Channel(r) = r[2]
    /\ "in_app" \in Channels /\ MaxAttempts \in Nat /\ MaxFaults \in Nat
  BY OutboxAssumption DEF UserRows, Rows, Channel, Channels

LEMMA InitInv == Init => IInv
<1> SUFFICES ASSUME Init PROVE IInv
  OBVIOUS
<1> USE DEF Init
<1>1. Types
  BY OutboxAssumption DEF Types, RowType, Absent, Statuses, ProducerType, IdleProducer, WorkerType,
     IdleWorker, Steps
<1>2. Working /\ OneDelivery
  BY DEF Working, OneDelivery, Delivering, IdleWorker
<1>3. Producing /\ BellFirst
  BY Shapes DEF Producing, BellFirst, IdleProducer, Absent
<1>4. Counted
  BY DEF Counted
<1>5. Budget
  BY OutboxAssumption DEF Budget, Absent, Stale
<1> QED BY <1>1, <1>2, <1>3, <1>4, <1>5 DEF IInv

LEMMA InvTypes ==
    ASSUME IInv
    PROVE  /\ outbox \in [Rows -> RowType] /\ worker \in [Workers -> WorkerType]
           /\ producer \in ProducerType /\ accepted \in [Rows -> [Devices \cup {Mailbox} -> Nat]]
           /\ faults \in Nat /\ faults \in 0..MaxFaults
<1>1. Types
  BY DEF IInv
<1>2. faults \in Nat
  BY <1>1, OutboxAssumption DEF Types
<1> QED BY <1>1, <1>2, Zenon DEF Types

-----------------------------------------------------------------------------
(* How a step changes a row. *)

Queued(row) == [row EXCEPT !.status = "queued"]
Claimed(row) == [row EXCEPT !.status = "delivering"]
Parked(row) == [row EXCEPT !.status = "awaiting_config"]
Reclaimed(row) == [status |-> "queued", attempts |-> row.attempts + 1]

LEMMA RowWrites ==
    ASSUME NEW row \in RowType
    PROVE  /\ Queued(row) \in RowType /\ Queued(row).status = "queued"
           /\ Queued(row).attempts = row.attempts
           /\ Claimed(row) \in RowType /\ Claimed(row).status = "delivering"
           /\ Claimed(row).attempts = row.attempts
           /\ Parked(row) \in RowType /\ Parked(row).status = "awaiting_config"
           /\ Parked(row).attempts = row.attempts
           /\ Reclaimed(row) \in RowType /\ Reclaimed(row).status = "queued"
           /\ Reclaimed(row).attempts = row.attempts + 1
           /\ Delivered(row) \in RowType /\ Delivered(row).status = "delivered"
           /\ Delivered(row).attempts = row.attempts
           /\ Dead(row) \in RowType /\ Dead(row).status = "dead"
           /\ Dead(row).attempts = row.attempts + 1
           /\ Rescheduled(row) \in RowType /\ Rescheduled(row).status = "queued"
           /\ Rescheduled(row).attempts = row.attempts + 1
<1>1. row.attempts + 1 \in Nat
  BY DEF RowType
<1>2. /\ Queued(row) \in RowType /\ Queued(row).status = "queued"
      /\ Queued(row).attempts = row.attempts
  BY DEF RowType, Statuses, Queued
<1>3. /\ Claimed(row) \in RowType /\ Claimed(row).status = "delivering"
      /\ Claimed(row).attempts = row.attempts
  BY DEF RowType, Statuses, Claimed
<1>4. /\ Parked(row) \in RowType /\ Parked(row).status = "awaiting_config"
      /\ Parked(row).attempts = row.attempts
  BY DEF RowType, Statuses, Parked
<1>5. /\ Reclaimed(row) \in RowType /\ Reclaimed(row).status = "queued"
      /\ Reclaimed(row).attempts = row.attempts + 1
  BY <1>1 DEF RowType, Statuses, Reclaimed
<1>6. /\ Delivered(row) \in RowType /\ Delivered(row).status = "delivered"
      /\ Delivered(row).attempts = row.attempts
  BY DEF RowType, Statuses, Delivered
<1>7. /\ Dead(row) \in RowType /\ Dead(row).status = "dead"
      /\ Dead(row).attempts = row.attempts + 1
  BY <1>1 DEF RowType, Statuses, Dead
<1>8. /\ Rescheduled(row) \in RowType /\ Rescheduled(row).status = "queued"
      /\ Rescheduled(row).attempts = row.attempts + 1
  BY <1>1 DEF RowType, Statuses, Rescheduled
<1> QED BY <1>2, <1>3, <1>4, <1>5, <1>6, <1>7, <1>8

\* A row is delivered only when the rollup of its answers is "ok".
LEMMA SettledFacts ==
    ASSUME NEW row \in RowType, NEW got \in SUBSET Results
    PROVE  LET new == Settled(row, Rollup(got)) IN
           /\ new \in RowType
           /\ \/ new.status = "delivered" /\ Rollup(got) = "ok" /\ new.attempts = row.attempts
              \/ /\ new.status = "dead" /\ "ok" \notin got /\ new.attempts = row.attempts + 1
                 /\ "permanent" \in got \/ new.attempts >= MaxAttempts
              \/ /\ new.status = "queued" /\ "ok" \notin got /\ new.attempts = row.attempts + 1
                 /\ new.attempts < MaxAttempts
<1>1. row.attempts \in Nat /\ MaxAttempts \in Nat
  BY Shapes DEF RowType
<1>2. Rollup(got) # "ok" => "ok" \notin got
  BY DEF Rollup
<1>3. Rollup(got) = "permanent" => "permanent" \in got
  BY DEF Rollup
<1>4. CASE Rollup(got) = "ok"
  BY <1>4, RowWrites DEF Settled
<1>5. CASE Rollup(got) # "ok" /\ (Rollup(got) = "permanent" \/ Spent(row.attempts))
  <2>1. Settled(row, Rollup(got)) = Dead(row)
    BY <1>5 DEF Settled
  <2>2. Spent(row.attempts) => row.attempts + 1 >= MaxAttempts
    BY DEF Spent
  <2> QED BY <1>2, <1>3, <1>5, <2>1, <2>2, RowWrites
<1>6. CASE Rollup(got) # "ok" /\ ~(Rollup(got) = "permanent" \/ Spent(row.attempts))
  <2>1. Settled(row, Rollup(got)) = Rescheduled(row)
    BY <1>6 DEF Settled
  <2>2. row.attempts + 1 < MaxAttempts
    BY <1>1, <1>6 DEF Spent
  <2> QED BY <1>2, <1>6, <2>1, <2>2, RowWrites
<1> QED BY <1>4, <1>5, <1>6

RowStep(r) ==
    \/ outbox'[r] = outbox[r]
    \/ outbox[r].status \in {"absent", "awaiting_config"} /\ outbox'[r] = Queued(outbox[r])
    \/ Stale(r) /\ outbox'[r] = Reclaimed(outbox[r])
    \/ outbox[r].status = "queued" /\ outbox'[r] = Parked(outbox[r])
    \/ /\ outbox[r].status = "queued" /\ outbox'[r] = Claimed(outbox[r])
       /\ \E w \in Workers : MarkOutboxDelivering(w) /\ worker[w].row = r
    \/ \E w \in Workers : /\ Settle(w) /\ worker[w].row = r
                          /\ outbox'[r] = Settled(outbox[r], Rollup(worker[w].got))

LEMMA RowSteps ==
    ASSUME IInv, [Next]_vars
    PROVE  /\ outbox' \in [Rows -> RowType]
           /\ \A r \in Rows : RowStep(r)
<1> USE InvTypes
<1> DEFINE P == /\ outbox' \in [Rows -> RowType]
                /\ \A r \in Rows : RowStep(r)
<1>0. UNCHANGED outbox => P
  BY DEF RowStep
<1>1. ASSUME NEW r \in Rows, outbox[r].status = "absent", outbox' = [outbox EXCEPT ![r] = Queued(outbox[r])]
      PROVE  P
  BY <1>1, RowWrites DEF RowStep
<1>2. ASSUME NEW c \in Channels, InsertRow(c) PROVE P
  <2>1. /\ producer.user \in Users /\ outbox[<<producer.user, c>>].status = "absent"
        /\ <<producer.user, c>> \in Rows
    BY <1>2, Shapes DEF InsertRow, IInv, Producing
  <2>2. outbox' = [outbox EXCEPT ![<<producer.user, c>>] = Queued(outbox[<<producer.user, c>>])]
    BY <1>2 DEF InsertRow, Queued
  <2> QED BY <1>1, <2>1, <2>2
<1>3. ASSUME NEW i \in Invites, EnqueueTransactionalEmail(i) PROVE P
  <2>1. outbox' = [outbox EXCEPT ![i] = Queued(outbox[i])]
    BY <1>3 DEF EnqueueTransactionalEmail, Queued
  <2> QED BY <1>1, <1>3, <2>1, Shapes DEF EnqueueTransactionalEmail
<1>4. ASSUME RequeueAwaitingConfig PROVE P
  <2>1. outbox' = [r \in Rows |-> IF outbox[r].status = "awaiting_config"
                                  THEN Queued(outbox[r]) ELSE outbox[r]]
    BY <1>4 DEF RequeueAwaitingConfig, Queued
  <2> QED BY <2>1, RowWrites DEF RowStep
<1>5. ASSUME NEW w \in Workers, ReclaimStaleDelivering(w) PROVE P
  <2>1. outbox' = [r \in Rows |-> IF Stale(r) THEN Reclaimed(outbox[r]) ELSE outbox[r]]
    BY <1>5 DEF ReclaimStaleDelivering, Reclaimed
  <2> QED BY <2>1, RowWrites DEF RowStep
<1>6. ASSUME NEW w \in Workers, MarkOutboxAwaitingConfig(w) PROVE P
  <2>1. worker[w].row \in Rows
    BY <1>6 DEF MarkOutboxAwaitingConfig, IInv, Working
  <2>2. \/ UNCHANGED outbox
        \/ /\ outbox[worker[w].row].status = "queued"
           /\ outbox' = [outbox EXCEPT ![worker[w].row] = Parked(outbox[worker[w].row])]
    BY <1>6 DEF MarkOutboxAwaitingConfig, Parked
  <2> QED BY <1>0, <2>1, <2>2, RowWrites DEF RowStep
<1>7. ASSUME NEW w \in Workers, MarkOutboxDelivering(w) PROVE P
  <2>1. worker[w].row \in Rows
    BY <1>7 DEF MarkOutboxDelivering, IInv, Working
  <2>2. \/ UNCHANGED outbox
        \/ /\ outbox[worker[w].row].status = "queued"
           /\ outbox' = [outbox EXCEPT ![worker[w].row] = Claimed(outbox[worker[w].row])]
    BY <1>7 DEF MarkOutboxDelivering, Claimed
  <2> QED BY <1>0, <1>7, <2>1, <2>2, RowWrites DEF RowStep
<1>8. ASSUME NEW w \in Workers, Settle(w) PROVE P
  <2>1. worker[w].row \in Rows /\ worker[w].got \in SUBSET Results
    BY <1>8 DEF Settle, IInv, Working, WorkerType
  <2>2. outbox' = [outbox EXCEPT ![worker[w].row] =
                      Settled(outbox[worker[w].row], Rollup(worker[w].got))]
    BY <1>8 DEF Settle
  <2>3. Settled(outbox[worker[w].row], Rollup(worker[w].got)) \in RowType
    BY <2>1, SettledFacts
  <2> QED BY <1>8, <2>1, <2>2, <2>3 DEF RowStep
<1>9. ASSUME NEW w \in Workers,
             \/ ListDueOutbox(w) \/ (\E r \in worker[w].batch : Handle(w, r)) \/ SettleFails(w)
             \/ \E a \in worker[w].todo, result \in Results : Send(w, a, result)
      PROVE  UNCHANGED outbox
  BY <1>9 DEF ListDueOutbox, Handle, SettleFails, Send
<1>10. \/ \E u \in Users : Enqueue(u)
       \/ NotifyWantAvailable \/ InsertFails \/ (\E enabled \in BOOLEAN : SaveProvider(enabled))
       \/ RequeueFails \/ Crash \/ UNCHANGED vars
       => UNCHANGED outbox
  BY DEF Enqueue, NotifyWantAvailable, InsertFails, SaveProvider, RequeueFails, Crash, vars
<1> QED BY <1>0, <1>2, <1>3, <1>4, <1>5, <1>6, <1>7, <1>8, <1>9, <1>10 DEF Next, Work, Produce

-----------------------------------------------------------------------------
(* How a step changes a worker. *)

LEMMA AddressTypes ==
    ASSUME NEW r \in Rows, subs \subseteq Devices
    PROVE  /\ Channel(r) \in Channels
           /\ Addresses(r) \in SUBSET (Devices \cup {Mailbox})
           /\ Channel(r) = "email" => Addresses(r) = {Mailbox}
<1>1. Channel(r) \in Channels
  BY Shapes DEF Channel, Channels
<1>2. Channel(r) = "email" => Addresses(r) = {Mailbox}
  BY DEF Addresses
<1>3. Channel(r) = "in_app" => Addresses(r) = {}
  BY DEF Addresses
<1>4. Channel(r) = "push" /\ subs \subseteq Devices => Addresses(r) \subseteq Devices
  BY DEF Addresses
<1> QED BY <1>1, <1>2, <1>3, <1>4 DEF Channels

Advanced(x, pc) == [x EXCEPT !.pc = pc]
Taken(x, r, pc, got) == [x EXCEPT !.row = r, !.pc = pc, !.got = got]
Sending(x, todo) == [x EXCEPT !.pc = "send", !.todo = todo]
Tried(x, a, result) == [x EXCEPT !.todo = @ \ {a}, !.got = @ \cup {result}]

LEMMA IdleFacts ==
    /\ IdleWorker \in WorkerType /\ IdleWorker.pc = "idle"
    /\ \A batch \in SUBSET Rows :
          Handling(batch) \in WorkerType /\ Handling(batch).pc = "handle"
  BY DEF IdleWorker, Handling, WorkerType, Steps

LEMMA AdvancedFacts ==
    ASSUME NEW x \in WorkerType
    PROVE  Advanced(x, "list") \in WorkerType /\ Advanced(x, "list").pc = "list"
  BY DEF Advanced, WorkerType, Steps

LEMMA TakenFacts ==
    ASSUME NEW x \in WorkerType, NEW r \in Rows, NEW pc \in {"park", "claim"},
           NEW got \in SUBSET Results
    PROVE  /\ Taken(x, r, pc, got) \in WorkerType /\ Taken(x, r, pc, got).pc = pc
           /\ Taken(x, r, pc, got).row = r /\ Taken(x, r, pc, got).got = got
  BY DEF Taken, WorkerType, Steps

LEMMA SendingFacts ==
    ASSUME NEW x \in WorkerType, NEW todo \in SUBSET (Devices \cup {Mailbox})
    PROVE  /\ Sending(x, todo) \in WorkerType /\ Sending(x, todo).pc = "send"
           /\ Sending(x, todo).row = x.row /\ Sending(x, todo).got = x.got
           /\ Sending(x, todo).todo = todo
  BY DEF Sending, WorkerType, Steps

LEMMA TriedFacts ==
    ASSUME NEW x \in WorkerType, NEW a \in x.todo, NEW result \in Results
    PROVE  /\ Tried(x, a, result) \in WorkerType /\ Tried(x, a, result).pc = x.pc
           /\ Tried(x, a, result).row = x.row
           /\ Tried(x, a, result).todo = x.todo \ {a}
           /\ Tried(x, a, result).got = x.got \cup {result}
  BY DEF Tried, WorkerType, Steps

\* A pass goes on to another row, or ends.
LEMMA NextRowFacts ==
    ASSUME IInv, NEW w \in Workers, NextRow(w)
    PROVE  \E x \in WorkerType : /\ worker' = [worker EXCEPT ![w] = x]
                                 /\ x.pc \in {"idle", "handle"}
<1>1. worker[w].batch \ {worker[w].row} \in SUBSET Rows
  BY InvTypes DEF WorkerType
<1>3. \/ worker' = [worker EXCEPT ![w] = IdleWorker]
      \/ worker' = [worker EXCEPT ![w] = Handling(worker[w].batch \ {worker[w].row})]
  BY DEF NextRow
<1> QED BY <1>1, <1>3, InvTypes, IdleFacts

WorkerStep(w) ==
    LET old == worker[w] new == worker'[w] IN
    \/ new = old
    \/ /\ new.pc \notin {"park", "claim", "send"}
       /\ old.pc = "send" => Settle(w) \/ SettleFails(w) \/ Crash
    \/ /\ old.pc = "handle" /\ new.pc \in {"park", "claim"} /\ new.row \in Rows
       /\ new.got \in {{}, {"retryable"}}
    \/ /\ MarkOutboxDelivering(w) /\ old.pc = "claim" /\ outbox[old.row].status = "queued"
       /\ new.pc = "send" /\ new.row = old.row /\ new.got = old.got
       /\ new.todo = IF old.got = {} THEN Addresses(old.row) ELSE {}
    \/ /\ old.pc = "send" /\ new.pc = "send" /\ new.row = old.row
       /\ \E a \in old.todo, result \in Results :
             /\ Send(w, a, result) /\ new.todo = old.todo \ {a} /\ new.got = old.got \cup {result}

\* Every step of a worker, and that no step but a crash changes two.
LEMMA WorkerSteps ==
    ASSUME IInv, [Next]_vars
    PROVE  /\ worker' \in [Workers -> WorkerType]
           /\ \A w \in Workers : WorkerStep(w)
<1> USE InvTypes
<1> DEFINE P == /\ worker' \in [Workers -> WorkerType]
                /\ \A w \in Workers : WorkerStep(w)
<1>0. UNCHANGED worker => P
  BY DEF WorkerStep
<1>1. ASSUME NEW w \in Workers, NEW x \in WorkerType, worker' = [worker EXCEPT ![w] = x],
             x.pc \notin {"park", "claim", "send"},
             worker[w].pc = "send" => Settle(w) \/ SettleFails(w) \/ Crash
      PROVE  P
  <2>1. worker' \in [Workers -> WorkerType] /\ worker'[w] = x /\ \A v \in Workers \ {w} : worker'[v] = worker[v]
    BY <1>1
  <2> QED BY <1>1, <2>1 DEF WorkerStep
<1>2. ASSUME NEW w \in Workers, ReclaimStaleDelivering(w) PROVE P
  <2>1. worker' = [worker EXCEPT ![w] = Advanced(worker[w], "list")] /\ worker[w].pc = "idle"
    BY <1>2 DEF ReclaimStaleDelivering, Step, Advanced
  <2>2. Advanced(worker[w], "list") \in WorkerType /\ Advanced(worker[w], "list").pc = "list"
    BY AdvancedFacts
  <2> QED BY <1>1, <2>1, <2>2
<1>3. ASSUME NEW w \in Workers, ListDueOutbox(w) PROVE P
  <2>2. Due \in SUBSET Rows
    BY DEF Due
  <2>3. worker[w].pc = "list" /\ \/ worker' = [worker EXCEPT ![w] = IdleWorker]
                                 \/ worker' = [worker EXCEPT ![w] = Handling(Due)]
    BY <1>3 DEF ListDueOutbox
  <2>4. /\ IdleWorker \in WorkerType /\ IdleWorker.pc = "idle"
        /\ Handling(Due) \in WorkerType /\ Handling(Due).pc = "handle"
    BY <2>2, IdleFacts
  <2> QED BY <1>1, <2>3, <2>4
<1>4. ASSUME NEW w \in Workers, NEW r \in worker[w].batch, Handle(w, r) PROVE P
  <2> DEFINE pc == IF IsConfigured(r) \/ r \in Invites THEN "claim" ELSE "park"
             got == IF IsConfigured(r) THEN {} ELSE {"retryable"}
  <2>1. r \in Rows /\ pc \in {"park", "claim"} /\ got \in {{}, {"retryable"}} /\ got \in SUBSET Results
    BY DEF WorkerType, Results
  <2>2. worker[w].pc = "handle" /\ worker' = [worker EXCEPT ![w] = Taken(worker[w], r, pc, got)]
    BY <1>4 DEF Handle, Taken
  <2> HIDE DEF pc, got
  <2>3. /\ Taken(worker[w], r, pc, got) \in WorkerType /\ Taken(worker[w], r, pc, got).pc = pc
        /\ Taken(worker[w], r, pc, got).row = r /\ Taken(worker[w], r, pc, got).got = got
    <3>1. worker[w] \in WorkerType
      OBVIOUS
    <3> QED BY <2>1, <3>1, TakenFacts
  <2>4. /\ worker' \in [Workers -> WorkerType] /\ worker'[w] = Taken(worker[w], r, pc, got)
        /\ \A v \in Workers \ {w} : worker'[v] = worker[v]
    BY <2>2, <2>3
  <2> QED BY <2>1, <2>2, <2>3, <2>4 DEF WorkerStep
<1>5. ASSUME NEW w \in Workers, NextRow(w),
             worker[w].pc = "send" => Settle(w) \/ SettleFails(w) \/ Crash
      PROVE  P
  <2>1. PICK x \in WorkerType : worker' = [worker EXCEPT ![w] = x] /\ x.pc \in {"idle", "handle"}
    BY <1>5, NextRowFacts
  <2> QED BY <1>1, <1>5, <2>1
<1>6. ASSUME NEW w \in Workers, MarkOutboxAwaitingConfig(w) \/ Settle(w) \/ SettleFails(w) PROVE P
  BY <1>5, <1>6 DEF MarkOutboxAwaitingConfig, Settle, SettleFails
<1>7. ASSUME NEW w \in Workers, MarkOutboxDelivering(w) PROVE P
  <2>0. worker[w].pc = "claim" /\ worker[w].row \in Rows
    BY <1>7 DEF MarkOutboxDelivering, IInv, Working
  <2>1. CASE outbox[worker[w].row].status # "queued"
    BY <1>5, <1>7, <2>0, <2>1 DEF MarkOutboxDelivering
  <2>2. CASE outbox[worker[w].row].status = "queued"
    <3> DEFINE todo == IF worker[w].got = {} THEN Addresses(worker[w].row) ELSE {}
    <3>1. todo \in SUBSET (Devices \cup {Mailbox})
      BY <2>0, AddressTypes DEF IInv, Types
    <3>2. worker' = [worker EXCEPT ![w] = Sending(worker[w], todo)]
      BY <1>7, <2>2 DEF MarkOutboxDelivering, StartDelivery, Sending
    <3>3. todo = IF worker[w].got = {} THEN Addresses(worker[w].row) ELSE {}
      OBVIOUS
    <3> HIDE DEF todo
    <3>4. /\ Sending(worker[w], todo) \in WorkerType /\ Sending(worker[w], todo).pc = "send"
          /\ Sending(worker[w], todo).row = worker[w].row /\ Sending(worker[w], todo).got = worker[w].got
          /\ Sending(worker[w], todo).todo = todo
      <4>1. worker[w] \in WorkerType
        OBVIOUS
      <4> QED BY <3>1, <4>1, SendingFacts
    <3>5. /\ worker' \in [Workers -> WorkerType] /\ worker'[w] = Sending(worker[w], todo)
          /\ \A v \in Workers \ {w} : worker'[v] = worker[v]
      BY <3>2, <3>4
    <3> QED BY <1>7, <2>0, <2>2, <3>3, <3>4, <3>5 DEF WorkerStep
  <2> QED BY <2>1, <2>2
<1>8. ASSUME NEW w \in Workers, NEW a \in worker[w].todo, NEW result \in Results, Send(w, a, result)
      PROVE  P
  <2>1. worker[w].pc = "send" /\ worker' = [worker EXCEPT ![w] = Tried(worker[w], a, result)]
    BY <1>8 DEF Send, Tried
  <2>2. LET x == Tried(worker[w], a, result) IN
        /\ x \in WorkerType /\ x.pc = "send" /\ x.row = worker[w].row
        /\ x.todo = worker[w].todo \ {a} /\ x.got = worker[w].got \cup {result}
    <3>1. worker[w] \in WorkerType
      OBVIOUS
    <3> QED BY <2>1, <3>1, TriedFacts
  <2>3. /\ worker' \in [Workers -> WorkerType] /\ worker'[w] = Tried(worker[w], a, result)
        /\ \A v \in Workers \ {w} : worker'[v] = worker[v]
    BY <2>1, <2>2
  <2> QED BY <1>8, <2>1, <2>2, <2>3 DEF WorkerStep
<1>9. Crash => P
  <2> SUFFICES ASSUME Crash PROVE P
    OBVIOUS
  <2>1. worker' = [w \in Workers |-> IdleWorker]
    BY DEF Crash
  <2>2. IdleWorker \in WorkerType /\ IdleWorker.pc = "idle"
    BY DEF IdleWorker, WorkerType, Steps
  <2> QED BY <2>1, <2>2 DEF WorkerStep
<1>10. ASSUME NEW c \in Channels, InsertRow(c) PROVE UNCHANGED worker
  BY <1>10 DEF InsertRow
<1>11. \/ \E u \in Users : Enqueue(u)
       \/ \E i \in Invites : EnqueueTransactionalEmail(i)
       \/ NotifyWantAvailable \/ InsertFails \/ (\E enabled \in BOOLEAN : SaveProvider(enabled))
       \/ RequeueAwaitingConfig \/ RequeueFails \/ UNCHANGED vars
       => UNCHANGED worker
  BY DEF Enqueue, EnqueueTransactionalEmail, NotifyWantAvailable, InsertFails, SaveProvider,
         RequeueAwaitingConfig, RequeueFails, vars
<1> QED BY <1>0, <1>2, <1>3, <1>4, <1>6, <1>7, <1>8, <1>9, <1>10, <1>11 DEF Next, Work, Produce

\* Who lays a row in a worker's hands, and who takes it from them.
LEMMA HandSteps ==
    ASSUME IInv, [Next]_vars, NEW w \in Workers, NEW r \in Rows
    PROVE  /\ Delivering(w, r)' =>
                 \/ Delivering(w, r)
                 \/ MarkOutboxDelivering(w) /\ worker[w].row = r /\ outbox[r].status = "queued"
           /\ Delivering(w, r) => Delivering(w, r)' \/ Settle(w) \/ SettleFails(w) \/ Crash
<1>1. WorkerStep(w)
  BY WorkerSteps
<1>2. /\ Delivering(w, r)' <=> worker'[w].pc = "send" /\ worker'[w].row = r
      /\ Delivering(w, r) <=> worker[w].pc = "send" /\ worker[w].row = r
  BY DEF Delivering
<1>3. CASE worker'[w] = worker[w]
  BY <1>2, <1>3
<1>4. CASE worker'[w].pc \notin {"park", "claim", "send"}
           /\ (worker[w].pc = "send" => Settle(w) \/ SettleFails(w) \/ Crash)
  BY <1>2, <1>4
<1>5. CASE worker[w].pc = "handle" /\ worker'[w].pc \in {"park", "claim"}
  BY <1>2, <1>5
<1>6. CASE /\ MarkOutboxDelivering(w) /\ worker[w].pc = "claim"
           /\ outbox[worker[w].row].status = "queued" /\ worker'[w].row = worker[w].row
  BY <1>2, <1>6
<1>7. CASE worker[w].pc = "send" /\ worker'[w].pc = "send" /\ worker'[w].row = worker[w].row
  BY <1>2, <1>7
<1> QED BY <1>1, <1>3, <1>4, <1>5, <1>6, <1>7 DEF WorkerStep

-----------------------------------------------------------------------------
(* What went out, and the faults. *)

Places == Devices \cup {Mailbox}

LEMMA AcceptSteps ==
    ASSUME IInv, [Next]_vars
    PROVE  /\ accepted' \in [Rows -> [Places -> Nat]]
           /\ \A r \in Rows, a \in Places :
                 \/ accepted'[r][a] = accepted[r][a]
                 \/ /\ accepted'[r][a] = accepted[r][a] + 1
                    /\ \E w \in Workers : /\ a \in worker[w].todo /\ Send(w, a, "ok")
                                          /\ worker[w].row = r
<1> USE InvTypes DEF Places
<1> DEFINE P == /\ accepted' \in [Rows -> [Places -> Nat]]
                /\ \A r \in Rows, a \in Places :
                      \/ accepted'[r][a] = accepted[r][a]
                      \/ /\ accepted'[r][a] = accepted[r][a] + 1
                         /\ \E w \in Workers : /\ a \in worker[w].todo /\ Send(w, a, "ok")
                                               /\ worker[w].row = r
<1>1. UNCHANGED accepted => P
  OBVIOUS
<1>2. ASSUME NEW w \in Workers, NEW a \in worker[w].todo, NEW result \in Results, Send(w, a, result)
      PROVE  P
  <2>1. CASE result # "ok"
    BY <1>1, <1>2, <2>1 DEF Send
  <2>2. CASE result = "ok"
    <3>1. worker[w].row \in Rows
      BY <1>2 DEF Send, IInv, Working
    <3>2. a \in Places
      BY DEF WorkerType
    <3>3. accepted' = [accepted EXCEPT ![worker[w].row][a] = accepted[worker[w].row][a] + 1]
      BY <1>2, <2>2 DEF Send
    <3>4. accepted[worker[w].row][a] + 1 \in Nat
      BY <3>1, <3>2
    <3> QED BY <1>2, <2>2, <3>1, <3>2, <3>3, <3>4
  <2> QED BY <2>1, <2>2
<1>3. ASSUME NEW w \in Workers,
             \/ ReclaimStaleDelivering(w) \/ ListDueOutbox(w) \/ (\E r \in worker[w].batch : Handle(w, r))
             \/ MarkOutboxAwaitingConfig(w) \/ MarkOutboxDelivering(w) \/ Settle(w) \/ SettleFails(w)
      PROVE  UNCHANGED accepted
  BY <1>3 DEF ReclaimStaleDelivering, ListDueOutbox, Handle, MarkOutboxAwaitingConfig,
              MarkOutboxDelivering, Settle, SettleFails
<1>4. \/ \E u \in Users : Enqueue(u)
      \/ \E c \in Channels : InsertRow(c)
      \/ \E i \in Invites : EnqueueTransactionalEmail(i)
      \/ NotifyWantAvailable \/ InsertFails \/ (\E enabled \in BOOLEAN : SaveProvider(enabled))
      \/ RequeueAwaitingConfig \/ RequeueFails \/ Crash \/ UNCHANGED vars
      => UNCHANGED accepted
  BY DEF Enqueue, InsertRow, EnqueueTransactionalEmail, NotifyWantAvailable, InsertFails, SaveProvider,
         RequeueAwaitingConfig, RequeueFails, Crash, vars
<1> HIDE DEF P
<1>5. P
  BY <1>1, <1>2, <1>3, <1>4 DEF Next, Work, Produce
<1> QED BY <1>5 DEF P

LEMMA FaultSteps ==
    ASSUME IInv, [Next]_vars
    PROVE  /\ faults' \in 0..MaxFaults
           /\ faults' = faults \/ (faults' = faults + 1 /\ UNCHANGED accepted)
           /\ \A w \in Workers : SettleFails(w) \/ Crash => faults' = faults + 1
<1> USE InvTypes, Shapes
<1>1. Fault => faults' = faults + 1 /\ faults' \in 0..MaxFaults
  BY DEF Fault
<1>2. \A w \in Workers : SettleFails(w) \/ Crash => Fault
  BY DEF SettleFails, Crash
<1>3. (\E w \in Workers : SettleFails(w)) \/ InsertFails \/ RequeueFails \/ Crash
      => Fault /\ UNCHANGED accepted
  BY DEF SettleFails, InsertFails, RequeueFails, Crash
<1>4. ASSUME NEW w \in Workers, Work(w) PROVE faults' = faults
  BY <1>4 DEF Work, ReclaimStaleDelivering, ListDueOutbox, Handle, MarkOutboxAwaitingConfig,
              MarkOutboxDelivering, Send, Settle
<1>5. \/ Produce \/ NotifyWantAvailable \/ (\E i \in Invites : EnqueueTransactionalEmail(i))
      \/ (\E enabled \in BOOLEAN : SaveProvider(enabled)) \/ RequeueAwaitingConfig \/ UNCHANGED vars
      => faults' = faults
  BY DEF Produce, Enqueue, InsertRow, NotifyWantAvailable, EnqueueTransactionalEmail, SaveProvider,
         RequeueAwaitingConfig, vars
<1>6. faults' = faults \/ (Fault /\ UNCHANGED accepted)
  <2> DEFINE Q == faults' = faults \/ (Fault /\ UNCHANGED accepted)
  <2>1. (\E w \in Workers : SettleFails(w)) \/ InsertFails \/ RequeueFails \/ Crash => Q
    BY <1>3
  <2>2. (\E w \in Workers : Work(w)) => Q
    BY <1>4
  <2>3. \/ Produce \/ NotifyWantAvailable \/ (\E i \in Invites : EnqueueTransactionalEmail(i))
        \/ (\E enabled \in BOOLEAN : SaveProvider(enabled)) \/ RequeueAwaitingConfig
        \/ UNCHANGED vars
        => Q
    BY <1>5
  <2> HIDE DEF Q
  <2>4. Next => Q
    BY <2>1, <2>2, <2>3, Zenon DEF Next
  <2>5. Next \/ UNCHANGED vars
    OBVIOUS
  <2>6. Q
    BY <2>3, <2>4, <2>5
  <2> QED BY <2>6 DEF Q
<1>7. faults' = faults => faults' \in 0..MaxFaults
  OBVIOUS
<1> QED BY <1>1, <1>2, <1>6, <1>7

-----------------------------------------------------------------------------
(* The invariant is preserved, conjunct by conjunct. *)

LEMMA WorkingStep == ASSUME IInv, [Next]_vars PROVE Working'
<1> USE InvTypes
<1> SUFFICES ASSUME NEW w \in Workers
             PROVE  /\ worker'[w].pc \in {"park", "claim", "send"} => worker'[w].row \in Rows
                    /\ worker'[w].pc = "claim" => worker'[w].got \in {{}, {"retryable"}}
                    /\ worker'[w].pc = "send" =>
                          /\ outbox'[worker'[w].row].status = "delivering"
                          /\ Mailing(w)'
                          /\ "ok" \in worker'[w].got =>
                                \E a \in Places : accepted'[worker'[w].row][a] > 0
  BY DEF Working, Places
<1> DEFINE r == worker[w].row
<1>1. /\ worker[w].pc \in {"park", "claim", "send"} => r \in Rows
      /\ worker[w].pc = "claim" => worker[w].got \in {{}, {"retryable"}}
      /\ worker[w].pc = "send" =>
            /\ outbox[r].status = "delivering"
            /\ Mailing(w)
            /\ "ok" \in worker[w].got => \E a \in Places : accepted[r][a] > 0
  BY DEF IInv, Working, Places
<1>2. WorkerStep(w)
  BY WorkerSteps
<1>3. ASSUME r \in Rows, NEW a \in Places, accepted[r][a] > 0 PROVE accepted'[r][a] > 0
  <2>1. accepted[r][a] \in Nat
    BY <1>3 DEF Places
  <2>2. accepted'[r][a] = accepted[r][a] \/ accepted'[r][a] = accepted[r][a] + 1
    BY <1>3, AcceptSteps
  <2> QED BY <1>3, <2>1, <2>2
<1>4. CASE worker'[w] = worker[w]
  <2>1. SUFFICES ASSUME worker[w].pc = "send"
                 PROVE  outbox'[r].status = "delivering"
    BY <1>1, <1>3, <1>4, <2>1 DEF Mailing
  <2>2. RowStep(r) /\ r \in Rows
    BY <1>1, <2>1, RowSteps
  <2>3. ~Stale(r)
    BY <2>1 DEF Stale, Delivering
  <2>4. ASSUME NEW v \in Workers, Settle(v), worker[v].row = r PROVE FALSE
    <3>1. v = w
      BY <1>1, <2>1, <2>4 DEF IInv, OneDelivery, Delivering, Settle
    <3>2. NextRow(w)
      BY <2>4, <3>1 DEF Settle
    <3> QED BY <1>4, <2>1, <3>2, NextRowFacts
  <2> QED BY <1>1, <2>1, <2>2, <2>3, <2>4 DEF RowStep
<1>5. CASE worker'[w].pc \notin {"park", "claim", "send"}
  BY <1>5
<1>6. CASE /\ worker'[w].pc \in {"park", "claim"} /\ worker'[w].row \in Rows
           /\ worker'[w].got \in {{}, {"retryable"}}
  BY <1>6
<1>7. CASE /\ MarkOutboxDelivering(w) /\ worker[w].pc = "claim" /\ outbox[r].status = "queued"
           /\ worker'[w].pc = "send" /\ worker'[w].row = r /\ worker'[w].got = worker[w].got
           /\ worker'[w].todo = IF worker[w].got = {} THEN Addresses(r) ELSE {}
  <2>1. r \in Rows /\ worker[w].got \in {{}, {"retryable"}}
    BY <1>1, <1>7
  <2>2. outbox'[r].status = "delivering"
    <3>1. outbox' = [outbox EXCEPT ![r] = Claimed(outbox[r])]
      BY <1>7 DEF MarkOutboxDelivering, Claimed
    <3> QED BY <2>1, <3>1, RowWrites
  <2>3. Channel(r) = "email" => Addresses(r) = {Mailbox}
    BY <2>1, AddressTypes DEF IInv, Types
  <2>4. Mailing(w)'
    <3> SUFFICES ASSUME Channel(worker'[w].row) = "email"
                 PROVE  /\ worker'[w].todo \subseteq {Mailbox} /\ "gone" \notin worker'[w].got
                        /\ worker'[w].todo = {} => worker'[w].got # {}
      BY DEF Mailing
    <3>1. Addresses(r) = {Mailbox}
      BY <1>7, <2>3
    <3>2. CASE worker[w].got = {}
      BY <1>7, <3>1, <3>2
    <3>3. CASE worker[w].got = {"retryable"}
      BY <1>7, <3>3
    <3> QED BY <2>1, <3>2, <3>3
  <2> QED BY <1>7, <2>1, <2>2, <2>4
<1>8. ASSUME NEW a \in worker[w].todo, NEW result \in Results, Send(w, a, result),
             worker[w].pc = "send", worker'[w].pc = "send", worker'[w].row = r,
             worker'[w].todo = worker[w].todo \ {a}, worker'[w].got = worker[w].got \cup {result}
      PROVE  /\ r \in Rows
             /\ outbox'[r].status = "delivering"
             /\ Mailing(w)'
             /\ "ok" \in worker'[w].got => \E b \in Places : accepted'[r][b] > 0
  <2>1. r \in Rows /\ outbox' = outbox /\ outbox[r].status = "delivering" /\ Mailing(w)
    BY <1>1, <1>8 DEF Send
  <2>2. result = "gone" => a # Mailbox
    BY <1>8, OutboxAssumption DEF Send
  <2>3. Mailing(w)'
    BY <1>8, <2>1, <2>2 DEF Mailing
  <2>4. ASSUME result = "ok" PROVE \E b \in Places : accepted'[r][b] > 0
    <3>1. a \in Places /\ accepted[r][a] \in Nat
      BY <2>1 DEF WorkerType, Places
    <3>2. accepted' = [accepted EXCEPT ![r][a] = accepted[r][a] + 1]
      BY <1>8, <2>4 DEF Send
    <3>3. accepted'[r][a] = accepted[r][a] + 1
      BY <2>1, <3>1, <3>2 DEF Places
    <3> QED BY <3>1, <3>3
  <2>5. "ok" \in worker[w].got => \E b \in Places : accepted'[r][b] > 0
    BY <1>1, <1>3, <1>8
  <2> QED BY <1>8, <2>1, <2>3, <2>4, <2>5
<1> QED BY <1>2, <1>4, <1>5, <1>6, <1>7, <1>8 DEF WorkerStep

LEMMA OneDeliveryStep == ASSUME IInv, [Next]_vars PROVE OneDelivery'
<1> SUFFICES ASSUME NEW v \in Workers, NEW w \in Workers, NEW r \in Rows,
                    Delivering(v, r)', Delivering(w, r)', v # w
             PROVE  FALSE
  BY DEF OneDelivery
<1> DEFINE Claims(x) == MarkOutboxDelivering(x) /\ worker[x].row = r /\ outbox[r].status = "queued"
<1>1. (Delivering(v, r) \/ Claims(v)) /\ (Delivering(w, r) \/ Claims(w))
  BY HandSteps
<1>2. ~(Delivering(v, r) /\ Delivering(w, r))
  BY DEF IInv, OneDelivery
<1>3. \A x \in Workers : Delivering(x, r) => outbox[r].status = "delivering"
  BY DEF IInv, Working, Delivering
<1>4. Claims(v) /\ Claims(w)
  BY <1>1, <1>2, <1>3
<1>5. PICK x : worker' = [worker EXCEPT ![v] = x]
  <2>1. worker' = [worker EXCEPT ![v] = Sending(worker[v], IF worker[v].got = {} THEN Addresses(r) ELSE {})]
    BY <1>4 DEF MarkOutboxDelivering, StartDelivery, Sending
  <2> QED BY <2>1
<1>6. worker'[w] = worker[w] /\ worker[w].pc = "claim"
  BY <1>4, <1>5, InvTypes DEF MarkOutboxDelivering
<1> QED BY <1>6 DEF Delivering

LEMMA TypesStep == ASSUME IInv, [Next]_vars PROVE Types'
<1> USE InvTypes
<1>1. configured \in BOOLEAN /\ saver \in {"idle", "requeue"} /\ subs \subseteq Devices
  BY DEF IInv, Types
<1> DEFINE P == /\ configured' \in BOOLEAN /\ saver' \in {"idle", "requeue"} /\ subs' \subseteq Devices
                /\ producer' \in ProducerType
<1>2. ASSUME NEW w \in Workers, Work(w) \/ SettleFails(w) PROVE P
  <2>1. UNCHANGED <<configured, saver, producer>> /\ subs' \subseteq subs
    BY <1>2 DEF Work, SettleFails, ReclaimStaleDelivering, ListDueOutbox, Handle,
                MarkOutboxAwaitingConfig, MarkOutboxDelivering, Send, Settle
  <2> QED BY <1>1, <2>1
<1>3. ASSUME NEW u \in Users, Enqueue(u) PROVE P
  <2>1. /\ UNCHANGED <<configured, saver, subs>>
        /\ \E todo \in SUBSET Channels :
              producer' = [users |-> producer.users \ {u}, user |-> u, todo |-> todo]
    BY <1>3 DEF Enqueue, Channels
  <2> QED BY <1>1, <2>1 DEF ProducerType
<1>4. ASSUME NEW c \in Channels, InsertRow(c) PROVE P
  <2>1. UNCHANGED <<configured, saver, subs>> /\ producer' = [producer EXCEPT !.todo = @ \ {c}]
    BY <1>4 DEF InsertRow
  <2> QED BY <1>1, <2>1 DEF ProducerType
<1>5. ASSUME NotifyWantAvailable PROVE P
  <2>1. UNCHANGED <<configured, saver, subs>> /\ producer' = [producer EXCEPT !.users = Users]
    BY <1>5 DEF NotifyWantAvailable
  <2> QED BY <1>1, <2>1 DEF ProducerType
<1>6. ASSUME InsertFails \/ Crash PROVE P
  <2>1. /\ UNCHANGED <<configured, subs>> /\ saver' \in {"idle", saver}
        /\ producer' = [IdleProducer EXCEPT !.user = producer.user]
    BY <1>6 DEF InsertFails, Crash
  <2> QED BY <1>1, <2>1 DEF ProducerType, IdleProducer
<1>7. \/ \E i \in Invites : EnqueueTransactionalEmail(i)
      \/ \E enabled \in BOOLEAN : SaveProvider(enabled)
      \/ RequeueAwaitingConfig \/ RequeueFails \/ UNCHANGED vars
      => P
  BY <1>1 DEF EnqueueTransactionalEmail, SaveProvider, RequeueAwaitingConfig, RequeueFails, vars
<1> HIDE DEF P
<1>8. P
  BY <1>2, <1>3, <1>4, <1>5, <1>6, <1>7 DEF Next, Produce
<1> QED BY <1>8, RowSteps, WorkerSteps, AcceptSteps, FaultSteps DEF P, Types, Places

\* No row is taken out of the table, and only the producer puts one in for a user.
LEMMA PresenceSteps ==
    ASSUME IInv, [Next]_vars, NEW r \in UserRows
    PROVE  /\ outbox[r].status # "absent" => outbox'[r].status # "absent"
           /\ \/ outbox'[r].status = "absent" <=> outbox[r].status = "absent"
              \/ \E c \in Channels : InsertRow(c) /\ r = <<producer.user, c>>
<1>1. r \in Rows /\ outbox[r] \in RowType /\ RowStep(r)
  BY InvTypes, RowSteps DEF Rows
<1>2. outbox[r].status # "absent" => outbox'[r].status # "absent"
  <2>1. ASSUME NEW w \in Workers, Settle(w), outbox'[r] = Settled(outbox[r], Rollup(worker[w].got))
        PROVE  outbox'[r].status # "absent"
    <3>1. worker[w].got \in SUBSET Results
      BY InvTypes DEF WorkerType
    <3> QED BY <1>1, <2>1, <3>1, SettledFacts
  <2> QED BY <1>1, <2>1, RowWrites DEF RowStep
<1>3. ASSUME outbox[r].status = "absent", outbox'[r].status # "absent"
      PROVE  \E c \in Channels : InsertRow(c) /\ r = <<producer.user, c>>
  <2>1. ASSUME NEW i \in Invites, EnqueueTransactionalEmail(i) PROVE outbox'[r] = outbox[r]
    <3>1. i # r
      BY OutboxAssumption
    <3> QED BY <1>1, <2>1, <3>1, InvTypes DEF EnqueueTransactionalEmail
  <2>2. ASSUME NEW w \in Workers, Work(w) PROVE FALSE
    <3>1. ASSUME Settle(w) PROVE FALSE
      <4>1. r # worker[w].row
        BY <1>3, <3>1 DEF Settle, IInv, Working
      <4> QED BY <1>1, <1>3, <3>1, <4>1, InvTypes DEF Settle
    <3>2. ASSUME ReclaimStaleDelivering(w) PROVE FALSE
      BY <1>1, <1>3, <3>2 DEF ReclaimStaleDelivering, Stale
    <3>3. ASSUME MarkOutboxAwaitingConfig(w) \/ MarkOutboxDelivering(w) PROVE FALSE
      <4>1. UNCHANGED outbox \/ outbox[worker[w].row].status = "queued"
        BY <3>3 DEF MarkOutboxAwaitingConfig, MarkOutboxDelivering
      <4> QED BY <1>1, <1>3, <3>3, <4>1, InvTypes DEF MarkOutboxAwaitingConfig, MarkOutboxDelivering
    <3>4. \/ ListDueOutbox(w) \/ (\E s \in worker[w].batch : Handle(w, s))
          \/ \E a \in worker[w].todo, result \in Results : Send(w, a, result)
          => UNCHANGED outbox
      BY DEF ListDueOutbox, Handle, Send
    <3> QED BY <1>3, <2>2, <3>1, <3>2, <3>3, <3>4 DEF Work
  <2>3. ASSUME NEW c \in Channels, InsertRow(c), r # <<producer.user, c>> PROVE FALSE
    BY <1>1, <1>3, <2>3, InvTypes DEF InsertRow
  <2>4. RequeueAwaitingConfig => outbox'[r] = outbox[r]
    BY <1>1, <1>3 DEF RequeueAwaitingConfig
  <2>5. \/ \E w \in Workers : SettleFails(w)
        \/ \E u \in Users : Enqueue(u)
        \/ NotifyWantAvailable \/ InsertFails \/ (\E enabled \in BOOLEAN : SaveProvider(enabled))
        \/ RequeueFails \/ Crash \/ UNCHANGED vars
        => UNCHANGED outbox
    BY DEF SettleFails, Enqueue, NotifyWantAvailable, InsertFails, SaveProvider, RequeueFails, Crash, vars
  <2> QED BY <1>3, <2>1, <2>2, <2>3, <2>4, <2>5 DEF Next, Produce
<1> QED BY <1>2, <1>3

LEMMA ProducingStep == ASSUME IInv, [Next]_vars PROVE Producing' /\ BellFirst'
<1> USE InvTypes, Shapes
<1>0. /\ Producing /\ BellFirst
      /\ producer.users \subseteq Users /\ producer.todo \subseteq Channels
  BY DEF IInv, ProducerType
<1>1. ASSUME NEW c \in Channels, InsertRow(c) PROVE Producing' /\ BellFirst'
  <2> DEFINE u == producer.user
  <2>1. /\ c \in producer.todo /\ (\A d \in producer.todo : Rank[c] <= Rank[d])
        /\ u \in Users /\ u \notin producer.users
    BY <1>0, <1>1 DEF InsertRow, Producing
  <2>2. producer'.users = producer.users /\ producer'.user = u /\ producer'.todo = producer.todo \ {c}
    BY <1>1 DEF InsertRow, ProducerType
  <2>3. /\ <<u, c>> \in Rows /\ outbox'[<<u, c>>].status = "queued"
        /\ \A r \in Rows : r # <<u, c>> => outbox'[r] = outbox[r]
    BY <1>1, <2>1 DEF InsertRow, RowType
  <2>4. outbox'[<<u, "in_app">>].status # "absent"
    <3>1. CASE c = "in_app"
      BY <2>3, <3>1
    <3>2. CASE c # "in_app"
      <4>1. Rank[c] > Rank["in_app"]
        BY <3>2 DEF Rank, Channels
      <4>2. "in_app" \notin producer.todo
        BY <2>1, <4>1 DEF Rank, Channels
      <4>3. outbox[<<u, "in_app">>].status # "absent"
        BY <1>0, <2>1, <4>2 DEF Producing
      <4>4. <<u, "in_app">> \in Rows /\ <<u, "in_app">> # <<u, c>>
        BY <2>1, <3>2
      <4> QED BY <2>3, <4>3, <4>4
    <3> QED BY <3>1, <3>2
  <2>5. BellFirst'
    <3> SUFFICES ASSUME NEW v \in Users, NEW d \in Channels, outbox'[<<v, d>>].status # "absent"
                 PROVE  outbox'[<<v, "in_app">>].status # "absent"
      BY DEF BellFirst
    <3>1. CASE v = u
      BY <2>4, <3>1
    <3>2. CASE v # u
      <4>1. outbox'[<<v, d>>] = outbox[<<v, d>>] /\ outbox'[<<v, "in_app">>] = outbox[<<v, "in_app">>]
        BY <2>3, <3>2
      <4> QED BY <1>0, <4>1 DEF BellFirst
    <3> QED BY <3>1, <3>2
  <2>6. \A v \in producer.users, d \in Channels : outbox'[<<v, d>>].status = "absent"
    <3> SUFFICES ASSUME NEW v \in producer.users, NEW d \in Channels
                 PROVE  outbox'[<<v, d>>].status = "absent"
      OBVIOUS
    <3>1. <<v, d>> \in Rows /\ <<v, d>> # <<u, c>> /\ outbox[<<v, d>>].status = "absent"
      BY <1>0, <2>1 DEF Producing
    <3> QED BY <2>3, <3>1
  <2>7. \A d \in producer.todo \ {c} : outbox'[<<u, d>>].status = "absent"
    <3> SUFFICES ASSUME NEW d \in producer.todo \ {c} PROVE outbox'[<<u, d>>].status = "absent"
      OBVIOUS
    <3>1. d \in Channels /\ outbox[<<u, d>>].status = "absent"
      BY <1>0 DEF Producing
    <3>2. <<u, d>> \in Rows /\ <<u, d>> # <<u, c>>
      BY <2>1, <3>1
    <3> QED BY <2>3, <3>1, <3>2
  <2> HIDE DEF u
  <2>8. Producing'
    BY <2>1, <2>2, <2>4, <2>6, <2>7 DEF Producing
  <2> QED BY <2>5, <2>8
<1>2. ASSUME \A c \in Channels : ~InsertRow(c)
      PROVE  /\ \A u \in Users, c \in Channels :
                   outbox'[<<u, c>>].status = "absent" <=> outbox[<<u, c>>].status = "absent"
             /\ BellFirst'
  <2>1. \A u \in Users, c \in Channels :
           outbox'[<<u, c>>].status = "absent" <=> outbox[<<u, c>>].status = "absent"
    BY <1>2, PresenceSteps
  <2> QED BY <1>0, <2>1 DEF BellFirst
<1>3. ASSUME \A c \in Channels : ~InsertRow(c), UNCHANGED producer PROVE Producing'
  BY <1>0, <1>2, <1>3 DEF Producing
<1>4. ASSUME NEW u \in Users, Enqueue(u) PROVE Producing' /\ BellFirst'
  <2>1. PICK todo \in SUBSET Channels :
           /\ todo # {} => "in_app" \in todo
           /\ producer' = [users |-> producer.users \ {u}, user |-> u, todo |-> todo]
    BY <1>4 DEF Enqueue, Channels
  <2>2. u \in producer.users /\ UNCHANGED outbox
    BY <1>4 DEF Enqueue
  <2>3. /\ producer'.users = producer.users \ {u} /\ producer'.user = u /\ producer'.todo = todo
    BY <2>1
  <2> QED BY <1>0, <2>1, <2>2, <2>3 DEF Producing, BellFirst
<1>5. ASSUME NotifyWantAvailable PROVE Producing' /\ BellFirst'
  <2>1. /\ producer'.users = Users /\ producer'.todo = {} /\ UNCHANGED outbox
        /\ \A r \in UserRows : outbox[r].status = "absent"
    BY <1>5 DEF NotifyWantAvailable, IdleProducer
  <2> QED BY <1>0, <2>1 DEF Producing, BellFirst
<1>6. ASSUME InsertFails \/ Crash PROVE Producing' /\ BellFirst'
  <2>1. producer'.users = {} /\ producer'.todo = {} /\ UNCHANGED outbox
    BY <1>6 DEF InsertFails, Crash, IdleProducer
  <2> QED BY <1>0, <2>1 DEF Producing, BellFirst
<1>7. \/ \E w \in Workers : Work(w) \/ SettleFails(w)
      \/ \E i \in Invites : EnqueueTransactionalEmail(i)
      \/ (\E enabled \in BOOLEAN : SaveProvider(enabled))
      \/ RequeueAwaitingConfig \/ RequeueFails \/ UNCHANGED vars
      => UNCHANGED producer
  BY DEF Work, ReclaimStaleDelivering, ListDueOutbox, Handle, MarkOutboxAwaitingConfig,
         MarkOutboxDelivering, Send, Settle, SettleFails, EnqueueTransactionalEmail, SaveProvider,
         RequeueAwaitingConfig, RequeueFails, vars
<1> QED BY <1>1, <1>2, <1>3, <1>4, <1>5, <1>6, <1>7 DEF Next, Produce

LEMMA OnItsWayStep ==
    ASSUME IInv, [Next]_vars, faults' = faults, NEW r \in Rows, NEW a \in Places, OnItsWay(r, a)
    PROVE  OnItsWay(r, a)'
<1> USE InvTypes
<1>1. RowStep(r) /\ (\A w \in Workers : SettleFails(w) \/ Crash => faults' = faults + 1)
  BY RowSteps, FaultSteps
<1>2. ASSUME NEW w \in Workers, Settle(w), worker[w].row = r
      PROVE  outbox[r].status = "delivering" /\ ("ok" \in worker[w].got => outbox'[r].status = "delivered")
  <2>1. outbox[r].status = "delivering" /\ outbox' = [outbox EXCEPT ![r] = Settled(outbox[r], Rollup(worker[w].got))]
    BY <1>2 DEF Settle, IInv, Working
  <2>2. "ok" \in worker[w].got => Settled(outbox[r], Rollup(worker[w].got)) = Delivered(outbox[r])
    BY DEF Rollup, Settled
  <2> QED BY <2>1, <2>2, RowWrites
<1>3. CASE outbox[r].status = "delivered"
  <2>1. outbox'[r] = outbox[r]
    BY <1>1, <1>2, <1>3 DEF RowStep, Stale
  <2> QED BY <1>3, <2>1 DEF OnItsWay
<1>4. ASSUME NEW w \in Workers, Delivering(w, r), "ok" \in worker[w].got, a \notin worker[w].todo
      PROVE  OnItsWay(r, a)'
  <2>1. CASE Settle(w)
    BY <1>2, <1>4, <2>1 DEF Delivering, OnItsWay
  <2>2. CASE Delivering(w, r)'
    <3>1. WorkerStep(w) /\ worker[w].pc = "send" /\ worker'[w].pc = "send"
      BY <1>4, <2>2, WorkerSteps DEF Delivering
    <3>2. "ok" \in worker'[w].got /\ a \notin worker'[w].todo
      <4>1. \/ worker'[w] = worker[w]
            \/ \E b \in worker[w].todo, result \in Results :
                   worker'[w].todo = worker[w].todo \ {b} /\ worker'[w].got = worker[w].got \cup {result}
        BY <3>1 DEF WorkerStep
      <4> QED BY <1>4, <4>1
    <3> QED BY <2>2, <3>2 DEF OnItsWay
  <2>3. SettleFails(w) \/ Crash => FALSE
    BY <1>1
  <2> QED BY <1>4, <2>1, <2>2, <2>3, HandSteps
<1> QED BY <1>3, <1>4 DEF OnItsWay

LEMMA CountedStep == ASSUME IInv, [Next]_vars PROVE Counted'
<1> USE InvTypes
<1> SUFFICES ASSUME NEW r \in Rows, NEW a \in Places
             PROVE  /\ accepted'[r][a] <= 1 + faults'
                    /\ accepted'[r][a] > faults' => OnItsWay(r, a)'
  BY DEF Counted, Places
<1>1. /\ accepted[r][a] \in Nat /\ accepted[r][a] <= 1 + faults
      /\ accepted[r][a] > faults => OnItsWay(r, a)
  BY DEF IInv, Counted, Places
<1>2. CASE faults' = faults + 1 /\ UNCHANGED accepted
  BY <1>1, <1>2
<1>3. CASE faults' = faults /\ accepted'[r][a] = accepted[r][a]
  BY <1>1, <1>3, OnItsWayStep
<1>4. ASSUME faults' = faults, accepted'[r][a] = accepted[r][a] + 1,
             NEW w \in Workers, a \in worker[w].todo, Send(w, a, "ok"), worker[w].row = r
      PROVE  accepted'[r][a] <= 1 + faults' /\ OnItsWay(r, a)'
  <2>1. Delivering(w, r) /\ outbox[r].status = "delivering"
    BY <1>4 DEF Send, Delivering, IInv, Working
  <2>2. ~OnItsWay(r, a)
    <3>1. \A v \in Workers : Delivering(v, r) => v = w
      BY <2>1 DEF IInv, OneDelivery
    <3> QED BY <1>4, <2>1, <3>1 DEF OnItsWay
  <2>3. worker' = [worker EXCEPT ![w] = Tried(worker[w], a, "ok")]
    BY <1>4 DEF Send, Tried
  <2>4. /\ Tried(worker[w], a, "ok").pc = worker[w].pc /\ Tried(worker[w], a, "ok").row = r
        /\ "ok" \in Tried(worker[w], a, "ok").got /\ a \notin Tried(worker[w], a, "ok").todo
    <3>1. worker[w] \in WorkerType /\ "ok" \in Results
      BY DEF Results
    <3> QED BY <1>4, <3>1, TriedFacts
  <2>5. worker'[w] = Tried(worker[w], a, "ok")
    BY <2>3
  <2>6. OnItsWay(r, a)'
    BY <2>1, <2>4, <2>5 DEF OnItsWay, Delivering
  <2> QED BY <1>1, <1>4, <2>2, <2>6
<1> QED BY <1>2, <1>3, <1>4, AcceptSteps, FaultSteps

LEMMA BudgetStep == ASSUME IInv, [Next]_vars PROVE Budget'
<1> USE InvTypes, Shapes
<1> SUFFICES ASSUME NEW r \in Rows
             PROVE  /\ outbox'[r].attempts <= MaxAttempts + faults'
                    /\ outbox'[r].status # "dead" => outbox'[r].attempts < MaxAttempts + faults'
                    /\ Stale(r)' => outbox'[r].attempts + 1 < MaxAttempts + faults'
  BY DEF Budget
<1>1. /\ outbox[r] \in RowType /\ outbox[r].attempts \in Nat
      /\ outbox[r].attempts <= MaxAttempts + faults
      /\ outbox[r].status # "dead" => outbox[r].attempts < MaxAttempts + faults
      /\ Stale(r) => outbox[r].attempts + 1 < MaxAttempts + faults
  BY DEF IInv, Budget, RowType
<1>2. faults' \in Nat /\ faults' >= faults
  BY FaultSteps
<1>3. Stale(r)' => outbox'[r].status = "delivering" /\ \A w \in Workers : ~Delivering(w, r)'
  BY DEF Stale
<1>4. CASE outbox'[r] = outbox[r]
  <2>1. ASSUME Stale(r)', ~Stale(r) PROVE faults' = faults + 1
    <3>1. PICK w \in Workers : Delivering(w, r)
      BY <1>3, <1>4, <2>1 DEF Stale
    <3>2. ASSUME Settle(w) PROVE FALSE
      <4>1. /\ worker[w].row = r /\ worker[w].got \in SUBSET Results
            /\ outbox'[r] = Settled(outbox[r], Rollup(worker[w].got))
        BY <3>1, <3>2 DEF Settle, Delivering, WorkerType
      <4> QED BY <1>1, <1>3, <2>1, <4>1, SettledFacts
    <3> QED BY <1>3, <2>1, <3>1, <3>2, HandSteps, FaultSteps
  <2>2. outbox[r].status = "delivering" => outbox[r].status # "dead"
    OBVIOUS
  <2> QED BY <1>1, <1>2, <1>3, <1>4, <2>1, <2>2
<1>5. CASE /\ outbox'[r].status \in {"queued", "awaiting_config", "delivered"}
           /\ outbox'[r].attempts = outbox[r].attempts /\ outbox[r].status # "dead"
  BY <1>1, <1>2, <1>3, <1>5
<1>6. CASE Stale(r) /\ outbox'[r] = Reclaimed(outbox[r])
  BY <1>1, <1>2, <1>3, <1>6, RowWrites
<1>7. ASSUME outbox[r].status = "queued", outbox'[r] = Claimed(outbox[r]),
             NEW w \in Workers, MarkOutboxDelivering(w), worker[w].row = r
      PROVE  /\ outbox'[r].attempts = outbox[r].attempts /\ outbox'[r].status = "delivering"
             /\ ~Stale(r)'
  <2>1. worker[w].got = {} => Addresses(r) \in SUBSET Places
    BY AddressTypes DEF IInv, Types, Places
  <2> DEFINE todo == IF worker[w].got = {} THEN Addresses(r) ELSE {}
  <2>2. todo \in SUBSET (Devices \cup {Mailbox}) /\ worker[w] \in WorkerType
    BY <2>1 DEF Places
  <2>3. worker' = [worker EXCEPT ![w] = Sending(worker[w], todo)]
    BY <1>7 DEF MarkOutboxDelivering, StartDelivery, Sending
  <2> HIDE DEF todo
  <2>4. Sending(worker[w], todo).pc = "send" /\ Sending(worker[w], todo).row = r
    BY <1>7, <2>2, SendingFacts
  <2>5. Delivering(w, r)'
    BY <2>3, <2>4 DEF Delivering
  <2> QED BY <1>1, <1>3, <1>7, <2>5, RowWrites
<1>8. ASSUME NEW w \in Workers, Settle(w), worker[w].row = r,
             outbox'[r] = Settled(outbox[r], Rollup(worker[w].got))
      PROVE  /\ outbox[r].status # "dead" /\ outbox'[r].status \in {"delivered", "dead", "queued"}
             /\ \/ outbox'[r].attempts = outbox[r].attempts /\ outbox'[r].status = "delivered"
                \/ outbox'[r].attempts = outbox[r].attempts + 1 /\ outbox'[r].status = "dead"
                \/ outbox'[r].attempts < MaxAttempts
  <2>1. outbox[r].status = "delivering" /\ worker[w].got \in SUBSET Results
    BY <1>8 DEF Settle, IInv, Working, WorkerType
  <2> QED BY <1>1, <1>8, <2>1, SettledFacts
<1>9. outbox'[r].attempts \in Nat
  BY RowSteps DEF RowType
<1>10. ASSUME NEW w \in Workers, Settle(w), worker[w].row = r,
              outbox'[r] = Settled(outbox[r], Rollup(worker[w].got))
       PROVE  /\ outbox'[r].attempts <= MaxAttempts + faults'
              /\ outbox'[r].status # "dead" => outbox'[r].attempts < MaxAttempts + faults'
              /\ ~Stale(r)'
  BY <1>1, <1>2, <1>3, <1>8, <1>9, <1>10
<1>11. RowStep(r)
  BY RowSteps
<1>12. CASE \/ outbox[r].status \in {"absent", "awaiting_config"} /\ outbox'[r] = Queued(outbox[r])
            \/ outbox[r].status = "queued" /\ outbox'[r] = Parked(outbox[r])
  BY <1>1, <1>5, <1>12, RowWrites
<1>13. ASSUME outbox[r].status = "queued", outbox'[r] = Claimed(outbox[r]),
              \E w \in Workers : MarkOutboxDelivering(w) /\ worker[w].row = r
       PROVE  /\ outbox'[r].attempts <= MaxAttempts + faults'
              /\ outbox'[r].status # "dead" => outbox'[r].attempts < MaxAttempts + faults'
              /\ ~Stale(r)'
  BY <1>1, <1>2, <1>7, <1>13
<1> QED BY <1>4, <1>6, <1>10, <1>11, <1>12, <1>13 DEF RowStep

-----------------------------------------------------------------------------
LEMMA Inductive == Spec => []IInv
<1>1. Init => IInv
  BY InitInv
<1>2. IInv /\ [Next]_vars => IInv'
  <2> SUFFICES ASSUME IInv, [Next]_vars PROVE IInv'
    OBVIOUS
  <2> QED BY TypesStep, WorkingStep, OneDeliveryStep, ProducingStep, CountedStep, BudgetStep DEF IInv
<1> QED BY <1>1, <1>2, PTL DEF Spec

\* Every variable of the outbox stays within its type, and a row is tried at
\* most once per fault beyond its budget (retryOrKill, ReclaimStaleDelivering).
THEOREM OutboxTyped == Spec => []TypeOK
<1>1. IInv => TypeOK
  <2> SUFFICES ASSUME IInv PROVE TypeOK
    OBVIOUS
  <2>1. Types /\ Budget /\ MaxFaults \in Nat /\ MaxAttempts \in Nat
    BY Shapes DEF IInv
  <2>2. ASSUME NEW r \in Rows PROVE outbox[r] \in Row
    <3>1. outbox[r] \in RowType /\ outbox[r].attempts <= MaxAttempts + faults /\ faults \in 0..MaxFaults
      BY <2>1 DEF Types, Budget
    <3>2. outbox[r].attempts \in 0..(MaxAttempts + MaxFaults)
      BY <2>1, <3>1 DEF RowType
    <3> QED BY <3>1, <3>2 DEF RowType, Row
  <2>3. outbox \in [Rows -> Row]
    BY <2>1, <2>2 DEF Types
  <2> QED BY <2>1, <2>3, Zenon DEF Types, TypeOK, ProducerType, WorkerType
<1> QED BY <1>1, Inductive, PTL

\* However many workers poll, no two of them deliver the same row: the claim
\* (MarkOutboxDelivering) lets one through and the reaper waits for it.
THEOREM NoDoubleDelivery == Spec => []OneDelivery
<1>1. IInv => OneDelivery
  BY DEF IInv
<1> QED BY <1>1, Inductive, PTL

\* An address gets a notification once, and once more per restart or failed
\* write at most.
THEOREM AcceptedOncePerFault == Spec => []SentOncePerFault
<1>1. IInv => SentOncePerFault
  <2> SUFFICES ASSUME IInv, NEW r \in Rows, NEW a \in DOMAIN accepted[r]
               PROVE  accepted[r][a] <= 1 + faults
    BY DEF SentOncePerFault
  <2>1. a \in Devices \cup {Mailbox}
    BY InvTypes
  <2> QED BY <2>1 DEF IInv, Counted
<1> QED BY <1>1, Inductive, PTL

\* Whoever gets a push or a mail has the entry in the bell, also when Enqueue
\* fails half-way.
THEOREM BellComesFirst == Spec => []BellFirst
<1>1. IInv => BellFirst
  BY DEF IInv
<1> QED BY <1>1, Inductive, PTL

\* A row is given up only for an error that will not pass or when its
\* attempts are spent (retryOrKill).
THEOREM KilledOnlyWhenSpent == Spec => KilledWhenSpent
<1>1. ASSUME IInv, [Next]_vars
      PROVE  \A w \in Workers : worker[w].pc = "send" =>
                LET r == worker[w].row IN
                outbox[r].status # "dead" /\ outbox'[r].status = "dead"
                    => "permanent" \in worker[w].got \/ outbox'[r].attempts >= MaxAttempts
  <2> SUFFICES ASSUME NEW w \in Workers, NEW r, r = worker[w].row, worker[w].pc = "send",
                      outbox[r].status # "dead", outbox'[r].status = "dead"
               PROVE  "permanent" \in worker[w].got \/ outbox'[r].attempts >= MaxAttempts
    BY <1>1
  <2>1. r \in Rows /\ outbox[r] \in RowType /\ outbox[r].status = "delivering" /\ RowStep(r)
    BY <1>1, InvTypes, RowSteps DEF IInv, Working
  <2>2. ~Stale(r)
    BY DEF Stale, Delivering
  <2>3. PICK v \in Workers : /\ Settle(v) /\ worker[v].row = r
                             /\ outbox'[r] = Settled(outbox[r], Rollup(worker[v].got))
    BY <2>1, <2>2 DEF RowStep
  <2>4. v = w
    BY <1>1, <2>1, <2>3 DEF IInv, OneDelivery, Delivering, Settle
  <2>5. worker[w].got \in SUBSET Results
    BY <1>1, InvTypes DEF WorkerType
  <2> QED BY <2>1, <2>3, <2>4, <2>5, SettledFacts
<1>2. IInv /\ [Next]_vars => [\A w \in Workers : worker[w].pc = "send" =>
                LET r == worker[w].row IN
                outbox[r].status # "dead" /\ outbox'[r].status = "dead"
                    => "permanent" \in worker[w].got \/ outbox'[r].attempts >= MaxAttempts]_vars
  BY <1>1
<1> QED BY <1>2, Inductive, PTL DEF Spec, KilledWhenSpent

-----------------------------------------------------------------------------
(* The outbox implements AtLeastOnce. *)

States == [r \in Rows |-> State(r)]
Got == {r \in Rows : \E a \in DOMAIN accepted[r] : accepted[r][a] > 0}
Mail == {r \in Rows : Channel(r) = "email"}

LEMMA StateOf ==
    ASSUME NEW r \in Rows
    PROVE  /\ outbox[r].status = "absent" => State(r) = "none"
           /\ outbox[r].status = "delivered" => State(r) = "done"
           /\ outbox[r].status = "dead" => State(r) = "lost"
           /\ outbox[r].status \in {"queued", "delivering", "awaiting_config"} => State(r) = "pending"
  BY DEF State

LEMMA OneRow ==
    ASSUME NEW r \in Rows, NEW x, outbox \in [Rows -> RowType], outbox' = [outbox EXCEPT ![r] = x]
    PROVE  States' = [States EXCEPT ![r] = State(r)'] /\ outbox'[r] = x
<1>1. outbox'[r] = x /\ \A q \in Rows : q # r => outbox'[q] = outbox[q]
  OBVIOUS
<1>2. \A q \in Rows : q # r => State(q)' = State(q)
  BY <1>1 DEF State
<1> QED BY <1>1, <1>2 DEF States

LEMMA Still ==
    ASSUME \A r \in Rows : State(r)' = State(r)
    PROVE  States' = States
  BY DEF States

LEMMA PromiseStep ==
    ASSUME IInv, [Next]_vars
    PROVE  [\E m \in Rows :
               \/ /\ States[m] = "none" /\ States' = [States EXCEPT ![m] = "pending"]
                  /\ UNCHANGED Got
               \/ /\ States[m] = "pending" /\ Got' = Got \cup {m} /\ UNCHANGED States
               \/ /\ States[m] = "pending" /\ (m \in Mail => m \in Got)
                  /\ States' = [States EXCEPT ![m] = "done"] /\ UNCHANGED Got
               \/ /\ States[m] = "pending" /\ States' = [States EXCEPT ![m] = "lost"]
                  /\ UNCHANGED Got]_<<States, Got>>
<1> USE InvTypes
<1> DEFINE Post(m) == /\ States[m] = "none" /\ States' = [States EXCEPT ![m] = "pending"]
                      /\ UNCHANGED Got
           Accept(m) == States[m] = "pending" /\ Got' = Got \cup {m} /\ UNCHANGED States
           Finish(m) == /\ States[m] = "pending" /\ (m \in Mail => m \in Got)
                        /\ States' = [States EXCEPT ![m] = "done"] /\ UNCHANGED Got
           GiveUp(m) == /\ States[m] = "pending" /\ States' = [States EXCEPT ![m] = "lost"]
                        /\ UNCHANGED Got
           P == (\E m \in Rows : Post(m) \/ Accept(m) \/ Finish(m) \/ GiveUp(m))
                \/ UNCHANGED <<States, Got>>
<1>0. \A r \in Rows : States[r] = State(r)
  BY DEF States
<1>1. ASSUME NEW r \in Rows, outbox[r].status = "absent", UNCHANGED accepted,
             outbox' = [outbox EXCEPT ![r] = Queued(outbox[r])]
      PROVE  P
  <2>1. States' = [States EXCEPT ![r] = State(r)'] /\ outbox'[r] = Queued(outbox[r])
    BY <1>1, OneRow
  <2>2. outbox'[r].status = "queued"
    BY <2>1, RowWrites
  <2>3. State(r) = "none" /\ State(r)' = "pending"
    BY <1>1, <2>2, StateOf DEF State
  <2> QED BY <1>0, <1>1, <2>1, <2>3 DEF Got
<1>2. ASSUME NEW c \in Channels, InsertRow(c) PROVE P
  <2>1. /\ outbox[<<producer.user, c>>].status = "absent" /\ <<producer.user, c>> \in Rows
    BY <1>2, Shapes DEF InsertRow, IInv, Producing
  <2>2. outbox' = [outbox EXCEPT ![<<producer.user, c>>] = Queued(outbox[<<producer.user, c>>])]
    BY <1>2 DEF InsertRow, Queued
  <2>3. UNCHANGED accepted
    BY <1>2 DEF InsertRow
  <2> HIDE DEF P
  <2> QED BY <1>1, <2>1, <2>2, <2>3
<1>3. ASSUME NEW i \in Invites, EnqueueTransactionalEmail(i) PROVE P
  <2>1. /\ outbox' = [outbox EXCEPT ![i] = Queued(outbox[i])] /\ outbox[i].status = "absent"
        /\ UNCHANGED accepted /\ i \in Rows
    BY <1>3, Shapes DEF EnqueueTransactionalEmail, Queued
  <2> HIDE DEF P
  <2> QED BY <1>1, <2>1
<1>4. ASSUME NEW w \in Workers, NEW a \in worker[w].todo, NEW result \in Results, Send(w, a, result)
      PROVE  P
  <2> DEFINE r == worker[w].row
  <2>1. UNCHANGED outbox /\ r \in Rows /\ outbox[r].status = "delivering"
    BY <1>4 DEF Send, IInv, Working
  <2>2. UNCHANGED States /\ States[r] = "pending"
    BY <1>0, <2>1, StateOf DEF States, State
  <2>3. CASE result # "ok"
    BY <1>4, <2>2, <2>3 DEF Send, Got
  <2>4. CASE result = "ok"
    <3>1. accepted' = [accepted EXCEPT ![r][a] = accepted[r][a] + 1] /\ a \in Devices \cup {Mailbox}
      BY <1>4, <2>4 DEF Send, WorkerType
    <3>2. /\ accepted'[r][a] > 0 /\ a \in DOMAIN accepted'[r]
          /\ \A q \in Rows : q # r => accepted'[q] = accepted[q]
          /\ \A b \in DOMAIN accepted[r] : b # a => accepted'[r][b] = accepted[r][b]
      BY <2>1, <3>1
    <3>3. DOMAIN accepted'[r] = DOMAIN accepted[r]
      BY <2>1, <3>1
    <3>4. Got' = Got \cup {r}
      BY <2>1, <3>2, <3>3 DEF Got
    <3> QED BY <2>1, <2>2, <3>4
  <2> QED BY <2>3, <2>4
<1>5. ASSUME NEW w \in Workers, Settle(w) PROVE P
  <2>0. PICK r \in Rows : r = worker[w].row
    BY <1>5 DEF Settle, IInv, Working
  <2> DEFINE x == Settled(outbox[r], Rollup(worker[w].got))
  <2>1. /\ r \in Rows /\ outbox[r].status = "delivering" /\ worker[w].got \in SUBSET Results
        /\ worker[w].todo = {} /\ Mailing(w)
        /\ "ok" \in worker[w].got => \E a \in Devices \cup {Mailbox} : accepted[r][a] > 0
    BY <1>5, <2>0 DEF Settle, IInv, Working, WorkerType
  <2>2. outbox' = [outbox EXCEPT ![r] = x] /\ UNCHANGED accepted
    BY <1>5, <2>0 DEF Settle
  <2>3. States' = [States EXCEPT ![r] = State(r)'] /\ outbox'[r] = x
    BY <2>1, <2>2, OneRow
  <2>4. \/ x.status = "delivered" /\ Rollup(worker[w].got) = "ok"
        \/ x.status \in {"dead", "queued"}
    BY <2>1, SettledFacts
  <2>5. States[r] = "pending" /\ UNCHANGED Got
    BY <1>0, <2>1, <2>2, StateOf DEF Got
  <2>6. /\ x.status = "delivered" => State(r)' = "done"
        /\ x.status = "dead" => State(r)' = "lost"
        /\ x.status = "queued" => State(r)' = "pending"
    BY <2>3 DEF State
  <2>7. ASSUME Rollup(worker[w].got) = "ok", r \in Mail PROVE r \in Got
    <3>1. "gone" \notin worker[w].got /\ worker[w].got # {}
      BY <2>0, <2>1, <2>7 DEF Mailing, Mail
    <3>2. "ok" \in worker[w].got
      BY <2>1, <2>7, <3>1 DEF Rollup, Results
    <3> QED BY <2>1, <3>2 DEF Got
  <2>8. CASE x.status = "delivered"
    BY <2>1, <2>3, <2>4, <2>5, <2>6, <2>7, <2>8
  <2>9. CASE x.status = "dead"
    BY <2>1, <2>3, <2>5, <2>6, <2>9
  <2>10. CASE x.status = "queued"
    <3>1. States' = States
      BY <2>1, <2>3, <2>5, <2>6, <2>10 DEF States
    <3> QED BY <2>5, <3>1
  <2> QED BY <2>4, <2>8, <2>9, <2>10
<1>6. ASSUME NEW w \in Workers, \/ ReclaimStaleDelivering(w) \/ MarkOutboxAwaitingConfig(w)
                                \/ MarkOutboxDelivering(w)
      PROVE  UNCHANGED <<States, Got>>
  <2>1. UNCHANGED accepted
    BY <1>6 DEF ReclaimStaleDelivering, MarkOutboxAwaitingConfig, MarkOutboxDelivering
  <2>2. ASSUME NEW r \in Rows PROVE State(r)' = State(r)
    <3>1. \/ outbox'[r] = outbox[r]
          \/ /\ outbox[r].status \in {"queued", "delivering"}
             /\ outbox'[r].status \in {"queued", "delivering", "awaiting_config"}
      <4>1. CASE ReclaimStaleDelivering(w)
        BY <4>1 DEF ReclaimStaleDelivering, Stale
      <4>2. CASE MarkOutboxAwaitingConfig(w)
        BY <4>2 DEF MarkOutboxAwaitingConfig, RowType
      <4>3. CASE MarkOutboxDelivering(w)
        BY <4>3 DEF MarkOutboxDelivering, RowType
      <4> QED BY <1>6, <4>1, <4>2, <4>3
    <3> QED BY <3>1 DEF State
  <2> QED BY <2>1, <2>2, Still DEF Got
<1>7. RequeueAwaitingConfig => UNCHANGED <<States, Got>>
  <2> SUFFICES ASSUME RequeueAwaitingConfig PROVE UNCHANGED <<States, Got>>
    OBVIOUS
  <2>1. ASSUME NEW r \in Rows PROVE State(r)' = State(r)
    <3>1. \/ outbox'[r] = outbox[r]
          \/ outbox[r].status = "awaiting_config" /\ outbox'[r].status = "queued"
      BY DEF RequeueAwaitingConfig, RowType
    <3> QED BY <3>1 DEF State
  <2> QED BY <2>1, Still DEF RequeueAwaitingConfig, Got
<1>8. ASSUME NEW w \in Workers,
             ListDueOutbox(w) \/ (\E r \in worker[w].batch : Handle(w, r)) \/ SettleFails(w)
      PROVE  UNCHANGED <<outbox, accepted>>
  BY <1>8 DEF ListDueOutbox, Handle, SettleFails
<1>9. \/ \E u \in Users : Enqueue(u)
      \/ NotifyWantAvailable \/ InsertFails \/ (\E enabled \in BOOLEAN : SaveProvider(enabled))
      \/ RequeueFails \/ Crash \/ UNCHANGED vars
      => UNCHANGED <<outbox, accepted>>
  BY DEF Enqueue, NotifyWantAvailable, InsertFails, SaveProvider, RequeueFails, Crash, vars
<1>10. UNCHANGED <<outbox, accepted>> => P
  BY DEF States, State, Got
<1>11. UNCHANGED <<States, Got>> => P
  OBVIOUS
<1> HIDE DEF P
<1>12. P
  BY <1>2, <1>3, <1>4, <1>5, <1>6, <1>7, <1>8, <1>9, <1>10, <1>11 DEF Next, Work, Produce
<1> QED BY <1>12 DEF P

\* The outbox keeps the promise of AtLeastOnce: nothing goes out for a row that
\* was reported delivered or dead, no row leaves either status, and a mail is
\* reported delivered only when the relay has accepted it.
THEOREM PromiseKept == Spec => PromiseSpec
<1>1. Init => Promise!AloInit
  <2> SUFFICES ASSUME Init PROVE Promise!AloInit
    OBVIOUS
  <2>1. \A r \in Rows : State(r) = "none"
    BY DEF Init, Absent, State
  <2>2. Got = {}
    BY DEF Init, Got
  <2> QED BY <2>1, <2>2 DEF Promise!AloInit, Got
<1>2. IInv /\ [Next]_vars => [Promise!AloNext]_(Promise!aloVars)
  <2> SUFFICES ASSUME IInv, [Next]_vars PROVE [Promise!AloNext]_(Promise!aloVars)
    OBVIOUS
  <2> QED BY PromiseStep DEF Promise!AloNext, Promise!Post, Promise!Accept, Promise!Finish,
                              Promise!GiveUp, Promise!aloVars, States, Got, Mail
<1> QED BY <1>1, <1>2, Inductive, PTL DEF Spec, PromiseSpec, Promise!AloSpec
=============================================================================
