---------------------------- MODULE ImportWorker ----------------------------
(***************************************************************************)
(* The import worker (jobs/import/worker.go): it places the file of a task *)
(* in the library, records it, and advances the want to 'available'.       *)
(*                                                                         *)
(* The file system and the database are two stores: the file is placed     *)
(* first, the transaction that records it follows, and the last mirror is  *)
(* a statement of its own.  A claim takes one task; the others of a batch  *)
(* wait as in_progress rows nobody else may touch.                         *)
(***************************************************************************)
EXTENDS Tables

ImpPc == {"idle", "place", "link", "commit", "available", "fail", "failwant"}

ImpState == [pc : ImpPc, task : Tasks \cup {NoTask}]

ImpIdle == [pc |-> "idle", task |-> NoTask]

ImpGoto(pc) == imp' = [imp EXCEPT !.pc = pc]

ThisTask == task[imp.task]

ImportTaskTransitions ==
    [pending     |-> {"in_progress", "cancelled"},
     in_progress |-> {"completed", "failed"},
     completed   |-> {},
     failed      |-> {},
     cancelled   |-> {}]

DestOf(t) == Dest[<<task[t].episode, job[task[t].job].release>>]

-----------------------------------------------------------------------------
\* Bug: the file is recorded without being placed.
ClaimWithoutPlacing(t) ==
    /\ imp.pc = "idle"
    /\ task[t].status = "pending"
    /\ task' = [task EXCEPT ![t].status = "in_progress"]
    /\ imp' = [pc |-> "commit", task |-> t]
    /\ UNCHANGED <<tracking, want, excl, prop, job, files, acq, dl, usr, budget>>

ClaimRunnableImportTasks(t) ==
    /\ imp.pc = "idle"
    /\ task[t].status = "pending"
    /\ task' = [task EXCEPT ![t].status = "in_progress"]
    /\ imp' = [pc |-> "place", task |-> t]
    /\ UNCHANGED <<tracking, want, excl, prop, job, files, acq, dl, usr, budget>>

\* The destination is taken: a Conflict, which is not retryable, ...
DestinationExists ==
    /\ imp.pc = "place"
    /\ DestOf(imp.task) \in disk /\ ~ThisTask.reimport
    /\ ImpGoto("fail")
    /\ UNCHANGED <<tracking, want, excl, prop, job, task, files, acq, dl, usr, budget>>

\* Bug: the old file is removed and the new one never placed.
RemoveOldOnly ==
    /\ imp.pc = "place"
    /\ DestOf(imp.task) \in disk /\ ThisTask.reimport
    /\ disk' = disk \ {DestOf(imp.task)}
    /\ ImpGoto("commit")
    /\ UNCHANGED <<tracking, want, excl, prop, job, task, filed, acq, dl, usr, budget>>

\* ... but a re-import removes the old file first.
RemoveOld ==
    /\ imp.pc = "place"
    /\ DestOf(imp.task) \in disk /\ ThisTask.reimport
    /\ disk' = disk \ {DestOf(imp.task)}
    /\ ImpGoto("link")
    /\ UNCHANGED <<tracking, want, excl, prop, job, task, filed, acq, dl, usr, budget>>

Place ==
    /\ imp.pc \in {"place", "link"}
    /\ DestOf(imp.task) \notin disk
    /\ disk' = disk \cup {DestOf(imp.task)}
    /\ ImpGoto("commit")
    /\ UNCHANGED <<tracking, want, excl, prop, job, task, filed, acq, dl, usr, budget>>

\* The file row, the task and the want, in one transaction; a live row at the
\* same path is a Conflict.  A task without a want mirrors nothing.
Commit ==
    /\ imp.pc = "commit"
    /\ IF DestOf(imp.task) \in filed
       THEN ImpGoto("fail") /\ UNCHANGED <<want, task, filed>>
       ELSE /\ filed' = filed \cup {DestOf(imp.task)}
            /\ task' = [task EXCEPT ![imp.task].status = "completed"]
            /\ MirrorWant(ThisTask.want, "imported")
            /\ ImpGoto("available")
    /\ UNCHANGED <<tracking, excl, prop, job, disk, acq, dl, usr, budget>>

MirrorAvailable ==
    /\ imp.pc = "available"
    /\ MirrorWant(ThisTask.want, "available")
    /\ imp' = ImpIdle
    /\ UNCHANGED <<tracking, excl, prop, job, task, files, acq, dl, usr, budget>>

-----------------------------------------------------------------------------
\* handleError.  A source that is gone is not retryable; a file system error is.  A
\* scheduled retry leaves the row 'in_progress', and a claim takes 'pending' rows.
ImportError ==
    /\ imp.pc \in {"place", "link", "commit"}
    /\ \/ imp.pc = "place" /\ Fault("badimport") /\ ImpGoto("fail") /\ UNCHANGED task
       \/ /\ Fault("import")
          /\ IF ThisTask.attempts + 1 >= MaxAttempts
             THEN ImpGoto("fail") /\ UNCHANGED task
             ELSE /\ task' = [task EXCEPT ![imp.task].attempts = @ + 1]
                  /\ imp' = ImpIdle
    /\ UNCHANGED <<tracking, want, excl, prop, job, files, acq, dl, usr>>

SetImportTaskFailed ==
    /\ imp.pc = "fail"
    /\ task' = [task EXCEPT ![imp.task].status = "failed"]
    /\ ImpGoto("failwant")
    /\ UNCHANGED <<tracking, want, excl, prop, job, files, acq, dl, usr, budget>>

\* Bug: the want is not told.
MirrorNothing ==
    /\ imp.pc = "failwant"
    /\ imp' = ImpIdle
    /\ UNCHANGED <<tracking, want, excl, prop, job, task, files, acq, dl, usr, budget>>

MirrorFailed ==
    /\ imp.pc = "failwant"
    /\ MirrorWant(ThisTask.want, "failed")
    /\ imp' = ImpIdle
    /\ UNCHANGED <<tracking, excl, prop, job, task, files, acq, dl, usr, budget>>

-----------------------------------------------------------------------------
ImpHandle ==
    \/ DestinationExists \/ RemoveOld \/ Place \/ Commit \/ MirrorAvailable
    \/ SetImportTaskFailed \/ MirrorFailed

ImpStep ==
    \/ \E t \in Tasks : ClaimRunnableImportTasks(t)
    \/ ImportError
    \/ ImpHandle
=============================================================================
