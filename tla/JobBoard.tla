------------------------------ MODULE JobBoard ------------------------------
(***************************************************************************)
(* The downloads page over the pipeline: what became of each download job  *)
(* and its import tasks, and the chains that retries and re-imports leave  *)
(* behind (previous_job_id, previous_task_id).                             *)
(*                                                                         *)
(* A summary counts the leaves of the chains.  ReimportFailed makes its    *)
(* tasks one statement at a time, from a list read before, so the request  *)
(* being served is a local record that a restart erases.                   *)
(***************************************************************************)
EXTENDS Pipeline, Functions

VARIABLES
    previousJob,    \* the failed job a job was made to retry
    previousTask,   \* the task a task re-imports
    batch           \* tasks a ReimportFailed has yet to make a successor for

chains == <<previousJob, previousTask>>
boardVars == <<vars, previousJob, previousTask, batch>>

\* The rows a step inserts.
NewJobs == {k \in Jobs : job[k].status = "absent" /\ job'[k].status # "absent"}
NewTasks == {u \in Tasks : task[u].status = "absent" /\ task'[u].status # "absent"}

ChainTask(t) ==
    /\ previousTask' = [u \in Tasks |-> IF u \in NewTasks THEN t ELSE previousTask[u]]
    /\ UNCHANGED previousJob

-----------------------------------------------------------------------------
JobRetried(j) ==
    /\ RetryDownload(j)
    /\ previousJob' = [k \in Jobs |-> IF k \in NewJobs THEN j ELSE previousJob[k]]
    /\ UNCHANGED <<previousTask, batch>>

TaskReimported(t) == Reimport(t) /\ ChainTask(t) /\ UNCHANGED batch

TasksOf(j) == {t \in Tasks : task[t].status # "absent" /\ task[t].job = j}

Finished == {"completed", "failed", "cancelled"}

\* Bug: tasks that are not over yet, too.
ReimportEvery(j, all) ==
    /\ batch = {}
    /\ Request("reimport_failed")
    /\ batch' = {t \in TasksOf(j) : previousTask[t] = NoTask}
    /\ batch' # {}
    /\ UNCHANGED <<tracking, want, excl, prop, job, task, files, acq, dl, imp, usr, chains>>

\* The roots of the job's chains that failed, or all that came to an end.
ReimportFailed(j, all) ==
    /\ batch = {}
    /\ Request("reimport_failed")
    /\ batch' = {t \in TasksOf(j) :
                    /\ previousTask[t] = NoTask
                    /\ task[t].status \in IF all THEN Finished ELSE {"failed"}}
    /\ batch' # {}
    /\ UNCHANGED <<tracking, want, excl, prop, job, task, files, acq, dl, imp, usr, chains>>

ReimportNext(t) ==
    /\ t \in batch
    /\ \E u \in Tasks : CreateImportTask(u, task[t].job, task[t].episode, NoWant, TRUE)
    /\ ChainTask(t)
    /\ batch' = batch \ {t}
    /\ UNCHANGED <<tracking, want, excl, prop, job, files, acq, dl, imp, usr, budget>>

\* The other requests of the operator.
Ask ==
    \/ \E w \in Wants : RequestCancelWant(w)
    \/ RequestCancelTracking \/ ServeCancel \/ Reactivate
    \/ \E a \in [Segments -> Dials] : SetAutonomy(a)
    \/ \E p \in prop : Approve(p) \/ Decline(p)
    \/ \E j \in Jobs : CancelDownloadJob(j)
    \/ \E t \in Tasks : CancelImportTask(t)

BoardInit ==
    /\ Init
    /\ previousJob = [j \in Jobs |-> NoJob]
    /\ previousTask = [t \in Tasks |-> NoTask]
    /\ batch = {}

BoardNext ==
    \/ (AcqStep \/ DlStep \/ ImpStep \/ Ask) /\ UNCHANGED <<chains, batch>>
    \/ Crash /\ batch' = {} /\ UNCHANGED chains
    \/ \E j \in Jobs : JobRetried(j) \/ \E all \in BOOLEAN : ReimportFailed(j, all)
    \/ \E t \in Tasks : TaskReimported(t) \/ ReimportNext(t)

-----------------------------------------------------------------------------
Existing == {j \in Jobs : job[j].status # "absent"}

\* Bug: tasks that wait for the worker are not counted.
StartedLeaves(j) ==
    {t \in TasksOf(j) : t \notin Range(previousTask) /\ task[t].status # "pending"}

\* The newest tasks of the re-import chains of a job.
LeafTasks(j) == {t \in TasksOf(j) : t \notin Range(previousTask)}

\* Retried jobs give way to their successors.
ListedJobs == Existing \ Range(previousJob)

\* A row and what it goes back to.
History(x, previous) ==
    LET back[n \in 0..Cardinality(DOMAIN previous)] ==
            IF n = 0 THEN x
            ELSE IF back[n - 1] = 0 THEN 0 ELSE previous[back[n - 1]]
    IN Range(back) \ {0}

JobHistory(j) == History(j, previousJob)
TaskHistory(t) == History(t, previousTask)

\* The CASE of the two summary queries, whose branches exclude what is above.
importStatus(j) ==
    LET leaves == LeafTasks(j)
        having(S) == {t \in leaves : task[t].status \in S}
        settled == having({"pending", "in_progress"}) = {}
    IN CASE job[j].status \in ActiveJob -> "download_pending"
         [] job[j].status = "failed" -> "download_failed"
         [] job[j].status = "cancelled" -> "download_cancelled"
         [] job[j].status = "completed" /\ leaves = {} -> "awaiting_import"
         [] job[j].status = "completed" /\ leaves # {} /\ ~settled -> "importing"
         [] job[j].status = "completed" /\ leaves # {} /\ settled ->
            CASE having({"failed"}) = leaves -> "import_failed"
              [] having({"completed"}) = leaves -> "fully_imported"
              [] having({"failed"}) # {} /\ having({"completed"}) # {} -> "partial_failure"
              [] OTHER -> "unknown"

-----------------------------------------------------------------------------
\* A job shown as fully imported has left none of its wants behind, and the
\* file of every task that it counts is in the library; but while the workers
\* are still at it.
ShownDone ==
    \A j \in Existing :
        importStatus(j) = "fully_imported" /\ dl.job # j /\ imp.pc = "idle" =>
            /\ \A w \in job[j].wants : want[w].status \notin Claimable \cup InFlight
            /\ \A t \in LeafTasks(j) : DestOf(t) \in disk

\* What a retry or a re-import took the place of is over for good: jobs that the
\* page hides have failed, with the release of their successor, and tasks that it
\* does not count came to an end, for the episode of theirs.
HiddenIsOver ==
    /\ \A j \in Existing \ ListedJobs : job[j].status = "failed"
    /\ \A j \in Jobs : \A i \in JobHistory(j) :
          job[i].release = job[j].release
    /\ \A t \in Tasks : \A u \in TaskHistory(t) \ {t} :
          /\ task[u].status \in Finished
          /\ task[u].job = task[t].job /\ task[u].episode = task[t].episode
=============================================================================
