---------------------------- MODULE AnalysisJobs ----------------------------
(***************************************************************************)
(* Analysis jobs: the FastAPI backend inserts a row of                     *)
(* mailing.analysis_jobs, a background task of the same process posts the  *)
(* job to the n8n webhook, and the n8n workflow "07 - Execute Analysis     *)
(* Job" writes the status from its own side.  The two writers share only   *)
(* the table: nothing orders the POST's timeout, the workflow's UPDATEs    *)
(* and the user's requests.                                                *)
(*                                                                         *)
(* Sources: backend/app/api/jobs.py, services/jobs_service.py,             *)
(* services/n8n_client.py, repositories/jobs_repository.py and             *)
(* n8n/WorkFlows/07-mailingai-execute-analysis-job.json.                   *)
(*                                                                         *)
(* Every request is made by someone the access clause admits (admin or     *)
(* owner of the row): for anybody else each statement finds no row and the *)
(* request changes nothing.                                                *)
(***************************************************************************)
EXTENDS FiniteSets

CONSTANTS
    JobIds,         \* job_id values (gen_random_uuid(): never used twice)
    NoJob           \* NULL in retry_of_job_id

ASSUME NoJobAssumption == NoJob \notin JobIds

VARIABLES
    status,         \* column status of each row ("none", "deleted": no row)
    retryOf,        \* column retry_of_job_id
    task,           \* the backend's part: from the INSERT to the webhook's answer
    exec,           \* n8n's part: the execution started by the job's one POST
    requests        \* user requests between their SELECT and their statement

vars == <<status, retryOf, task, exec, requests>>

Active   == {"queued", "running"}
Terminal == {"success", "failed", "cancelled"}
JobStatus == {"none", "deleted"} \cup Active \cup Terminal

\* inserted: retry_job has inserted the row and will read it back;
\* pending: trigger_job is scheduled; posting: awaiting the webhook's answer;
\* failing: JobTriggerError caught, the row not yet marked; done: returned;
\* lost: the process died with it.
TaskState == {"none", "inserted", "pending", "posting", "failing", "done", "lost"}
InMemory  == {"inserted", "pending", "posting", "failing"}

\* sent: the POST is on the wire or waits for Mark Running; marked: Mark
\* Running has run, the webhook has not answered; working: answered, the
\* sub-workflow runs; ended: Mark Success or Mark Failed has run; undelivered:
\* n8n never ran it; aborted: it stopped after Mark Running.
ExecState == {"none", "sent", "marked", "working", "ended", "undelivered", "aborted"}
Executing == {"marked", "working"}
Started   == Executing \cup {"ended", "aborted"}

Request == [kind : {"cancel", "delete", "retry"}, job : JobIds]

Stored(j) == status[j] \notin {"none", "deleted"}

TypeOK ==
    /\ status \in [JobIds -> JobStatus]
    /\ retryOf \in [JobIds -> JobIds \cup {NoJob}]
    /\ task \in [JobIds -> TaskState]
    /\ exec \in [JobIds -> ExecState]
    /\ requests \in SUBSET Request

Init ==
    /\ status = [j \in JobIds |-> "none"]
    /\ retryOf = [j \in JobIds |-> NoJob]
    /\ task = [j \in JobIds |-> "none"]
    /\ exec = [j \in JobIds |-> "none"]
    /\ requests = {}

-----------------------------------------------------------------------------
(* Faulty variants of definitions below, for the mutation checks *)

\* The other run tables say 'error'; the CHECK of this one does not.
MarkErrorOnDispatchFailure(j) ==
    /\ task[j] = "failing"
    /\ task' = [task EXCEPT ![j] = "done"]
    /\ status' = [status EXCEPT ![j] = IF @ = "queued" THEN "error" ELSE @]
    /\ UNCHANGED <<retryOf, exec, requests>>

\* The UPDATE without AND status = 'queued'.
MarkFailedWhateverTheStatus(j) ==
    /\ task[j] = "failing"
    /\ task' = [task EXCEPT ![j] = "done"]
    /\ status' = [status EXCEPT ![j] = IF Stored(j) THEN "failed" ELSE @]
    /\ UNCHANGED <<retryOf, exec, requests>>

\* trigger_job logs the failure and leaves the row alone.
DispatchFailureOnlyLogged(j) ==
    /\ task[j] = "failing"
    /\ task' = [task EXCEPT ![j] = "done"]
    /\ UNCHANGED <<status, retryOf, exec, requests>>

\* The error output of the sub-workflow connected to nothing.
ErrorOutputNotConnected(j) ==
    /\ exec[j] = "working"
    /\ exec' = [exec EXCEPT ![j] = "ended"]
    /\ UNCHANGED <<status, retryOf, task, requests>>

\* Mark Success and Mark Failed without AND status != 'cancelled'.
MarkFinalOverCancelled(j, result) ==
    /\ exec[j] = "working"
    /\ exec' = [exec EXCEPT ![j] = "ended"]
    /\ status' = [status EXCEPT ![j] = IF Stored(j) THEN result ELSE @]
    /\ UNCHANGED <<retryOf, task, requests>>

\* Retry of a job in any status.
BeginRetryOfAny(j) ==
    /\ Stored(j)
    /\ requests' = requests \cup {[kind |-> "retry", job |-> j]}
    /\ UNCHANGED <<status, retryOf, task, exec>>

\* The delete endpoint without its status check.
BeginDeleteOfAny(j) ==
    /\ Stored(j)
    /\ requests' = requests \cup {[kind |-> "delete", job |-> j]}
    /\ UNCHANGED <<status, retryOf, task, exec>>

-----------------------------------------------------------------------------
(* User requests *)

Begin(kind, j) == requests' = requests \cup {[kind |-> kind, job |-> j]}
Finish(kind, j) ==
    /\ [kind |-> kind, job |-> j] \in requests
    /\ requests' = requests \ {[kind |-> kind, job |-> j]}

\* The foreign key of retry_of_job_id is ON DELETE SET NULL.
DeleteRows(J) ==
    /\ status' = [j \in JobIds |-> IF j \in J THEN "deleted" ELSE status[j]]
    /\ retryOf' = [j \in JobIds |-> IF retryOf[j] \in J THEN NoJob ELSE retryOf[j]]

\* POST /api/jobs: one INSERT, then the task is scheduled without any await.
CreateJob(j) ==
    /\ status[j] = "none"
    /\ status' = [status EXCEPT ![j] = "queued"]
    /\ task' = [task EXCEPT ![j] = "pending"]
    /\ UNCHANGED <<retryOf, exec, requests>>

\* POST /api/jobs/{id}/cancel: the SELECT refuses a finished job ...
BeginCancel(j) ==
    /\ status[j] \in Active
    /\ Begin("cancel", j)
    /\ UNCHANGED <<status, retryOf, task, exec>>

\* ... and the UPDATE repeats the condition, so losing the race is a 409.
CancelJob(j) ==
    /\ Finish("cancel", j)
    /\ status' = [status EXCEPT ![j] = IF @ \in Active THEN "cancelled" ELSE @]
    /\ UNCHANGED <<retryOf, task, exec>>

\* DELETE /api/jobs/{id}: the SELECT refuses an active job ...
BeginDelete(j) ==
    /\ status[j] \in Terminal
    /\ Begin("delete", j)
    /\ UNCHANGED <<status, retryOf, task, exec>>

\* ... and the DELETE does not repeat the condition.
DeleteJob(j) ==
    /\ Finish("delete", j)
    /\ DeleteRows({j})
    /\ UNCHANGED <<task, exec>>

\* DELETE /api/jobs?scope=...: one statement with its condition inside.
\* Scopes failed, finished and all-inactive, as the statuses they select.
DeleteScopes == {{"failed"}, {"success", "failed"}, Terminal}

DeleteJobs(scope) ==
    /\ DeleteRows({j \in JobIds : status[j] \in scope})
    /\ UNCHANGED <<task, exec, requests>>

\* POST /api/jobs/{id}/retry: the SELECT admits only a failed job ...
BeginRetry(j) ==
    /\ status[j] = "failed"
    /\ Begin("retry", j)
    /\ UNCHANGED <<status, retryOf, task, exec>>

\* ... the INSERT links the new row to it: if the original is gone by then
\* the foreign key fails and nothing is inserted ...
RetryJob(original, j) ==
    /\ Finish("retry", original)
    /\ status[j] = "none"
    /\ IF Stored(original)
       THEN /\ status' = [status EXCEPT ![j] = "queued"]
            /\ retryOf' = [retryOf EXCEPT ![j] = original]
            /\ task' = [task EXCEPT ![j] = "inserted"]
       ELSE UNCHANGED <<status, retryOf, task>>
    /\ UNCHANGED exec

\* ... and the endpoint reads the new row back before it schedules the task:
\* a row deleted meanwhile is None there, and the request ends in an error.
ScheduleRetry(j) ==
    /\ task[j] = "inserted"
    /\ task' = [task EXCEPT ![j] = IF Stored(j) THEN "pending" ELSE "done"]
    /\ UNCHANGED <<status, retryOf, exec, requests>>

-----------------------------------------------------------------------------
(* trigger_job, the backend's background task *)

PostWebhook(j) ==
    /\ task[j] = "pending"
    /\ task' = [task EXCEPT ![j] = "posting"]
    /\ exec' = [exec EXCEPT ![j] = "sent"]
    /\ UNCHANGED <<status, retryOf, requests>>

\* The webhook's answer: sent after Mark Running, so the row is not queued.
WebhookAnswered(j) ==
    /\ task[j] = "posting"
    /\ exec[j] \in {"working", "ended"}
    /\ task' = [task EXCEPT ![j] = "done"]
    /\ UNCHANGED <<status, retryOf, exec, requests>>

\* httpx.HTTPError: no connection, an error status, or 5 s without an answer.
\* n8n may have received the POST all the same.
PostFails(j) ==
    /\ task[j] = "posting"
    /\ task' = [task EXCEPT ![j] = "failing"]
    /\ UNCHANGED <<status, retryOf, exec, requests>>

MarkJobFailedToDispatch(j) ==
    /\ task[j] = "failing"
    /\ task' = [task EXCEPT ![j] = "done"]
    /\ status' = [status EXCEPT ![j] = IF @ = "queued" THEN "failed" ELSE @]
    /\ UNCHANGED <<retryOf, exec, requests>>

\* The backend process dies: the tasks and requests it held are gone, and
\* nothing on start-up looks at analysis_jobs.
BackendCrash ==
    /\ task' = [j \in JobIds |-> IF task[j] \in InMemory THEN "lost" ELSE task[j]]
    /\ requests' = {}
    /\ UNCHANGED <<status, retryOf, exec>>

-----------------------------------------------------------------------------
(* n8n workflow 07 *)

\* "Postgres: Mark Running" sets running whatever the row says.  On a row
\* that is gone it updates nothing: the node then ends the execution or hands
\* on an empty result, and the workflow does not tell the two apart.
MarkRunning(j) ==
    /\ exec[j] = "sent"
    /\ IF Stored(j)
       THEN /\ status' = [status EXCEPT ![j] = "running"]
            /\ exec' = [exec EXCEPT ![j] = "marked"]
       ELSE /\ \E e \in {"marked", "aborted"} : exec' = [exec EXCEPT ![j] = e]
            /\ UNCHANGED status
    /\ UNCHANGED <<retryOf, task, requests>>

RespondToWebhook(j) ==
    /\ exec[j] = "marked"
    /\ exec' = [exec EXCEPT ![j] = "working"]
    /\ UNCHANGED <<status, retryOf, task, requests>>

\* The sub-workflow's success or error output leads to Mark Success or Mark
\* Failed, both with AND status != 'cancelled'.
MarkFinal(j, result) ==
    /\ exec[j] = "working"
    /\ exec' = [exec EXCEPT ![j] = "ended"]
    /\ status' = [status EXCEPT ![j] =
                    IF Stored(j) /\ @ # "cancelled" THEN result ELSE @]
    /\ UNCHANGED <<retryOf, task, requests>>

MarkSuccess(j) == MarkFinal(j, "success")
MarkFailed(j)  == MarkFinal(j, "failed")

\* The POST is never delivered, n8n stops, or a node with no error output fails.
ExecutionLost(j) ==
    /\ exec[j] \in {"sent"} \cup Executing
    /\ exec' = [exec EXCEPT ![j] = IF @ = "sent" THEN "undelivered" ELSE "aborted"]
    /\ UNCHANGED <<status, retryOf, task, requests>>

-----------------------------------------------------------------------------
UserStep(j) ==
    \/ CreateJob(j)
    \/ BeginCancel(j) \/ CancelJob(j)
    \/ BeginDelete(j) \/ DeleteJob(j)
    \/ BeginRetry(j) \/ (\E new \in JobIds : RetryJob(j, new)) \/ ScheduleRetry(j)

TaskStep(j) ==
    PostWebhook(j) \/ WebhookAnswered(j) \/ PostFails(j) \/ MarkJobFailedToDispatch(j)

ExecStep(j) ==
    MarkRunning(j) \/ RespondToWebhook(j) \/ MarkSuccess(j) \/ MarkFailed(j)

Next ==
    \/ \E j \in JobIds : UserStep(j) \/ TaskStep(j) \/ ExecStep(j) \/ ExecutionLost(j)
    \/ \E scope \in DeleteScopes : DeleteJobs(scope)
    \/ BackendCrash

Spec == Init /\ [][Next]_vars

\* The event loop runs every scheduled coroutine (httpx ends each POST within
\* its timeout) and n8n runs every node of an execution that is alive.  Users
\* owe nothing, and neither process has to crash.
Fairness ==
    \A j \in JobIds :
        /\ WF_vars(ScheduleRetry(j))
        /\ WF_vars(TaskStep(j))
        /\ WF_vars(ExecStep(j))

FairSpec == Spec /\ Fairness

-----------------------------------------------------------------------------
(* Properties *)

\* An execution at work is never hidden behind a finished status: its row says
\* running, unless a user cancelled or deleted it.  In particular the guard of
\* mark_job_failed_to_dispatch keeps a late timeout from calling it failed.
RunningExecutionIsVisible ==
    \A j \in JobIds : exec[j] \in Executing => status[j] \in {"running", "cancelled", "deleted"}

\* A row says running only while its execution is at work, or was aborted: the
\* stuck jobs of OPERATIONS.md all come from an execution that died, none from
\* a path of the workflow that forgets to write the result.
RunningHasExecution ==
    \A j \in JobIds : status[j] = "running" => exec[j] \in Executing \cup {"aborted"}

\* trigger_job's promise: a job is not left in queued once its dispatch is over;
\* only the death of the backend leaves a queued row with nobody to post it.
QueuedHasDispatcher ==
    \A j \in JobIds : status[j] = "queued" => task[j] \in InMemory \cup {"lost"}

\* retry_of_job_id points to a row that exists and has already left the queue,
\* so the two attempts never both wait to be dispatched for the first time.
RetryFollowsItsOriginal ==
    \A j \in JobIds : retryOf[j] # NoJob =>
        /\ status[retryOf[j]] \notin {"none", "queued", "deleted"}
        /\ retryOf[j] # j

\* Once n8n has started the job, whatever finished status the row takes stays
\* until the row is deleted: the cancellation holds against Mark Success and
\* Mark Failed, the result holds against a late timeout or cancellation.
SettledIsFinal ==
    [][\A j \in JobIds :
        status[j] \in Terminal /\ exec[j] \in Started
            => status'[j] \in {status[j], "deleted"}]_vars

\* With both processes fair, a queued job is dispatched or failed unless the
\* backend died with its task ...
QueuedIsResolved ==
    \A j \in JobIds : (status[j] = "queued") ~> (status[j] # "queued" \/ task[j] = "lost")

\* ... and a running one ends unless its execution was aborted.
RunningIsResolved ==
    \A j \in JobIds : (status[j] = "running") ~> (status[j] # "running" \/ exec[j] = "aborted")

\* What the status column alone promises (module JobLifecycle).
Lifecycle == INSTANCE JobLifecycle WITH
    started <- {j \in JobIds : exec[j] \in Started}

ImplementsLifecycle == Lifecycle!Spec

\* The documented effect of a cancellation: the execution's result does not
\* overwrite cancelled (jobs_repository.cancel_job, OPERATIONS.md).
CancelledIsKept ==
    [][\A j \in JobIds :
        status[j] = "cancelled" => status'[j] \in {"cancelled", "deleted"}]_vars

\* retry_job's docstring: the original job is not modified, jobs are immutable
\* historical records.  The code does not keep it, and no configuration lists
\* it: Mark Running revives an original whose webhook timed out.
RetriedOriginalIsKept ==
    [][\A j, k \in JobIds :
        retryOf[k] = j => status'[j] \in {status[j], "deleted"}]_vars
=============================================================================
