------------------------- MODULE AnalysisJobsProofs -------------------------
(***************************************************************************)
(* TLAPS proofs about AnalysisJobs: type correctness, the four safety      *)
(* invariants, the finality of a settled status and the implementation of  *)
(* JobLifecycle, for any set of jobs.                                      *)
(***************************************************************************)
EXTENDS AnalysisJobs, TLAPS

\* The vocabulary of the states, visible in every leaf below.
USE NoJobAssumption
USE DEF Active, Terminal, JobStatus, TaskState, InMemory, ExecState, Executing,
        Started, Request, Stored, TypeOK

-----------------------------------------------------------------------------
(* The inductive invariant *)

\* Nothing exists for a job whose row was never inserted.
NothingBeforeInsert(j) ==
    status[j] = "none" =>
        /\ task[j] = "none"
        /\ exec[j] = "none"
        /\ retryOf[j] = NoJob

\* There is no execution before the POST.
NoExecutionBeforePost(j) ==
    task[j] \in {"none", "inserted", "pending"} => exec[j] = "none"

\* The row leaves queued with Mark Running at the latest, and only n8n
\* writes success.
StartedIsNotQueued(j) == status[j] = "queued" => exec[j] \notin Started
SuccessIsStarted(j)   == status[j] = "success" => exec[j] \in Started

\* What the SELECT of a request has seen cannot be undone by later steps: the
\* row existed, and for a deletion or a retry it had left the queue.
RequestsSawTheRow ==
    \A r \in requests :
        /\ status[r.job] # "none"
        /\ r.kind \in {"delete", "retry"} => status[r.job] # "queued"

Bookkeeping ==
    \A j \in JobIds :
        /\ NothingBeforeInsert(j)
        /\ NoExecutionBeforePost(j)
        /\ StartedIsNotQueued(j)
        /\ SuccessIsStarted(j)

IInv ==
    /\ TypeOK
    /\ RunningExecutionIsVisible
    /\ RunningHasExecution
    /\ QueuedHasDispatcher
    /\ RetryFollowsItsOriginal
    /\ Bookkeeping
    /\ RequestsSawTheRow

-----------------------------------------------------------------------------
(* Every step preserves it *)

LEMMA InitEstablishes == Init => IInv
BY DEF Init, IInv, Bookkeeping, NothingBeforeInsert,
              NoExecutionBeforePost, StartedIsNotQueued, SuccessIsStarted,
              RequestsSawTheRow, RunningExecutionIsVisible, RunningHasExecution,
              QueuedHasDispatcher, RetryFollowsItsOriginal

\* The user's requests.  CreateJob and RetryJob take a row that was none, so by
\* NothingBeforeInsert nothing else knows the job yet; the second halves of the
\* requests rely on RequestsSawTheRow.
LEMMA UserStepKeeps ==
    ASSUME IInv, NEW j \in JobIds, UserStep(j)
    PROVE  IInv'
<1>1. CASE CreateJob(j)
  BY <1>1 DEF CreateJob, IInv, Bookkeeping, NothingBeforeInsert,
              NoExecutionBeforePost, StartedIsNotQueued, SuccessIsStarted,
              RequestsSawTheRow, RunningExecutionIsVisible, RunningHasExecution,
              QueuedHasDispatcher, RetryFollowsItsOriginal
<1>2. CASE BeginCancel(j)
  BY <1>2 DEF BeginCancel, Begin, IInv, Bookkeeping, NothingBeforeInsert,
              NoExecutionBeforePost, StartedIsNotQueued, SuccessIsStarted,
              RequestsSawTheRow, RunningExecutionIsVisible, RunningHasExecution,
              QueuedHasDispatcher, RetryFollowsItsOriginal
<1>3. CASE CancelJob(j)
  BY <1>3 DEF CancelJob, Finish, IInv, Bookkeeping, NothingBeforeInsert,
              NoExecutionBeforePost, StartedIsNotQueued, SuccessIsStarted,
              RequestsSawTheRow, RunningExecutionIsVisible, RunningHasExecution,
              QueuedHasDispatcher, RetryFollowsItsOriginal
<1>4. CASE BeginDelete(j)
  BY <1>4 DEF BeginDelete, Begin, IInv, Bookkeeping, NothingBeforeInsert,
              NoExecutionBeforePost, StartedIsNotQueued, SuccessIsStarted,
              RequestsSawTheRow, RunningExecutionIsVisible, RunningHasExecution,
              QueuedHasDispatcher, RetryFollowsItsOriginal
<1>5. CASE DeleteJob(j)
  BY <1>5 DEF DeleteJob, Finish, DeleteRows, IInv, Bookkeeping, NothingBeforeInsert,
              NoExecutionBeforePost, StartedIsNotQueued, SuccessIsStarted,
              RequestsSawTheRow, RunningExecutionIsVisible, RunningHasExecution,
              QueuedHasDispatcher, RetryFollowsItsOriginal
<1>6. CASE BeginRetry(j)
  BY <1>6 DEF BeginRetry, Begin, IInv, Bookkeeping, NothingBeforeInsert,
              NoExecutionBeforePost, StartedIsNotQueued, SuccessIsStarted,
              RequestsSawTheRow, RunningExecutionIsVisible, RunningHasExecution,
              QueuedHasDispatcher, RetryFollowsItsOriginal
<1>7. ASSUME NEW new \in JobIds, RetryJob(j, new)
     PROVE  IInv'
  BY <1>7 DEF RetryJob, Finish, IInv, Bookkeeping, NothingBeforeInsert,
              NoExecutionBeforePost, StartedIsNotQueued, SuccessIsStarted,
              RequestsSawTheRow, RunningExecutionIsVisible, RunningHasExecution,
              QueuedHasDispatcher, RetryFollowsItsOriginal
<1>8. CASE ScheduleRetry(j)
  BY <1>8 DEF ScheduleRetry, IInv, Bookkeeping, NothingBeforeInsert,
              NoExecutionBeforePost, StartedIsNotQueued, SuccessIsStarted,
              RequestsSawTheRow, RunningExecutionIsVisible, RunningHasExecution,
              QueuedHasDispatcher, RetryFollowsItsOriginal
<1>9. QED
  BY <1>1, <1>2, <1>3, <1>4, <1>5, <1>6, <1>7, <1>8 DEF UserStep

\* The background task.  PostWebhook needs NoExecutionBeforePost, the guard of
\* MarkJobFailedToDispatch and StartedIsNotQueued keep a started job visible.
LEMMA TaskStepKeeps ==
    ASSUME IInv, NEW j \in JobIds, TaskStep(j)
    PROVE  IInv'
<1>1. CASE PostWebhook(j)
  BY <1>1 DEF PostWebhook, IInv, Bookkeeping, NothingBeforeInsert,
              NoExecutionBeforePost, StartedIsNotQueued, SuccessIsStarted,
              RequestsSawTheRow, RunningExecutionIsVisible, RunningHasExecution,
              QueuedHasDispatcher, RetryFollowsItsOriginal
<1>2. CASE WebhookAnswered(j)
  BY <1>2 DEF WebhookAnswered, IInv, Bookkeeping, NothingBeforeInsert,
              NoExecutionBeforePost, StartedIsNotQueued, SuccessIsStarted,
              RequestsSawTheRow, RunningExecutionIsVisible, RunningHasExecution,
              QueuedHasDispatcher, RetryFollowsItsOriginal
<1>3. CASE PostFails(j)
  BY <1>3 DEF PostFails, IInv, Bookkeeping, NothingBeforeInsert,
              NoExecutionBeforePost, StartedIsNotQueued, SuccessIsStarted,
              RequestsSawTheRow, RunningExecutionIsVisible, RunningHasExecution,
              QueuedHasDispatcher, RetryFollowsItsOriginal
<1>4. CASE MarkJobFailedToDispatch(j)
  BY <1>4 DEF MarkJobFailedToDispatch, IInv, Bookkeeping, NothingBeforeInsert,
              NoExecutionBeforePost, StartedIsNotQueued, SuccessIsStarted,
              RequestsSawTheRow, RunningExecutionIsVisible, RunningHasExecution,
              QueuedHasDispatcher, RetryFollowsItsOriginal
<1>5. QED
  BY <1>1, <1>2, <1>3, <1>4 DEF TaskStep

\* The n8n execution.  Mark Success and Mark Failed meet a row that is running,
\* cancelled or deleted (RunningExecutionIsVisible).
LEMMA ExecStepKeeps ==
    ASSUME IInv, NEW j \in JobIds, ExecStep(j) \/ ExecutionLost(j)
    PROVE  IInv'
<1>1. CASE MarkRunning(j)
  BY <1>1 DEF MarkRunning, IInv, Bookkeeping, NothingBeforeInsert,
              NoExecutionBeforePost, StartedIsNotQueued, SuccessIsStarted,
              RequestsSawTheRow, RunningExecutionIsVisible, RunningHasExecution,
              QueuedHasDispatcher, RetryFollowsItsOriginal
<1>2. CASE RespondToWebhook(j)
  BY <1>2 DEF RespondToWebhook, IInv, Bookkeeping, NothingBeforeInsert,
              NoExecutionBeforePost, StartedIsNotQueued, SuccessIsStarted,
              RequestsSawTheRow, RunningExecutionIsVisible, RunningHasExecution,
              QueuedHasDispatcher, RetryFollowsItsOriginal
<1>3. CASE MarkSuccess(j)
  BY <1>3 DEF MarkSuccess, MarkFinal, IInv, Bookkeeping, NothingBeforeInsert,
              NoExecutionBeforePost, StartedIsNotQueued, SuccessIsStarted,
              RequestsSawTheRow, RunningExecutionIsVisible, RunningHasExecution,
              QueuedHasDispatcher, RetryFollowsItsOriginal
<1>4. CASE MarkFailed(j)
  BY <1>4 DEF MarkFailed, MarkFinal, IInv, Bookkeeping, NothingBeforeInsert,
              NoExecutionBeforePost, StartedIsNotQueued, SuccessIsStarted,
              RequestsSawTheRow, RunningExecutionIsVisible, RunningHasExecution,
              QueuedHasDispatcher, RetryFollowsItsOriginal
<1>5. CASE ExecutionLost(j)
  BY <1>5 DEF ExecutionLost, IInv, Bookkeeping, NothingBeforeInsert,
              NoExecutionBeforePost, StartedIsNotQueued, SuccessIsStarted,
              RequestsSawTheRow, RunningExecutionIsVisible, RunningHasExecution,
              QueuedHasDispatcher, RetryFollowsItsOriginal
<1>6. QED
  BY <1>1, <1>2, <1>3, <1>4, <1>5 DEF ExecStep

\* The two steps that touch many rows at once.
LEMMA DeleteJobsKeeps ==
    ASSUME IInv, NEW scope \in DeleteScopes, DeleteJobs(scope)
    PROVE  IInv'
BY DEF DeleteJobs, DeleteRows, DeleteScopes, IInv, Bookkeeping, NothingBeforeInsert,
              NoExecutionBeforePost, StartedIsNotQueued, SuccessIsStarted,
              RequestsSawTheRow, RunningExecutionIsVisible, RunningHasExecution,
              QueuedHasDispatcher, RetryFollowsItsOriginal

LEMMA BackendCrashKeeps ==
    ASSUME IInv, BackendCrash
    PROVE  IInv'
BY DEF BackendCrash, IInv, Bookkeeping, NothingBeforeInsert,
              NoExecutionBeforePost, StartedIsNotQueued, SuccessIsStarted,
              RequestsSawTheRow, RunningExecutionIsVisible, RunningHasExecution,
              QueuedHasDispatcher, RetryFollowsItsOriginal

LEMMA NextKeeps == IInv /\ [Next]_vars => IInv'
<1> SUFFICES ASSUME IInv, [Next]_vars
             PROVE  IInv'
  OBVIOUS
<1>1. ASSUME NEW j \in JobIds, UserStep(j) \/ TaskStep(j) \/ ExecStep(j) \/ ExecutionLost(j)
      PROVE  IInv'
  BY <1>1, UserStepKeeps, TaskStepKeeps, ExecStepKeeps
<1>2. ASSUME NEW scope \in DeleteScopes, DeleteJobs(scope)
      PROVE  IInv'
  BY <1>2, DeleteJobsKeeps
<1>3. CASE BackendCrash
  BY <1>3, BackendCrashKeeps
<1>4. CASE UNCHANGED vars
  BY <1>4 DEF vars, IInv, Bookkeeping, NothingBeforeInsert,
              NoExecutionBeforePost, StartedIsNotQueued, SuccessIsStarted,
              RequestsSawTheRow, RunningExecutionIsVisible, RunningHasExecution,
              QueuedHasDispatcher, RetryFollowsItsOriginal
<1>5. QED
  BY <1>1, <1>2, <1>3, <1>4 DEF Next

THEOREM InductiveInvariant == Spec => []IInv
<1>1. Init => IInv
  BY InitEstablishes
<1>2. IInv /\ [Next]_vars => IInv'
  BY NextKeeps
<1>3. QED
  BY <1>1, <1>2, PTL DEF Spec

-----------------------------------------------------------------------------
(* The results *)

\* Every column and every program counter stays within its values.
THEOREM TypeCorrect == Spec => []TypeOK
<1>1. IInv => TypeOK
  BY DEF IInv
<1>2. QED
  BY <1>1, InductiveInvariant, PTL

\* No execution at work is hidden behind a success, a failure or a queued row.
THEOREM ExecutionsAreVisible == Spec => []RunningExecutionIsVisible
<1>1. IInv => RunningExecutionIsVisible
  BY DEF IInv
<1>2. QED
  BY <1>1, InductiveInvariant, PTL

\* A running row has an execution at work or one that was aborted.
THEOREM RunningIsBacked == Spec => []RunningHasExecution
<1>1. IInv => RunningHasExecution
  BY DEF IInv
<1>2. QED
  BY <1>1, InductiveInvariant, PTL

\* A queued row has a task that will post it, or one that died with the backend.
THEOREM QueuedIsDispatched == Spec => []QueuedHasDispatcher
<1>1. IInv => QueuedHasDispatcher
  BY DEF IInv
<1>2. QED
  BY <1>1, InductiveInvariant, PTL

\* A retry and its original never both wait in the queue.
THEOREM RetriesFollow == Spec => []RetryFollowsItsOriginal
<1>1. IInv => RetryFollowsItsOriginal
  BY DEF IInv
<1>2. QED
  BY <1>1, InductiveInvariant, PTL

\* A finished status of a started job changes only by deletion of its row.
SettledStep ==
    \A j \in JobIds :
        status[j] \in Terminal /\ exec[j] \in Started
            => status'[j] \in {status[j], "deleted"}

LEMMA StepsKeepSettled == IInv /\ Next => SettledStep
<1> SUFFICES ASSUME IInv, Next, NEW k \in JobIds,
                    status[k] \in Terminal, exec[k] \in Started
             PROVE  status'[k] \in {status[k], "deleted"}
  BY DEF SettledStep
<1> USE DEF IInv, RunningExecutionIsVisible, RequestsSawTheRow
<1>1. ASSUME NEW j \in JobIds, UserStep(j)
      PROVE  status'[k] \in {status[k], "deleted"}
  BY <1>1 DEF UserStep, CreateJob, BeginCancel, CancelJob, BeginDelete, DeleteJob,
              DeleteRows, BeginRetry, RetryJob, ScheduleRetry
<1>2. ASSUME NEW j \in JobIds, TaskStep(j)
      PROVE  status'[k] \in {status[k], "deleted"}
  BY <1>2 DEF TaskStep, PostWebhook, WebhookAnswered, PostFails, MarkJobFailedToDispatch
<1>3. ASSUME NEW j \in JobIds, ExecStep(j) \/ ExecutionLost(j)
      PROVE  status'[k] \in {status[k], "deleted"}
  BY <1>3 DEF ExecStep, MarkRunning, RespondToWebhook, MarkSuccess, MarkFailed,
              MarkFinal, ExecutionLost
<1>4. ASSUME NEW scope \in DeleteScopes, DeleteJobs(scope)
      PROVE  status'[k] \in {status[k], "deleted"}
  BY <1>4 DEF DeleteScopes, DeleteJobs, DeleteRows
<1>5. CASE BackendCrash
  BY <1>5 DEF BackendCrash
<1>6. QED
  BY <1>1, <1>2, <1>3, <1>4, <1>5 DEF Next

THEOREM SettledStaysSettled == Spec => SettledIsFinal
<1>1. IInv /\ [Next]_vars => [SettledStep]_vars
  BY StepsKeepSettled
<1>2. SettledIsFinal <=> [][SettledStep]_vars
  BY DEF SettledIsFinal, SettledStep
<1>3. QED
  BY <1>1, <1>2, InductiveInvariant, PTL DEF Spec

-----------------------------------------------------------------------------
(* AnalysisJobs implements JobLifecycle *)

USE DEF Lifecycle!Active, Lifecycle!Terminal, Lifecycle!Stored

\* Each step of the two processes is a step of the job the client sees, or
\* changes neither its status nor whether it was started.
LEMMA InitRefines == Init => Lifecycle!Init
BY DEF Init, Lifecycle!Init

LEMMA UserStepRefines ==
    ASSUME IInv, NEW j \in JobIds, UserStep(j)
    PROVE  [Lifecycle!Next]_(Lifecycle!vars)
<1> USE DEF Lifecycle!vars
<1>1. CASE CreateJob(j)
  <2>1. Lifecycle!Create(j)
    BY <1>1 DEF CreateJob, Lifecycle!Create
  <2>2. QED
    BY <2>1 DEF Lifecycle!Next, Lifecycle!JobStep
<1>2. CASE CancelJob(j)
  <2>1. CASE status[j] \in Active
    <3>1. Lifecycle!Cancel(j)
      BY <1>2, <2>1 DEF CancelJob, Lifecycle!Cancel
    <3>2. QED
      BY <3>1 DEF Lifecycle!Next, Lifecycle!JobStep
  <2>2. CASE status[j] \notin Active
    BY <1>2, <2>2 DEF CancelJob, IInv
  <2>3. QED
    BY <2>1, <2>2
<1>3. CASE DeleteJob(j)
  <2>0. status[j] \notin {"none", "queued"}
    BY <1>3 DEF DeleteJob, Finish, IInv, RequestsSawTheRow
  <2>1. CASE status[j] = "deleted"
    BY <1>3, <2>1 DEF DeleteJob, DeleteRows, IInv
  <2>2. CASE status[j] # "deleted"
    <3>1. Lifecycle!Delete({j})
      BY <1>3, <2>0, <2>2 DEF DeleteJob, DeleteRows, Lifecycle!Delete
    <3>2. QED
      BY <3>1 DEF Lifecycle!Next
  <2>3. QED
    BY <2>1, <2>2
<1>4. ASSUME NEW new \in JobIds, RetryJob(j, new)
      PROVE  [Lifecycle!Next]_(Lifecycle!vars)
  <2>1. CASE Stored(j)
    <3>1. Lifecycle!Create(new)
      BY <1>4, <2>1 DEF RetryJob, Lifecycle!Create
    <3>2. QED
      BY <3>1 DEF Lifecycle!Next, Lifecycle!JobStep
  <2>2. CASE ~Stored(j)
    BY <1>4, <2>2 DEF RetryJob
  <2>3. QED
    BY <2>1, <2>2
<1>5. CASE BeginCancel(j) \/ BeginDelete(j) \/ BeginRetry(j) \/ ScheduleRetry(j)
  BY <1>5 DEF BeginCancel, BeginDelete, BeginRetry, ScheduleRetry
<1>6. QED
  BY <1>1, <1>2, <1>3, <1>4, <1>5 DEF UserStep

LEMMA TaskStepRefines ==
    ASSUME IInv, NEW j \in JobIds, TaskStep(j)
    PROVE  [Lifecycle!Next]_(Lifecycle!vars)
<1> USE DEF Lifecycle!vars
<1>1. CASE MarkJobFailedToDispatch(j)
  <2>1. CASE status[j] = "queued"
    <3>1. Lifecycle!DispatchFails(j)
      BY <1>1, <2>1 DEF MarkJobFailedToDispatch, Lifecycle!DispatchFails, IInv,
                        Bookkeeping, StartedIsNotQueued
    <3>2. QED
      BY <3>1 DEF Lifecycle!Next, Lifecycle!JobStep
  <2>2. CASE status[j] # "queued"
    BY <1>1, <2>2 DEF MarkJobFailedToDispatch, IInv
  <2>3. QED
    BY <2>1, <2>2
\* The POST is not a start yet.
<1>2. CASE PostWebhook(j)
  BY <1>2 DEF PostWebhook, IInv, Bookkeeping, NoExecutionBeforePost
<1>3. CASE WebhookAnswered(j) \/ PostFails(j)
  BY <1>3 DEF WebhookAnswered, PostFails
<1>4. QED
  BY <1>1, <1>2, <1>3 DEF TaskStep

LEMMA ExecStepRefines ==
    ASSUME IInv, NEW j \in JobIds, ExecStep(j) \/ ExecutionLost(j)
    PROVE  [Lifecycle!Next]_(Lifecycle!vars)
<1> USE DEF Lifecycle!vars
\* Mark Running finds a row that was inserted and that nobody has started.
<1>1. CASE MarkRunning(j)
  <2>1. status[j] \notin {"none", "running", "success"}
    BY <1>1 DEF MarkRunning, IInv, Bookkeeping, NothingBeforeInsert,
                SuccessIsStarted, RunningHasExecution
  <2>2. {k \in JobIds : exec'[k] \in Started} = {k \in JobIds : exec[k] \in Started} \cup {j}
    BY <1>1 DEF MarkRunning, IInv
  <2>3. Lifecycle!Start(j)
    BY <1>1, <2>1, <2>2 DEF MarkRunning, Lifecycle!Start, IInv
  <2>4. QED
    BY <2>3 DEF Lifecycle!Next, Lifecycle!JobStep
<1>2. ASSUME NEW result \in {"success", "failed"}, MarkFinal(j, result)
      PROVE  [Lifecycle!Next]_(Lifecycle!vars)
  <2>1. UNCHANGED {k \in JobIds : exec[k] \in Started}
    BY <1>2 DEF MarkFinal, IInv
  <2>2. CASE status[j] = "running"
    <3>1. Lifecycle!Finish(j)
      BY <1>2, <2>1, <2>2 DEF MarkFinal, Lifecycle!Finish, IInv
    <3>2. QED
      BY <3>1 DEF Lifecycle!Next, Lifecycle!JobStep
  <2>3. CASE status[j] # "running"
    BY <1>2, <2>1, <2>3 DEF MarkFinal, IInv, RunningExecutionIsVisible
  <2>4. QED
    BY <2>2, <2>3
<1>3. CASE RespondToWebhook(j) \/ ExecutionLost(j)
  BY <1>3 DEF RespondToWebhook, ExecutionLost, IInv
<1>4. QED
  BY <1>1, <1>2, <1>3 DEF ExecStep, MarkSuccess, MarkFailed

LEMMA NextRefines == IInv /\ [Next]_vars => [Lifecycle!Next]_(Lifecycle!vars)
<1> SUFFICES ASSUME IInv, [Next]_vars
             PROVE  [Lifecycle!Next]_(Lifecycle!vars)
  OBVIOUS
<1>1. ASSUME NEW j \in JobIds, UserStep(j) \/ TaskStep(j) \/ ExecStep(j) \/ ExecutionLost(j)
      PROVE  [Lifecycle!Next]_(Lifecycle!vars)
  BY <1>1, UserStepRefines, TaskStepRefines, ExecStepRefines
<1>2. ASSUME NEW scope \in DeleteScopes, DeleteJobs(scope)
      PROVE  [Lifecycle!Next]_(Lifecycle!vars)
  <2> DEFINE J == {k \in JobIds : status[k] \in scope}
  <2>1. Lifecycle!Delete(J)
    BY <1>2 DEF DeleteScopes, DeleteJobs, DeleteRows, Lifecycle!Delete
  <2>2. QED
    BY <2>1 DEF Lifecycle!Next
<1>3. CASE BackendCrash \/ UNCHANGED vars
  BY <1>3 DEF BackendCrash, vars, Lifecycle!vars
<1>4. QED
  BY <1>1, <1>2, <1>3 DEF Next

\* A client that reads only the status sees a behaviour of JobLifecycle.
THEOREM LifecycleImplemented == Spec => ImplementsLifecycle
<1>1. Init => Lifecycle!Init
  BY InitRefines
<1>2. IInv /\ [Next]_vars => [Lifecycle!Next]_(Lifecycle!vars)
  BY NextRefines
<1>3. QED
  BY <1>1, <1>2, InductiveInvariant, PTL DEF Spec, ImplementsLifecycle, Lifecycle!Spec
=============================================================================
