---------------------------- MODULE JobLifecycle ----------------------------
(***************************************************************************)
(* What a row of mailing.analysis_jobs promises to a client that only      *)
(* reads its status: GET /api/jobs/{id}, the polls of the mailbox index    *)
(* and of the case batch.  The webhook, the background task, the n8n       *)
(* execution and the requests in flight are hidden; what is left of them   *)
(* is that a job is started at most once, and that whoever creates the row *)
(* does not learn whether the start comes before or after a cancellation,  *)
(* a dispatch failure or a deletion.                                       *)
(*                                                                         *)
(* AnalysisJobs implements this module; MailboxIndex uses its actions as   *)
(* the behaviour of the jobs it creates and waits for.                     *)
(***************************************************************************)
EXTENDS FiniteSets

CONSTANT JobIds     \* job_id values (gen_random_uuid(): never used twice)

VARIABLES
    status,         \* [JobIds -> JobStatus], column status
    started         \* the jobs whose n8n execution went through Mark Running

vars == <<status, started>>

Active   == {"queued", "running"}
Terminal == {"success", "failed", "cancelled"}

\* "none": not inserted yet.  "deleted": the row is gone.
JobStatus == {"none", "deleted"} \cup Active \cup Terminal

Stored(j) == status[j] \notin {"none", "deleted"}

TypeOK ==
    /\ status \in [JobIds -> JobStatus]
    /\ started \in SUBSET JobIds

Init ==
    /\ status = [j \in JobIds |-> "none"]
    /\ started = {}

Create(j) ==
    /\ status[j] = "none"
    /\ status' = [status EXCEPT ![j] = "queued"]
    /\ UNCHANGED started

\* The one start of the job: whatever the row says by then, it says running.
Start(j) ==
    /\ j \notin started
    /\ status[j] \notin {"none", "running", "success"}
    /\ started' = started \cup {j}
    /\ status' = [status EXCEPT ![j] = IF Stored(j) THEN "running" ELSE @]

DispatchFails(j) ==
    /\ j \notin started
    /\ status[j] = "queued"
    /\ status' = [status EXCEPT ![j] = "failed"]
    /\ UNCHANGED started

Finish(j) ==
    /\ j \in started
    /\ status[j] = "running"
    /\ \E s \in {"success", "failed"} : status' = [status EXCEPT ![j] = s]
    /\ UNCHANGED started

Cancel(j) ==
    /\ status[j] \in Active
    /\ status' = [status EXCEPT ![j] = "cancelled"]
    /\ UNCHANGED started

\* A row may disappear while its job runs, but never while it is queued.
\* Several go at once with the bulk DELETE.
Delete(J) ==
    /\ \A j \in J : Stored(j) /\ status[j] # "queued"
    /\ status' = [j \in JobIds |-> IF j \in J THEN "deleted" ELSE status[j]]
    /\ UNCHANGED started

JobStep(j) ==
    \/ Create(j) \/ Start(j) \/ DispatchFails(j) \/ Finish(j) \/ Cancel(j)

Next ==
    \/ \E j \in JobIds : JobStep(j)
    \/ \E J \in SUBSET JobIds : Delete(J)

Spec == Init /\ [][Next]_vars
=============================================================================
