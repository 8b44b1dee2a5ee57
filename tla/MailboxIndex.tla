---------------------------- MODULE MailboxIndex ----------------------------
(***************************************************************************)
(* Full indexing of a mailbox.  An admin starts a run; a background task   *)
(* of the backend discovers the folders, tags them with the mailbox and    *)
(* then fetches each folder by bisecting its date range, one analysis job  *)
(* at a time: create the job, post it, poll its row until it ends, is      *)
(* cancelled or the poll gives up.  The jobs themselves live on: a poll    *)
(* that gives up, a cancellation and a restart all leave the n8n execution *)
(* at work.                                                                *)
(*                                                                         *)
(* Sources: services/mailbox_index_service.py,                             *)
(* repositories/mailbox_index_repository.py, api/admin_mailbox_index.py.   *)
(* The jobs' status follows module JobLifecycle.                           *)
(*                                                                         *)
(* Time is cut into units of the smallest window (_MIN_WINDOW_SPAN):       *)
(* Sent[f][d] messages of folder f were sent before unit d.                *)
(***************************************************************************)
EXTENDS Integers, Sequences, FiniteSets, SequencesExt

CONSTANTS
    Runs,           \* index_run_id values
    Mailboxes,
    Folders,
    OwnerOf,        \* [Folders -> Mailboxes]: the mailbox a folder really is in
    Slots,          \* rows of analysis_jobs somebody still refers to
    None,           \* NULL
    Horizon,        \* units in the whole history
    Sent,           \* [Folders -> [0..Horizon -> Nat]], a count that never falls
    NearCap,        \* _NEAR_CAP_MESSAGES
    Cap,            \* what n8n fetches at most in one job
    MaxWindows,     \* _MAX_WINDOWS_PER_FOLDER
    MaxPolls        \* _INDEX_JOB_TIMEOUT_S / _INDEX_POLL_INTERVAL_S

Units == 0 .. Horizon - 1

ASSUME CapAssumption == NearCap \in Nat \ {0} /\ Cap \in Nat /\ NearCap <= Cap
ASSUME BoundsAssumption == {MaxWindows, MaxPolls, Horizon} \subseteq Nat \ {0}
ASSUME FoldersAssumption ==
    /\ IsFiniteSet(Folders)
    /\ OwnerOf \in [Folders -> Mailboxes]
    /\ Sent \in [Folders -> [0 .. Horizon -> Nat]]
    /\ \A f \in Folders, d \in Units : Sent[f][d] <= Sent[f][d + 1]

VARIABLES
    \* mailing.mailbox_index_runs
    runStatus, runMailbox, cancelRequested, currentJob,
    \* mailing.mailbox_index_folders: status and messages_indexed
    folderStatus, counted,
    \* mailing.mail_folders: mailbox_account_id, and the rows whose
    \* last_sync_at is later than the watermark of the run that is discovering
    tag, fresh,
    \* mailing.analysis_jobs and the executions behind it
    jobStatus, started, exec, discovers,
    \* run_index, one per run: where it is and its local variables
    pc, job, polls, result, todo, windows, processed, notes,
    \* requests of the admin between their two statements
    starting, cancelling,
    \* history: the units of a folder whose messages a run has all fetched
    covered

runVars    == <<runStatus, runMailbox, cancelRequested, currentJob>>
folderVars == <<folderStatus, counted, covered>>
tagVars    == <<tag, fresh>>
jobVars    == <<jobStatus, started, exec, discovers>>
taskVars   == <<pc, job, polls, result, todo, windows, processed, notes>>
adminVars  == <<starting, cancelling>>

vars == <<runVars, folderVars, tagVars, jobVars, taskVars, adminVars>>

ActiveRun   == {"queued", "running"}
FinishedRun == {"success", "partial", "failed", "cancelled"}
IsActive(r) == runStatus[r] \in ActiveRun

Job == INSTANCE JobLifecycle WITH JobIds <- Slots, status <- jobStatus

Window == {w \in Units \X (1 .. Horizon) : w[1] < w[2]}
Span(w) == w[2] - w[1]
In(w) == w[1] .. w[2] - 1
Messages(f, w) == Sent[f][w[2]] - Sent[f][w[1]]

PC == {"idle", "queued", "watermark", "create", "created", "post", "posting", "poll",
       "cancel", "look", "result", "tag", "list", "folder", "window", "finish"}

TypeOK ==
    /\ runStatus \in [Runs -> {"none", "deleted"} \cup ActiveRun \cup FinishedRun]
    /\ runMailbox \in [Runs -> Mailboxes \cup {None}]
    /\ cancelRequested \in [Runs -> BOOLEAN]
    /\ currentJob \in [Runs -> Slots \cup {None}]
    /\ folderStatus \in [Runs -> [Folders -> {"none", "pendiente", "indexando", "listo", "parcial"}]]
    /\ counted \in [Runs -> [Folders -> Nat]]
    /\ covered \in [Runs -> [Folders -> SUBSET Units]]
    /\ tag \in [Folders -> Mailboxes \cup {None}]
    /\ fresh \in SUBSET Folders
    /\ Job!TypeOK
    /\ exec \in [Slots -> {"none", "sent", "live"}]
    /\ discovers \in [Slots -> Mailboxes \cup {None}]
    /\ pc \in [Runs -> PC]
    /\ job \in [Runs -> Slots \cup {None}]
    /\ polls \in [Runs -> 0 .. MaxPolls]
    /\ result \in [Runs -> {"ok", "error", "cancelled"}]
    /\ todo \in [Runs -> Seq(Folders)]
    /\ windows \in [Runs -> Seq(Window)]
    /\ processed \in [Runs -> 0 .. MaxWindows]
    /\ notes \in [Runs -> BOOLEAN]
    /\ starting \in SUBSET Runs
    /\ cancelling \in SUBSET Slots

Init ==
    /\ runStatus = [r \in Runs |-> "none"]
    /\ runMailbox = [r \in Runs |-> None]
    /\ cancelRequested = [r \in Runs |-> FALSE]
    /\ currentJob = [r \in Runs |-> None]
    /\ folderStatus = [r \in Runs |-> [f \in Folders |-> "none"]]
    /\ counted = [r \in Runs |-> [f \in Folders |-> 0]]
    /\ covered = [r \in Runs |-> [f \in Folders |-> {}]]
    /\ tag = [f \in Folders |-> None]
    /\ fresh = {}
    /\ Job!Init
    /\ exec = [s \in Slots |-> "none"]
    /\ discovers = [s \in Slots |-> None]
    /\ pc = [r \in Runs |-> "idle"]
    /\ job = [r \in Runs |-> None]
    /\ polls = [r \in Runs |-> 0]
    /\ result = [r \in Runs |-> "ok"]
    /\ todo = [r \in Runs |-> <<>>]
    /\ windows = [r \in Runs |-> <<>>]
    /\ processed = [r \in Runs |-> 0]
    /\ notes = [r \in Runs |-> FALSE]
    /\ starting = {}
    /\ cancelling = {}

Step(r, from, to) == pc[r] = from /\ pc' = [pc EXCEPT ![r] = to]

\* The local variables of the tasks in R go out of scope.
Return(R) ==
    /\ pc' = [r \in Runs |-> IF r \in R THEN "idle" ELSE pc[r]]
    /\ job' = [r \in Runs |-> IF r \in R THEN None ELSE job[r]]
    /\ polls' = [r \in Runs |-> IF r \in R THEN 0 ELSE polls[r]]
    /\ result' = [r \in Runs |-> IF r \in R THEN "ok" ELSE result[r]]
    /\ todo' = [r \in Runs |-> IF r \in R THEN <<>> ELSE todo[r]]
    /\ windows' = [r \in Runs |-> IF r \in R THEN <<>> ELSE windows[r]]
    /\ processed' = [r \in Runs |-> IF r \in R THEN 0 ELSE processed[r]]
    /\ notes' = [r \in Runs |-> IF r \in R THEN FALSE ELSE notes[r]]

-----------------------------------------------------------------------------
(* Faulty variants of definitions below, for the mutation checks *)

\* The INSERT without the partial unique index idx_mailbox_index_runs_one_active.
StartIndexUnchecked(r, m) ==
    /\ r \in starting
    /\ starting' = starting \ {r}
    /\ runStatus' = [runStatus EXCEPT ![r] = "queued"]
    /\ runMailbox' = [runMailbox EXCEPT ![r] = m]
    /\ pc' = [pc EXCEPT ![r] = "queued"]
    /\ UNCHANGED <<cancelRequested, currentJob, folderVars, tagVars, jobVars, job, polls,
                   result, todo, windows, processed, notes, cancelling>>

\* The cancellation closes the run itself instead of asking the task to.
CancelRunAtOnce(r) ==
    /\ IsActive(r)
    /\ ~cancelRequested[r]
    /\ cancelRequested' = [cancelRequested EXCEPT ![r] = TRUE]
    /\ runStatus' = [runStatus EXCEPT ![r] = "cancelled"]
    /\ cancelling' = cancelling \cup ({currentJob[r]} \ {None})
    /\ UNCHANGED <<runMailbox, currentJob, folderVars, tagVars, jobVars, taskVars, starting>>

\* The poll loop with <= for <.
LookAtJobOnceMore(r) ==
    LET goesOn == jobStatus[job[r]] \in Job!Active /\ polls[r] <= MaxPolls
    IN /\ Step(r, "look", IF goesOn THEN "poll" ELSE "result")
       /\ result' = [result EXCEPT ![r] =
                        IF goesOn THEN @
                        ELSE IF jobStatus[job[r]] = "success" THEN "ok" ELSE "error"]
       /\ UNCHANGED <<runVars, folderVars, tagVars, jobVars, job, polls, todo, windows,
                      processed, notes, adminVars>>

\* Only the older half of a truncated window goes on.
OlderHalfOnly(w) == << <<w[1], (w[1] + w[2]) \div 2>> >>

\* No recovery of the orphaned run on start-up.
OrphanedRunsStay == UNCHANGED <<runStatus, currentJob>>

-----------------------------------------------------------------------------
(* The admin's requests *)

\* start_index looks for an active run ...
BeginStart(r) ==
    /\ runStatus[r] = "none"
    /\ \A other \in Runs : ~IsActive(other)
    /\ starting' = starting \cup {r}
    /\ UNCHANGED <<runVars, folderVars, tagVars, jobVars, taskVars, cancelling>>

\* ... and inserts its own; the partial unique index refuses a second active
\* row (409).  The endpoint then schedules run_index.
StartIndex(r, m) ==
    /\ r \in starting
    /\ starting' = starting \ {r}
    /\ IF \A other \in Runs : ~IsActive(other)
       THEN /\ runStatus' = [runStatus EXCEPT ![r] = "queued"]
            /\ runMailbox' = [runMailbox EXCEPT ![r] = m]
            /\ pc' = [pc EXCEPT ![r] = "queued"]
       ELSE UNCHANGED <<runStatus, runMailbox, pc>>
    /\ UNCHANGED <<cancelRequested, currentJob, folderVars, tagVars, jobVars, job, polls,
                   result, todo, windows, processed, notes, cancelling>>

\* request_cancel: the flag, by one guarded UPDATE that returns the current
\* job, which the second statement cancels if it is still active.
RequestCancel(r) ==
    /\ IsActive(r)
    /\ ~cancelRequested[r]
    /\ cancelRequested' = [cancelRequested EXCEPT ![r] = TRUE]
    /\ cancelling' = cancelling \cup ({currentJob[r]} \ {None})
    /\ UNCHANGED <<runStatus, runMailbox, currentJob, folderVars, tagVars, jobVars,
                   taskVars, starting>>

CancelRow(s) ==
    jobStatus' = [jobStatus EXCEPT ![s] = IF @ \in Job!Active THEN "cancelled" ELSE @]

CancelCurrentJob(s) ==
    /\ s \in cancelling
    /\ cancelling' = cancelling \ {s}
    /\ CancelRow(s)
    /\ UNCHANGED <<runVars, folderVars, tagVars, started, exec, discovers, taskVars, starting>>

DeleteFinishedRuns ==
    /\ runStatus' = [r \in Runs |-> IF runStatus[r] \in FinishedRun THEN "deleted" ELSE runStatus[r]]
    /\ folderStatus' = [r \in Runs |->
            IF runStatus[r] \in FinishedRun THEN [f \in Folders |-> "none"] ELSE folderStatus[r]]
    /\ UNCHANGED <<runMailbox, cancelRequested, currentJob, counted, covered, tagVars, jobVars,
                   taskVars, adminVars>>

-----------------------------------------------------------------------------
(* The jobs, as module JobLifecycle lets them behave *)

\* n8n starts the execution of a POST it received, late or not.
N8nStarts(s) ==
    /\ exec[s] = "sent"
    /\ Job!Start(s)
    /\ exec' = [exec EXCEPT ![s] = "live"]
    /\ UNCHANGED <<runVars, folderVars, tagVars, discovers, taskVars, adminVars>>

\* Workflow 06 upserts the folders of its mailbox with last_sync_at = now(),
\* level by level; it does not write their mailbox_account_id.
N8nUpsertsFolders(s) ==
    /\ exec[s] = "live"
    /\ discovers[s] # None
    /\ fresh' = fresh \cup {f \in Folders : OwnerOf[f] = discovers[s]}
    /\ UNCHANGED <<runVars, folderVars, tag, jobVars, taskVars, adminVars>>

\* Mark Success or Mark Failed: on a cancelled or deleted row they change
\* nothing.  A discovery that succeeds has upserted its folders.
N8nEnds(s) ==
    /\ exec[s] = "live"
    /\ exec' = [exec EXCEPT ![s] = "none"]
    /\ IF jobStatus[s] = "running"
       THEN Job!Finish(s)
       ELSE UNCHANGED <<jobStatus, started>>
    /\ discovers[s] # None /\ jobStatus'[s] = "success" =>
          {f \in Folders : OwnerOf[f] = discovers[s]} \subseteq fresh
    /\ UNCHANGED <<runVars, folderVars, tagVars, discovers, taskVars, adminVars>>

\* The POST is never delivered, or the execution is aborted: the row stays.
N8nLoses(s) ==
    /\ exec[s] # "none"
    /\ exec' = [exec EXCEPT ![s] = "none"]
    /\ UNCHANGED <<runVars, folderVars, tagVars, jobStatus, started, discovers, taskVars, adminVars>>

\* The jobs are visible in the job list: users cancel them there, and delete
\* the finished ones.
UserCancelsJob(s) ==
    /\ Job!Cancel(s)
    /\ UNCHANGED <<runVars, folderVars, tagVars, exec, discovers, taskVars, adminVars>>

UserDeletesJob(s) ==
    /\ jobStatus[s] \in Job!Terminal
    /\ Job!Delete({s})
    /\ UNCHANGED <<runVars, folderVars, tagVars, exec, discovers, taskVars, adminVars>>

-----------------------------------------------------------------------------
(* _run_and_wait_job *)

\* A slot nobody refers to any more stands for the next row.
Free(s) ==
    /\ exec[s] = "none"
    /\ s \notin cancelling
    /\ \A r \in Runs : pc[r] # "idle" => s \notin {job[r], currentJob[r]}

Discovering(r) == todo[r] = <<>>

CreateJob(r) ==
    /\ Step(r, "create", "created")
    /\ \E s \in Slots :
          /\ Free(s)
          /\ job' = [job EXCEPT ![r] = s]
          /\ jobStatus' = [jobStatus EXCEPT ![s] = "queued"]
          /\ started' = started \ {s}
          /\ discovers' = [discovers EXCEPT ![s] =
                              IF Discovering(r) THEN runMailbox[r] ELSE None]
    /\ UNCHANGED <<runVars, folderVars, tagVars, exec, polls, result, todo, windows, processed,
                   notes, adminVars>>

SetCurrentJob(r) ==
    /\ Step(r, "created", "post")
    /\ currentJob' = [currentJob EXCEPT ![r] = job[r]]
    /\ UNCHANGED <<runStatus, runMailbox, cancelRequested, folderVars, tagVars, jobVars, job,
                   polls, result, todo, windows, processed, notes, adminVars>>

\* trigger_job, awaited here: the POST ...
PostWebhook(r) ==
    /\ Step(r, "post", "posting")
    /\ exec' = [exec EXCEPT ![job[r]] = "sent"]
    /\ UNCHANGED <<runVars, folderVars, tagVars, jobStatus, started, discovers, job, polls,
                   result, todo, windows, processed, notes, adminVars>>

\* ... is answered after Mark Running, or fails or times out: a row that is
\* still queued is then marked failed.
WebhookReturns(r) ==
    /\ Step(r, "posting", "poll")
    /\ polls' = [polls EXCEPT ![r] = 0]
    /\ \/ job[r] \in started /\ UNCHANGED jobStatus
       \/ jobStatus' = [jobStatus EXCEPT ![job[r]] = IF @ = "queued" THEN "failed" ELSE @]
    /\ UNCHANGED <<runVars, folderVars, tagVars, started, exec, discovers, job, result, todo,
                   windows, processed, notes, adminVars>>

\* After the sleep: the run's flag first ...
Poll(r) ==
    /\ Step(r, "poll", IF cancelRequested[r] THEN "cancel" ELSE "look")
    /\ polls' = [polls EXCEPT ![r] = @ + 1]
    /\ UNCHANGED <<runVars, folderVars, tagVars, jobVars, job, result, todo, windows, processed,
                   notes, adminVars>>

CancelAwaitedJob(r) ==
    /\ Step(r, "cancel", "result")
    /\ CancelRow(job[r])
    /\ result' = [result EXCEPT ![r] = "cancelled"]
    /\ UNCHANGED <<runVars, folderVars, tagVars, started, exec, discovers, job, polls, todo,
                   windows, processed, notes, adminVars>>

\* ... then the job's row: gone, successful, ended otherwise, or still active,
\* and then the poll goes on until it gives up on a job that may well run on.
LookAtJob(r) ==
    LET goesOn == jobStatus[job[r]] \in Job!Active /\ polls[r] < MaxPolls
    IN /\ Step(r, "look", IF goesOn THEN "poll" ELSE "result")
       /\ result' = [result EXCEPT ![r] =
                        IF goesOn THEN @
                        ELSE IF jobStatus[job[r]] = "success" THEN "ok" ELSE "error"]
       /\ UNCHANGED <<runVars, folderVars, tagVars, jobVars, job, polls, todo, windows,
                      processed, notes, adminVars>>

-----------------------------------------------------------------------------
(* run_index and _discover_folders *)

MarkRunRunning(r) ==
    /\ Step(r, "queued", "watermark")
    /\ runStatus' = [runStatus EXCEPT ![r] = "running"]
    /\ UNCHANGED <<runMailbox, cancelRequested, currentJob, folderVars, tagVars, jobVars, job,
                   polls, result, todo, windows, processed, notes, adminVars>>

\* No row is later than the watermark yet.
ReadWatermark(r) ==
    /\ Step(r, "watermark", "create")
    /\ fresh' = {}
    /\ UNCHANGED <<runVars, folderVars, tag, jobVars, job, polls, result, todo, windows,
                   processed, notes, adminVars>>

EndDiscovery(r) ==
    /\ Discovering(r)
    /\ Step(r, "result", IF result[r] = "ok" THEN "tag" ELSE "finish")
    /\ currentJob' = [currentJob EXCEPT ![r] = None]
    /\ UNCHANGED <<runStatus, runMailbox, cancelRequested, folderVars, tagVars, jobVars, job,
                   polls, result, todo, windows, processed, notes, adminVars>>

\* Every row touched since the watermark, whoever touched it.
TagFolders(r) ==
    /\ Step(r, "tag", "list")
    /\ tag' = [f \in Folders |-> IF f \in fresh THEN runMailbox[r] ELSE tag[f]]
    /\ UNCHANGED <<runVars, folderVars, fresh, jobVars, job, polls, result, todo, windows,
                   processed, notes, adminVars>>

ListFolders(r) ==
    LET listed == {f \in Folders : tag[f] = runMailbox[r]}
    IN /\ Step(r, "list", IF listed = {} THEN "finish" ELSE "folder")
       /\ todo' = [todo EXCEPT ![r] = SetToSeq(listed)]
       /\ folderStatus' = [folderStatus EXCEPT ![r] =
                [f \in Folders |-> IF f \in listed THEN "pendiente" ELSE @[f]]]
       /\ UNCHANGED <<runVars, counted, covered, tagVars, jobVars, job, polls, result, windows,
                      processed, notes, adminVars>>

\* The loop over the folders: the flag, then mark_folder_started.
NextFolder(r) ==
    /\ pc[r] = "folder"
    /\ IF todo[r] = <<>> \/ cancelRequested[r]
       THEN /\ pc' = [pc EXCEPT ![r] = "finish"]
            /\ result' = [result EXCEPT ![r] = IF todo[r] = <<>> THEN "ok" ELSE "cancelled"]
            /\ UNCHANGED <<folderStatus, windows, processed, notes>>
       ELSE /\ pc' = [pc EXCEPT ![r] = "window"]
            /\ folderStatus' = [folderStatus EXCEPT ![r][Head(todo[r])] = "indexando"]
            /\ windows' = [windows EXCEPT ![r] = << <<0, Horizon>> >>]
            /\ processed' = [processed EXCEPT ![r] = 0]
            /\ notes' = [notes EXCEPT ![r] = FALSE]
            /\ UNCHANGED result
    /\ UNCHANGED <<runVars, counted, covered, tagVars, jobVars, job, polls, todo, adminVars>>

\* Faulty variant: folders left incomplete by an error do not count.
FinalStatusOfVisited(r) ==
    LET rows == {folderStatus[r][f] : f \in Folders}
    IN CASE result[r] = "cancelled" -> "cancelled"
         [] result[r] = "error"     -> "failed"
         [] result[r] = "ok"        -> IF "pendiente" \in rows THEN "partial" ELSE "success"

FinalStatus(r) ==
    LET rows == {folderStatus[r][f] : f \in Folders}
    IN CASE result[r] = "cancelled" -> "cancelled"
         [] result[r] = "error"     -> "failed"
         [] result[r] = "ok"        ->
              IF rows \cap {"parcial", "pendiente"} # {} THEN "partial" ELSE "success"

\* mark_run_finished writes the outcome without a condition on the row.
FinishRun(r) ==
    /\ pc[r] = "finish"
    /\ Return({r})
    /\ runStatus' = [runStatus EXCEPT ![r] = FinalStatus(r)]
    /\ currentJob' = [currentJob EXCEPT ![r] = None]
    /\ UNCHANGED <<runMailbox, cancelRequested, folderVars, tagVars, jobVars, adminVars>>

-----------------------------------------------------------------------------
(* _index_folder *)

\* mark_folder_finished, then the next folder, or the end after a cancellation.
FolderEnds(r, how, cancelled) ==
    /\ folderStatus' = [folderStatus EXCEPT ![r][Head(todo[r])] = how]
    /\ todo' = [todo EXCEPT ![r] = Tail(@)]
    /\ windows' = [windows EXCEPT ![r] = <<>>]
    /\ result' = [result EXCEPT ![r] = IF cancelled THEN "cancelled" ELSE "ok"]
    /\ pc' = [pc EXCEPT ![r] = IF cancelled THEN "finish" ELSE "folder"]

NextWindow(r) ==
    /\ pc[r] = "window"
    /\ \/ /\ windows[r] = <<>>
          /\ FolderEnds(r, IF notes[r] THEN "parcial" ELSE "listo", FALSE)
       \/ /\ windows[r] # <<>>
          /\ processed[r] >= MaxWindows
          /\ FolderEnds(r, "parcial", FALSE)
       \/ /\ windows[r] # <<>>
          /\ processed[r] < MaxWindows
          /\ cancelRequested[r]
          /\ FolderEnds(r, "parcial", TRUE)
       \/ /\ windows[r] # <<>>
          /\ processed[r] < MaxWindows
          /\ ~cancelRequested[r]
          /\ pc' = [pc EXCEPT ![r] = "create"]
          /\ UNCHANGED <<folderStatus, todo, windows, result>>
    /\ UNCHANGED <<runVars, counted, covered, tagVars, jobVars, job, polls, processed, notes,
                   adminVars>>

\* The halves a window is split into when its result may be truncated.
Halves(w) == LET mid == (w[1] + w[2]) \div 2 IN << <<w[1], mid>>, <<mid, w[2]>> >>

Fetched(f, w) == IF Messages(f, w) <= Cap THEN Messages(f, w) ELSE Cap
Truncated(f, w) == Messages(f, w) > Cap
MustSplit(f, w) == Fetched(f, w) >= NearCap /\ Span(w) > 1

\* What a successful window adds to messages_indexed: a window that is split is
\* counted by its halves.  Faulty variant first: counted here as well.
ContributionOfEvery(f, w) == Fetched(f, w)
Contribution(f, w) == IF MustSplit(f, w) THEN 0 ELSE Fetched(f, w)

EndWindow(r) ==
    LET f == Head(todo[r])
        w == Head(windows[r])
        rest == Tail(windows[r])
    IN /\ pc[r] = "result"
       /\ ~Discovering(r)
       /\ IF result[r] = "cancelled"
          THEN FolderEnds(r, "parcial", TRUE) /\ UNCHANGED <<counted, covered, processed, notes>>
          ELSE /\ pc' = [pc EXCEPT ![r] = "window"]
               /\ processed' = [processed EXCEPT ![r] = @ + 1]
               /\ notes' = [notes EXCEPT ![r] = @ \/ result[r] = "error"]
               /\ windows' = [windows EXCEPT ![r] =
                    IF result[r] = "ok" /\ MustSplit(f, w) THEN rest \o Halves(w) ELSE rest]
               /\ counted' = [counted EXCEPT ![r][f] =
                    IF result[r] = "ok" THEN @ + Contribution(f, w) ELSE @]
               /\ covered' = [covered EXCEPT ![r][f] =
                    IF result[r] = "ok" /\ ~Truncated(f, w) THEN @ \cup In(w) ELSE @]
               /\ result' = [result EXCEPT ![r] = "ok"]
               /\ UNCHANGED <<folderStatus, todo>>
       /\ UNCHANGED <<runVars, tagVars, jobVars, job, polls, adminVars>>

-----------------------------------------------------------------------------
(* The backend dies and starts again: fail_orphaned_index_runs closes the    *)
(* active run; its folder rows and its job stay as they were.                *)

FailOrphanedRuns ==
    /\ runStatus' = [r \in Runs |-> IF IsActive(r) THEN "failed" ELSE runStatus[r]]
    /\ currentJob' = [r \in Runs |-> IF IsActive(r) THEN None ELSE currentJob[r]]

Restart ==
    /\ FailOrphanedRuns
    /\ Return(Runs)
    /\ starting' = {}
    /\ cancelling' = {}
    /\ UNCHANGED <<runMailbox, cancelRequested, folderVars, tagVars, jobVars>>

-----------------------------------------------------------------------------
TaskStep(r) ==
    \/ CreateJob(r) \/ SetCurrentJob(r) \/ PostWebhook(r) \/ WebhookReturns(r)
    \/ Poll(r) \/ CancelAwaitedJob(r) \/ LookAtJob(r)
    \/ MarkRunRunning(r) \/ ReadWatermark(r) \/ EndDiscovery(r) \/ TagFolders(r)
    \/ ListFolders(r) \/ NextFolder(r) \/ NextWindow(r) \/ EndWindow(r) \/ FinishRun(r)

AdminStep(r) ==
    BeginStart(r) \/ (\E m \in Mailboxes : StartIndex(r, m)) \/ RequestCancel(r)

JobStep(s) ==
    N8nStarts(s) \/ N8nUpsertsFolders(s) \/ N8nEnds(s) \/ N8nLoses(s)
    \/ UserCancelsJob(s) \/ UserDeletesJob(s)

Next ==
    \/ \E r \in Runs : TaskStep(r) \/ AdminStep(r)
    \/ \E s \in Slots : JobStep(s) \/ CancelCurrentJob(s)
    \/ DeleteFinishedRuns
    \/ Restart

Spec == Init /\ [][Next]_vars

\* The event loop runs run_index and the open requests.  The fairness of n8n
\* (an execution ends or is lost) only gives back the slot that CreateJob
\* needs: in the code a new row is always available.
Fairness ==
    /\ \A r \in Runs : WF_vars(TaskStep(r))
    /\ \A s \in Slots : WF_vars(CancelCurrentJob(s)) /\ WF_vars(N8nLoses(s))

FairSpec == Spec /\ Fairness

-----------------------------------------------------------------------------
(* Properties *)

\* At most one run is active, and run_index is at work exactly for it: a start
\* that loses the race is refused, a restart leaves no active run behind.
RunsMatchTasks ==
    /\ \A r \in Runs : IsActive(r) <=> pc[r] # "idle"
    /\ \A q, r \in Runs : IsActive(q) /\ IsActive(r) => q = r

\* A folder is called listo only when every message of it was fetched, except
\* in units so dense that a window cannot be made smaller.
ListoIsFetched ==
    \A r \in Runs, f \in Folders : folderStatus[r][f] = "listo" =>
        \A d \in Units : d \in covered[r][f] \/ Messages(f, <<d, d + 1>>) >= NearCap

\* What there is to fetch of f unit by unit, before each unit.
Fetchable(f) ==
    LET upTo[d \in 0 .. Horizon] ==
            IF d = 0 THEN 0 ELSE upTo[d - 1] + Fetched(f, <<d - 1, d>>)
    IN upTo

\* messages_indexed counts every fetched message once, whatever was split.
ListoIsCounted ==
    \A r \in Runs, f \in Folders : folderStatus[r][f] = "listo" =>
        counted[r][f] = Fetchable(f)[Horizon]

\* The run's status is the sum of its folders: success means all listo, and
\* only a restart leaves a folder in indexando.
StatusReflectsFolders ==
    \A r \in Runs :
        LET rows == {folderStatus[r][f] : f \in Folders} \ {"none"}
        IN /\ runStatus[r] = "success" => rows \subseteq {"listo"}
           /\ runStatus[r] = "partial" => "parcial" \in rows /\ "pendiente" \notin rows
           /\ runStatus[r] = "cancelled" => cancelRequested[r]
           /\ runStatus[r] \in {"success", "partial", "cancelled"} => "indexando" \notin rows

\* A finished run is history: nothing but its deletion changes it, although
\* mark_run_running and mark_run_finished carry no condition.
FinishedRunIsFinal ==
    [][\A r \in Runs : runStatus[r] \in FinishedRun
            => runStatus'[r] \in {runStatus[r], "deleted"}]_vars

\* A run ends, cancelled or not, whatever its jobs do: the polls give up.
RunEnds == \A r \in Runs : IsActive(r) ~> ~IsActive(r)

\* run_index's docstring: there is never more than one fetch_message_series or
\* discover_mail_folders in flight for this feature.  Not kept, and in no
\* configuration: a poll that gives up leaves its job at work.
OneJobInFlight == Cardinality({s \in Slots : exec[s] = "live"}) <= 1

\* tag_folders_with_mailbox's docstring: the folders that job has just touched
\* are labelled with the right mailbox.  Not kept, and in no configuration: a
\* discovery of another mailbox may touch folders after the watermark.
TagsAreRight == \A f \in Folders : tag[f] \in {None, OwnerOf[f]}
=============================================================================
