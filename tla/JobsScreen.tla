------------------------------ MODULE JobsScreen ------------------------------
(***************************************************************************)
(* The queue of jobs on the screen (JobsView.tsx) and the form that fills  *)
(* it (NewJobView.tsx).  The list is polled every five seconds by an       *)
(* effect of the mounted screen; its answers can overtake each other.  An  *)
(* end that a poll brings, of a job that the poll before showed active, is *)
(* announced with a toast.  A retry, a cancellation or a deletion is       *)
(* followed by a load of the list, which announces nothing.                *)
(*                                                                         *)
(* Of the backend, only what the list says of a job (AnalysisJobs has the  *)
(* rest): "active" is queued or running, "done" is success or cancelled,   *)
(* which the screen treats alike here.                                     *)
(***************************************************************************)
EXTENDS Naturals, Sequences, FiniteSets

CONSTANTS Jobs,      \* the jobs followed; there are others on the list
          Folders,   \* what the form can choose
          None,
          MaxGets,   \* bound: lists on their way to the screen
          MaxCalls   \* bound: calls of the user on their way

JobsAssumption == IsFiniteSet(Jobs) /\ None \notin Jobs /\ MaxGets \in Nat /\ MaxCalls \in Nat

VARIABLES
    status,        \* status[j] in the database, "gone" once the row is deleted
    mounted,       \* JobsView is on the screen
    jobs,          \* the list it shows, "none" for a job that is not in it
    prevStatuses,  \* prevStatusesRef: the list of the last poll accepted
    gets,          \* lists read by the backend and not delivered, oldest first
    calls,         \* retries, cancellations and deletions on their way
    retryingId, cancelingId, deletingJob, clearing,   \* buttons that are busy
    deleteTarget, clearModalOpen,                     \* the dialogs
    todo, stray,   \* folders whose jobs the submission awaits, and those of failed ones
    \* history, of the screen mounted
    owed,          \* jobs shown active by a poll and not announced since
    announced,     \* toasts about each job
    again          \* a job went back to active, or a poll was overtaken: no more is kept

screenVars == <<jobs, prevStatuses, owed, announced, again>>
dialogVars == <<retryingId, cancelingId, deletingJob, clearing, deleteTarget, clearModalOpen>>
formVars   == <<todo, stray>>
jobsVars   == <<status, mounted, screenVars, gets, calls, dialogVars, formVars>>

Ended  == {"failed", "done"}
Status == {"none", "active"} \cup Ended
List   == [Jobs -> Status]
Empty  == [j \in Jobs |-> "none"]
Call   == [op : {"retry", "cancel", "delete", "clear"}, job : Jobs \cup {None}, pc : {"sent", "load"}]
Get    == [op : {"poll", "retry", "cancel", "delete", "clear"}, list : List]

TypeOK ==
    /\ status \in [Jobs -> Status \cup {"gone"}]
    /\ mounted \in BOOLEAN
    /\ jobs \in List /\ prevStatuses \in List
    /\ gets \in Seq(Get) /\ Len(gets) <= MaxGets
    /\ calls \in SUBSET Call
    /\ {retryingId, cancelingId, deleteTarget} \subseteq Jobs \cup {None}
    /\ {deletingJob, clearing, clearModalOpen, again} \subseteq BOOLEAN
    /\ todo \in SUBSET Folders /\ stray \in SUBSET Folders
    /\ owed \in SUBSET Jobs /\ announced \in [Jobs -> 0..2]

Init ==
    /\ status \in [Jobs -> {"none", "active", "failed"}]
    /\ mounted = FALSE
    /\ jobs = Empty /\ prevStatuses = Empty
    /\ gets = <<>> /\ calls = {}
    /\ retryingId = None /\ cancelingId = None /\ deleteTarget = None
    /\ deletingJob = FALSE /\ clearing = FALSE /\ clearModalOpen = FALSE
    /\ todo = {} /\ stray = {}
    /\ owed = {} /\ announced = [j \in Jobs |-> 0] /\ again = FALSE

-----------------------------------------------------------------------------
(* The backend, and the other users *)

Become(j, s) == status' = [status EXCEPT ![j] = s]

\* A new row: one of the jobs followed, or another.
NewJob == UNCHANGED status \/ \E j \in Jobs : status[j] = "none" /\ Become(j, "active")

\* A job can only go back to active from failed: its dispatch had timed out.
JobChanges(j) ==
    /\ \/ status[j] \in {"none", "failed"} /\ Become(j, "active")
       \/ status[j] = "active" /\ \E s \in Ended : Become(j, s)
       \/ status[j] \in Ended /\ Become(j, "gone")
    /\ again' = (again \/ (mounted /\ status[j] = "failed" /\ status'[j] = "active"))
    /\ UNCHANGED <<mounted, jobs, prevStatuses, owed, announced, gets, calls, dialogVars, formVars>>

ListNow == [j \in Jobs |-> IF status[j] = "gone" THEN "none" ELSE status[j]]
Read(op) == Len(gets) < MaxGets /\ gets' = Append(gets, [op |-> op, list |-> ListNow])

-----------------------------------------------------------------------------
(* The screen *)

\* The state of the screen is gone with it, and answers on their way are lost.
Fresh ==
    /\ jobs' = Empty /\ prevStatuses' = Empty
    /\ retryingId' = None /\ cancelingId' = None /\ deleteTarget' = None
    /\ deletingJob' = FALSE /\ clearing' = FALSE /\ clearModalOpen' = FALSE
    /\ owed' = {} /\ announced' = [j \in Jobs |-> 0] /\ again' = FALSE
OpenScreen == mounted' = TRUE /\ Fresh
Mount == ~mounted /\ OpenScreen /\ UNCHANGED <<status, gets, calls, formVars>>

Unmount ==
    /\ mounted /\ mounted' = FALSE
    /\ Fresh
    /\ gets' = <<>> /\ calls' = {}
    /\ UNCHANGED <<status, formVars>>

\* The effect runs again when refreshSignal changes: polls under way are dropped.
RefreshSignal ==
    LET kept[n \in 0..Len(gets)] == IF n = 0 THEN << >>
                                    ELSE IF gets[n].op = "poll" THEN kept[n - 1]
                                    ELSE Append(kept[n - 1], gets[n])
    IN  gets' = kept[Len(gets)]

Poll == mounted /\ Read("poll") /\ UNCHANGED <<status, mounted, screenVars, calls, dialogVars, formVars>>

RemoveGet(i) == gets' = SubSeq(gets, 1, i - 1) \o SubSeq(gets, i + 1, Len(gets))

\* Announces the ends, then keeps the list for the next comparison.
PollAnswered(i) ==
    /\ gets[i].op = "poll"
    /\ RemoveGet(i)
    /\ LET list    == gets[i].list
           toasted == {j \in Jobs : prevStatuses[j] = "active" /\ list[j] \in Ended}
       IN  /\ jobs' = list
           /\ prevStatuses' = list
           /\ again' = (again \/ \E k \in 1..(i - 1) : gets[k].op = "poll")
           /\ owed' = IF again' THEN {} ELSE (owed \ toasted) \cup {j \in Jobs : list[j] = "active"}
           /\ announced' = [j \in Jobs |-> IF again' THEN 0
                                           ELSE IF j \in toasted /\ announced[j] < 2
                                           THEN announced[j] + 1 ELSE announced[j]]
    /\ UNCHANGED <<status, mounted, calls, dialogVars, formVars>>

\* The finally of the handler: its button is free again, whichever job it names.
Finish(op) ==
    /\ retryingId'  = IF op = "retry"  THEN None ELSE retryingId
    /\ cancelingId' = IF op = "cancel" THEN None ELSE cancelingId
    /\ deletingJob' = (deletingJob /\ op # "delete")
    /\ clearing'    = (clearing /\ op # "clear")

\* Faulty variant: the list loaded is also what the next poll is compared with.
LoadAnsweredRecording(i) ==
    /\ gets[i].op # "poll"
    /\ RemoveGet(i)
    /\ jobs' = gets[i].list /\ prevStatuses' = gets[i].list
    /\ Finish(gets[i].op)
    /\ UNCHANGED <<status, mounted, owed, announced, again, calls, deleteTarget, clearModalOpen, formVars>>
LoadAnswered(i) ==
    /\ gets[i].op # "poll"
    /\ RemoveGet(i)
    /\ jobs' = gets[i].list
    /\ Finish(gets[i].op)
    /\ UNCHANGED <<status, mounted, prevStatuses, owed, announced, again, calls,
                   deleteTarget, clearModalOpen, formVars>>

\* A failed fetch is a line above the list; load() swallows its error.
GetFails(i) ==
    /\ RemoveGet(i)
    /\ Finish(gets[i].op)
    /\ UNCHANGED <<status, mounted, screenVars, calls, deleteTarget, clearModalOpen, formVars>>

Send(op, j) ==
    /\ mounted /\ Cardinality(calls) < MaxCalls
    /\ calls' = calls \cup {[op |-> op, job |-> j, pc |-> "sent"]}
    /\ UNCHANGED <<status, mounted, screenVars, gets, formVars>>

\* A dialog covers the rows, whose buttons follow the list shown, which may be old.
NoDialog == deleteTarget = None /\ ~clearModalOpen
Offered(j, states) == NoDialog /\ jobs[j] \in states
HandleRetry(j) ==
    /\ Offered(j, {"failed"}) /\ retryingId # j
    /\ Send("retry", j) /\ retryingId' = j
    /\ UNCHANGED <<cancelingId, deletingJob, clearing, deleteTarget, clearModalOpen>>
HandleCancel(j) ==
    /\ Offered(j, {"active"}) /\ cancelingId # j
    /\ Send("cancel", j) /\ cancelingId' = j
    /\ UNCHANGED <<retryingId, deletingJob, clearing, deleteTarget, clearModalOpen>>
HandleDeleteJob ==
    /\ deleteTarget # None /\ ~deletingJob
    /\ Send("delete", deleteTarget) /\ deletingJob' = TRUE
    /\ UNCHANGED <<retryingId, cancelingId, clearing, deleteTarget, clearModalOpen>>
HandleClear ==
    /\ clearModalOpen /\ ~clearing
    /\ Send("clear", None) /\ clearing' = TRUE
    /\ UNCHANGED <<retryingId, cancelingId, deletingJob, deleteTarget, clearModalOpen>>

Dialogs ==
    /\ mounted
    /\ \/ \E j \in Jobs : Offered(j, Ended) /\ deleteTarget' = j /\ UNCHANGED clearModalOpen
       \/ deleteTarget # None /\ deleteTarget' = None /\ UNCHANGED clearModalOpen
       \/ (NoDialog \/ clearModalOpen) /\ clearModalOpen' = ~clearModalOpen /\ UNCHANGED deleteTarget
    /\ UNCHANGED <<status, mounted, screenVars, gets, calls, retryingId, cancelingId, deletingJob,
                   clearing, formVars>>

\* What the backend does, when the job's status still allows it.
Effect(c) ==
    CASE c.op = "retry"  -> /\ status[c.job] = "failed" /\ NewJob
      [] c.op = "cancel" -> status[c.job] = "active" /\ Become(c.job, "done")
      [] c.op = "delete" -> status[c.job] \in Ended /\ Become(c.job, "gone")
      [] c.op = "clear"  -> \E scope \in {{"failed"}, Ended} :
                                status' = [j \in Jobs |-> IF status[j] \in scope THEN "gone" ELSE status[j]]

\* The dialog closes, whichever job it is about by now, and the list is loaded.
CallDone(c) ==
    /\ c.pc = "sent"
    /\ Effect(c)
    /\ calls' = (calls \ {c}) \cup {[c EXCEPT !.pc = "load"]}
    /\ deleteTarget' = IF c.op = "delete" THEN None ELSE deleteTarget
    /\ clearModalOpen' = (clearModalOpen /\ c.op # "clear")
    /\ UNCHANGED <<mounted, screenVars, gets, retryingId, cancelingId, deletingJob, clearing, formVars>>

CallFails(c) ==
    /\ c.pc = "sent"
    /\ calls' = calls \ {c}
    /\ Finish(c.op)
    /\ UNCHANGED <<status, mounted, screenVars, gets, deleteTarget, clearModalOpen, formVars>>

Load(c) ==
    /\ c.pc = "load"
    /\ calls' = calls \ {c}
    /\ Read(c.op)
    /\ UNCHANGED <<status, mounted, screenVars, dialogVars, formVars>>

-----------------------------------------------------------------------------
(* The form: a job for each folder chosen, created side by side *)

HandleSubmit ==
    /\ ~mounted /\ todo = {}
    /\ \E S \in SUBSET (Folders \ stray) : S # {} /\ todo' = S
    /\ UNCHANGED <<status, mounted, screenVars, gets, calls, dialogVars, stray>>

\* The last one opens the queue, even if the user has gone there meanwhile.
Created(f) ==
    /\ NewJob
    /\ IF f \in stray
       THEN stray' = stray \ {f} /\ UNCHANGED <<todo, mounted, gets, screenVars, dialogVars>>
       ELSE /\ f \in todo /\ todo' = todo \ {f} /\ UNCHANGED stray
            /\ \/ todo' # {} /\ UNCHANGED <<mounted, gets, screenVars, dialogVars>>
               \/ todo' = {} /\ ~mounted /\ OpenScreen /\ UNCHANGED gets
               \/ todo' = {} /\ mounted /\ RefreshSignal /\ UNCHANGED <<mounted, screenVars, dialogVars>>
    /\ UNCHANGED calls

\* Promise.all gives up at the first error: the other requests go on unheard.
CreationFails(f) ==
    /\ \/ f \in stray /\ stray' = stray \ {f} /\ UNCHANGED todo
       \/ f \in todo /\ stray' = stray \cup (todo \ {f}) /\ todo' = {}
    /\ UNCHANGED <<status, mounted, screenVars, gets, calls, dialogVars>>

Next ==
    \/ Mount \/ Unmount \/ Poll \/ Dialogs \/ HandleDeleteJob \/ HandleClear \/ HandleSubmit
    \/ \E j \in Jobs : JobChanges(j) \/ HandleRetry(j) \/ HandleCancel(j)
    \/ \E f \in Folders : Created(f) \/ CreationFails(f)
    \/ \E i \in 1..Len(gets) : PollAnswered(i) \/ LoadAnswered(i) \/ GetFails(i)
    \/ \E c \in calls : CallDone(c) \/ CallFails(c) \/ Load(c)

Spec == Init /\ [][Next]_jobsVars

-----------------------------------------------------------------------------
(* Properties *)

\* The end of a job that a poll has shown active is announced, and only once:
\* when the list compared with shows it ended its toast has been given, and there
\* is no second one.  A poll that overtakes another can break both, a job that
\* comes back to life is announced again.
EndsAreAnnounced ==
    again \/ (/\ \A j \in owed : prevStatuses[j] \notin Ended
              /\ \A j \in Jobs : announced[j] <= 1)
=============================================================================
