------------------------------- MODULE CaseList -------------------------------
(***************************************************************************)
(* The list of cases of CasesView.tsx as a whole: what it shows, which of  *)
(* the cases are ticked to be merged, and the handlers that add and remove *)
(* cases.  Each is answered before it reads the list again, and so do many *)
(* others (CasesView has those); the lists can overtake each other.  The   *)
(* filters only hide rows, ticked ones too, and are left to chance.        *)
(***************************************************************************)
EXTENDS Naturals, Sequences, FiniteSets

CONSTANTS Cases,     \* the cases there are and will be
          MaxGets,   \* bound: lists on their way to the screen
          MaxCalls   \* bound: calls of the user on their way

ListAssumption == MaxGets \in Nat \ {0} /\ MaxCalls \in Nat

VARIABLES
    born, db,         \* cases that have existed, and those in the database
    cases,            \* the list on the screen
    selectedCaseIds,  \* the cases ticked
    mergeModalOpen, deleteTarget, clearModalOpen,   \* the dialogs; {} or {c}
    calls,            \* calls on their way and lists to be read after them
    gets,             \* lists read and not delivered, the oldest first
    \* history
    ghosts,           \* cases ticked and gone, other than by a merge from here
    behind            \* the list is not expected to follow the database

caseListVars == <<born, db, cases, selectedCaseIds, mergeModalOpen, deleteTarget,
                  clearModalOpen, calls, gets, ghosts, behind>>

Ops  == {"create", "associate", "merge", "delete", "clear"}
Call == [op : Ops, of : SUBSET Cases, pc : {"sent", "done", "read"}]
Get  == [list : SUBSET Cases, overtaken : BOOLEAN]

TypeOK ==
    /\ born \in SUBSET Cases /\ db \in SUBSET born
    /\ cases \in SUBSET born
    /\ selectedCaseIds \in SUBSET born
    /\ {mergeModalOpen, clearModalOpen, behind} \subseteq BOOLEAN
    /\ deleteTarget \in SUBSET Cases
    /\ calls \in SUBSET Call
    /\ gets \in Seq(Get) /\ Len(gets) <= MaxGets
    /\ ghosts \in SUBSET selectedCaseIds

\* The screen is opened, and its first list is on the way.
Init ==
    /\ born \in SUBSET Cases /\ db = born
    /\ cases = {}
    /\ selectedCaseIds = {}
    /\ mergeModalOpen = FALSE /\ deleteTarget = {} /\ clearModalOpen = FALSE
    /\ calls = {} /\ gets = <<[list |-> db, overtaken |-> FALSE]>>
    /\ ghosts = {} /\ behind = FALSE

-----------------------------------------------------------------------------
(* The screen *)

\* A dialog covers the list, which may still show what has gone.
ToggleCaseSelected(c) ==
    /\ c \in cases /\ ~mergeModalOpen /\ deleteTarget = {} /\ ~clearModalOpen
    /\ selectedCaseIds' = IF c \in selectedCaseIds THEN selectedCaseIds \ {c}
                          ELSE selectedCaseIds \cup {c}
    /\ ghosts' = IF c \in selectedCaseIds THEN ghosts \ {c} ELSE ghosts \cup ({c} \ db)
    /\ UNCHANGED <<born, db, cases, mergeModalOpen, deleteTarget, clearModalOpen, calls, gets, behind>>

Busy(op) == \E c \in calls : c.op = op
NoDialog == ~mergeModalOpen /\ deleteTarget = {} /\ ~clearModalOpen

\* The merge dialog has no way out while it merges; the other two have.
Dialogs ==
    /\ \/ /\ NoDialog /\ Cardinality(selectedCaseIds) >= 2
          /\ mergeModalOpen' = TRUE /\ UNCHANGED <<deleteTarget, clearModalOpen>>
       \/ /\ mergeModalOpen /\ ~Busy("merge")
          /\ mergeModalOpen' = FALSE /\ UNCHANGED <<deleteTarget, clearModalOpen>>
       \/ /\ NoDialog /\ \E c \in cases : deleteTarget' = {c}
          /\ UNCHANGED <<mergeModalOpen, clearModalOpen>>
       \/ /\ deleteTarget # {}
          /\ deleteTarget' = {} /\ UNCHANGED <<mergeModalOpen, clearModalOpen>>
       \/ /\ NoDialog \/ clearModalOpen
          /\ clearModalOpen' = ~clearModalOpen /\ UNCHANGED <<mergeModalOpen, deleteTarget>>
    /\ UNCHANGED <<born, db, cases, selectedCaseIds, calls, gets, ghosts, behind>>

\* A button waits for the answer to its call and the list that follows it.
Send(op, of) ==
    /\ ~Busy(op) /\ Cardinality(calls) < MaxCalls
    /\ calls' = calls \cup {[op |-> op, of |-> of, pc |-> "sent"]}
    /\ UNCHANGED <<born, db, cases, selectedCaseIds, mergeModalOpen, deleteTarget,
                   clearModalOpen, gets, ghosts, behind>>

Read == Len(gets) < MaxGets /\ gets' = Append(gets, [list |-> db, overtaken |-> FALSE])

HandleCreate        == Send("create", {})
HandleAssociateMail == Send("associate", {})
\* The ids ticked, whether or not they are on the list.
HandleConfirmMerge  == mergeModalOpen /\ Cardinality(selectedCaseIds) >= 2 /\ Send("merge", selectedCaseIds)
HandleDeleteCase    == deleteTarget # {} /\ Send("delete", deleteTarget)
HandleClear         == clearModalOpen /\ Send("clear", {})

\* The refreshCases of any other handler or poll.
RefreshCases ==
    /\ Read
    /\ UNCHANGED <<born, db, cases, selectedCaseIds, mergeModalOpen, deleteTarget, clearModalOpen,
                   calls, ghosts, behind>>

-----------------------------------------------------------------------------
(* The backend *)

Gone(cs) == ghosts' = ghosts \cup (cs \cap selectedCaseIds)
Add(n, without) == born' = born \cup {n} /\ db' = (db \ without) \cup {n}

\* A new case, or the case there was for the same seed.
Effect(c) ==
    CASE c.op = "create"    -> /\ UNCHANGED ghosts
                               /\ \/ \E n \in Cases \ born : Add(n, {})
                                  \/ db # {} /\ UNCHANGED <<born, db>>
      [] c.op = "associate" -> UNCHANGED <<born, db, ghosts>>
      [] c.op = "merge"     -> c.of \subseteq db /\ UNCHANGED ghosts /\ \E n \in Cases \ born : Add(n, c.of)
      [] c.op = "delete"    -> c.of \subseteq db /\ db' = db \ c.of /\ UNCHANGED born /\ Gone(c.of)
      [] c.op = "clear"     -> \E scope \in SUBSET db :
                                  db' = db \ scope /\ UNCHANGED born /\ Gone(scope)

Execute(c) ==
    /\ c.pc = "sent"
    /\ Effect(c)
    /\ calls' = (calls \ {c}) \cup {[c EXCEPT !.pc = "done"]}
    /\ UNCHANGED <<cases, selectedCaseIds, mergeModalOpen, deleteTarget, clearModalOpen, gets, behind>>

\* Other users create, delete and merge cases.
OtherChanges ==
    /\ \/ \E n \in Cases \ born : Add(n, {}) /\ UNCHANGED ghosts
       \/ \E c \in db : db' = db \ {c} /\ UNCHANGED born /\ Gone({c})
    /\ behind' = TRUE
    /\ UNCHANGED <<cases, selectedCaseIds, mergeModalOpen, deleteTarget, clearModalOpen, calls, gets>>

-----------------------------------------------------------------------------
(* The answers *)

\* Faulty variant: the ticks outlive the merge.
AnsweredKeepingTicks(c) ==
    /\ c.pc = "done"
    /\ calls' = (calls \ {c}) \cup {[c EXCEPT !.pc = "read"]}
    /\ mergeModalOpen' = (mergeModalOpen /\ c.op # "merge")
    /\ deleteTarget' = IF c.op = "delete" THEN {} ELSE deleteTarget
    /\ clearModalOpen' = (clearModalOpen /\ c.op # "clear")
    /\ UNCHANGED <<born, db, cases, selectedCaseIds, gets, ghosts, behind>>
\* Only a merge clears the ticks, all of them; the dialog that is open closes.
Answered(c) ==
    /\ c.pc = "done"
    /\ calls' = (calls \ {c}) \cup {[c EXCEPT !.pc = "read"]}
    /\ selectedCaseIds' = IF c.op = "merge" THEN {} ELSE selectedCaseIds
    /\ ghosts' = ghosts \cap selectedCaseIds'
    /\ mergeModalOpen' = (mergeModalOpen /\ c.op # "merge")
    /\ deleteTarget' = IF c.op = "delete" THEN {} ELSE deleteTarget
    /\ clearModalOpen' = (clearModalOpen /\ c.op # "clear")
    /\ UNCHANGED <<born, db, cases, gets, behind>>

\* Refused, or the answer is lost after the change: a toast.
Fail(c) ==
    /\ c.pc # "read"
    /\ calls' = calls \ {c}
    /\ ghosts' = IF c.op = "merge" /\ c.pc = "done" THEN ghosts \cup c.of ELSE ghosts
    /\ behind' = (behind \/ c.pc = "done")
    /\ UNCHANGED <<born, db, cases, selectedCaseIds, mergeModalOpen, deleteTarget,
                   clearModalOpen, gets>>

ReadList(c) ==
    /\ c.pc = "read" /\ Read
    /\ calls' = calls \ {c}
    /\ UNCHANGED <<born, db, cases, selectedCaseIds, mergeModalOpen, deleteTarget,
                   clearModalOpen, ghosts, behind>>

RemoveGet(i) ==
    gets' = [k \in 1..(Len(gets) - 1) |-> IF k < i THEN [gets[k] EXCEPT !.overtaken = TRUE] ELSE gets[k + 1]]

Loaded(i) ==
    /\ RemoveGet(i)
    /\ cases' = gets[i].list
    /\ behind' = (gets[i].overtaken \/ (behind /\ (i < Len(gets) \/ gets[i].list # db)))
    /\ UNCHANGED <<born, db, selectedCaseIds, mergeModalOpen, deleteTarget, clearModalOpen,
                   calls, ghosts>>

\* A line above the list, which stays as it was.
LoadFails(i) ==
    /\ gets' = SubSeq(gets, 1, i - 1) \o SubSeq(gets, i + 1, Len(gets))
    /\ behind' = TRUE
    /\ UNCHANGED <<born, db, cases, selectedCaseIds, mergeModalOpen, deleteTarget,
                   clearModalOpen, calls, ghosts>>

Next ==
    \/ Dialogs \/ HandleCreate \/ HandleAssociateMail \/ HandleConfirmMerge
    \/ HandleDeleteCase \/ HandleClear \/ RefreshCases \/ OtherChanges
    \/ \E c \in Cases : ToggleCaseSelected(c)
    \/ \E c \in calls : Execute(c) \/ Answered(c) \/ Fail(c) \/ ReadList(c)
    \/ \E i \in 1..Len(gets) : Loaded(i) \/ LoadFails(i)

Spec == Init /\ [][Next]_caseListVars

-----------------------------------------------------------------------------
(* Properties *)

\* Once nothing about the list is on its way it is the database's, and the cases
\* ticked, which the merge button counts and the merge sends, are on it: except
\* those deleted, from here or by others, which handleDeleteCase and handleClear
\* leave ticked, or ticked in an old list; and except after a change by others, a
\* failure or a list put over a later one.
TickedCasesAreListed ==
    calls = {} /\ gets = <<>> /\ ~behind => cases = db /\ selectedCaseIds \subseteq cases \cup ghosts
=============================================================================
