----------------------------- MODULE ShareDialog -----------------------------
(***************************************************************************)
(* ShareModal.tsx with its two owners: CasesView (cases) and SettingsView  *)
(* (mailboxes).  The owner holds the target, the list of shares and the    *)
(* flag `saving`; the modal holds the changes staged until they are        *)
(* confirmed.  A confirmation sends one request per change, then reads the *)
(* list again, all with the target it began with; Escape closes the dialog *)
(* at any time and a list still being read arrives over the next one.      *)
(***************************************************************************)
EXTENDS Naturals, FiniteSets

CONSTANTS Targets, Users, None,
          MaxLists   \* bound: lists being read at once

TargetsAssumption == None \notin Targets
ListsAssumption == MaxLists \in Nat \ {0}

VARIABLES
    granted,   \* granted[t]: the users t is shared with, in the database
    shareTarget,   \* shareCaseTarget, shareMailboxTarget
    shares,    \* the list on the screen
    listOf,    \* the target that list was read for, None when it was emptied
    adds, removes,   \* the staged changes
    saving,    \* sharingCase, sharingMailbox
    confirm,   \* the confirmation under way
    lists,     \* targets whose list is being read by openShareCaseModal
    \* history variables, for the properties
    staged,    \* the target the staged changes were staged for
    stray,     \* the list was put there by an answer for another target
    stuck      \* reading the list after a confirmation failed

modalVars == <<adds, removes, staged>>
listVars  == <<shares, listOf, stray>>
shareVars == <<granted, shareTarget, listVars, modalVars, saving, confirm, lists, stuck>>

NoConfirm == [of |-> None]
TypeOK ==
    /\ granted \in [Targets -> SUBSET Users]
    /\ shareTarget \in Targets \cup {None}
    /\ shares \in SUBSET Users
    /\ listOf \in Targets \cup {None}
    /\ adds \in SUBSET Users
    /\ removes \in SUBSET Users
    /\ saving \in BOOLEAN
    /\ confirm \in [of : Targets, staged : Targets, adds : SUBSET Users, removes : SUBSET Users,
                    failed : BOOLEAN] \cup {NoConfirm}
    /\ lists \in SUBSET Targets
    /\ staged \in Targets \cup {None}
    /\ stray \in BOOLEAN
    /\ stuck \in BOOLEAN

Init ==
    /\ granted \in [Targets -> SUBSET Users]
    /\ shareTarget = None
    /\ shares = {}
    /\ listOf = None
    /\ adds = {} /\ removes = {} /\ staged = None
    /\ saving = FALSE
    /\ confirm = NoConfirm
    /\ lists = {}
    /\ stray = FALSE
    /\ stuck = FALSE

-----------------------------------------------------------------------------
(* The owner *)

\* The list of the last target stays until the new one arrives.  The effect of
\* `open` forgets what was staged.
Open(t) ==
    /\ shareTarget = None
    /\ Cardinality(lists \cup {t}) <= MaxLists
    /\ shareTarget' = t
    /\ lists' = lists \cup {t}
    /\ adds' = {} /\ removes' = {} /\ staged' = None
    /\ UNCHANGED <<granted, listVars, saving, confirm, stuck>>

Listed(t) ==
    /\ t \in lists
    /\ lists' = lists \ {t}
    /\ shares' = granted[t]
    /\ listOf' = t
    /\ stray' = (shareTarget # t)
    /\ UNCHANGED <<granted, shareTarget, modalVars, saving, confirm, stuck>>
\* Faulty variant: the list of the last target stays when the new one fails.
ListFailsKeepingOld(t) ==
    /\ t \in lists
    /\ lists' = lists \ {t}
    /\ UNCHANGED <<granted, shareTarget, listVars, modalVars, saving, confirm, stuck>>
ListFails(t) ==
    /\ t \in lists
    /\ lists' = lists \ {t}
    /\ shares' = {}
    /\ listOf' = None
    /\ stray' = FALSE
    /\ UNCHANGED <<granted, shareTarget, modalVars, saving, confirm, stuck>>

\* One request per change, and one failure does not stop the others.
SendAdd(u) ==
    /\ confirm # NoConfirm /\ u \in confirm.adds
    /\ \/ /\ granted' = [granted EXCEPT ![confirm.of] = @ \cup {u}]
          /\ confirm' = [confirm EXCEPT !.adds = @ \ {u}]
       \/ /\ confirm' = [confirm EXCEPT !.adds = @ \ {u}, !.failed = TRUE]
          /\ UNCHANGED granted
    /\ UNCHANGED <<shareTarget, listVars, modalVars, saving, lists, stuck>>
SendRemove(u) ==
    /\ confirm # NoConfirm /\ confirm.adds = {} /\ u \in confirm.removes
    /\ \/ /\ granted' = [granted EXCEPT ![confirm.of] = @ \ {u}]
          /\ confirm' = [confirm EXCEPT !.removes = @ \ {u}]
       \/ /\ confirm' = [confirm EXCEPT !.removes = @ \ {u}, !.failed = TRUE]
          /\ UNCHANGED granted
    /\ UNCHANGED <<shareTarget, listVars, modalVars, saving, lists, stuck>>

AllSent == confirm # NoConfirm /\ confirm.adds = {} /\ confirm.removes = {}
\* Faulty variant: after a failure the dialog stays disabled.
ConfirmEndsDisabled ==
    /\ AllSent
    /\ shares' = granted[confirm.of]
    /\ listOf' = confirm.of
    /\ shareTarget' = IF confirm.failed THEN shareTarget ELSE None
    /\ stray' = (shareTarget' \notin {confirm.of, None})
    /\ saving' = confirm.failed
    /\ confirm' = NoConfirm
    /\ adds' = {} /\ removes' = {} /\ staged' = None
    /\ UNCHANGED <<granted, lists, stuck>>
\* The list read again; without failures the dialog that is open now is closed.
\* The modal then forgets what is staged, whichever dialog it is in.
ConfirmEnds ==
    /\ AllSent
    /\ shares' = granted[confirm.of]
    /\ listOf' = confirm.of
    /\ shareTarget' = IF confirm.failed THEN shareTarget ELSE None
    /\ stray' = (shareTarget' \notin {confirm.of, None})
    /\ saving' = FALSE
    /\ confirm' = NoConfirm
    /\ adds' = {} /\ removes' = {} /\ staged' = None
    /\ UNCHANGED <<granted, lists, stuck>>
\* The list cannot be read: the handler ends there, outside any try.
ConfirmBreaks ==
    /\ AllSent
    /\ confirm' = NoConfirm
    /\ stuck' = TRUE
    /\ UNCHANGED <<granted, shareTarget, listVars, modalVars, saving, lists>>

-----------------------------------------------------------------------------
(* The modal; everything but Escape is disabled while saving *)

Enabled == shareTarget # None /\ ~saving
StageAdd(u) ==
    /\ Enabled /\ u \notin shares
    /\ adds' = adds \cup {u}
    /\ staged' = shareTarget
    /\ UNCHANGED <<granted, shareTarget, listVars, removes, saving, confirm, lists, stuck>>
UndoAdd(u) ==
    /\ Enabled /\ u \in adds
    /\ adds' = adds \ {u}
    /\ UNCHANGED <<granted, shareTarget, listVars, removes, staged, saving, confirm, lists, stuck>>
StageRemove(u) ==
    /\ Enabled /\ u \in shares
    /\ removes' = removes \cup {u}
    /\ staged' = shareTarget
    /\ UNCHANGED <<granted, shareTarget, listVars, adds, saving, confirm, lists, stuck>>
UndoRemove(u) ==
    /\ Enabled /\ u \in removes \cap shares
    /\ removes' = removes \ {u}
    /\ UNCHANGED <<granted, shareTarget, listVars, adds, staged, saving, confirm, lists, stuck>>

\* The cancel button, and Escape while saving too.
Cancel ==
    /\ shareTarget # None
    /\ adds' = {} /\ removes' = {} /\ staged' = None
    /\ shareTarget' = None
    /\ UNCHANGED <<granted, listVars, saving, confirm, lists, stuck>>

Confirm ==
    /\ Enabled /\ adds \cup removes # {}
    /\ saving' = TRUE
    /\ confirm' = [of |-> shareTarget, staged |-> staged, adds |-> adds, removes |-> removes, failed |-> FALSE]
    /\ UNCHANGED <<granted, shareTarget, listVars, modalVars, lists, stuck>>

ConfirmStep == ConfirmEnds \/ ConfirmBreaks \/ \E u \in Users : SendAdd(u) \/ SendRemove(u)
Next ==
    \/ \E t \in Targets : Open(t) \/ Listed(t) \/ ListFails(t)
    \/ \E u \in Users : StageAdd(u) \/ UndoAdd(u) \/ StageRemove(u) \/ UndoRemove(u)
    \/ Cancel \/ Confirm \/ ConfirmStep

\* Every request ends, with an answer or an error.
Fairness == WF_shareVars(ConfirmStep)
Spec == Init /\ [][Next]_shareVars /\ Fairness

-----------------------------------------------------------------------------
(* Properties *)

\* The dialog is about its target: what is staged and what a confirmation sends
\* was staged in a dialog of the target it goes to, and the list is that of the
\* target once its own has been read or has failed, unless one that was being
\* read for an earlier dialog came after.
DialogIsOfTarget ==
    /\ confirm # NoConfirm => confirm.of = confirm.staged
    /\ shareTarget # None /\ staged # None => staged = shareTarget
    /\ shareTarget # None /\ listOf # None =>
          listOf = shareTarget \/ shareTarget \in lists \/ stray

\* The dialog does not stay disabled: saving ends, unless the list could not be
\* read after the changes were sent.
SavingEnds == saving ~> ~saving \/ stuck
=============================================================================
