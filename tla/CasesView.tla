------------------------------ MODULE CasesView ------------------------------
(***************************************************************************)
(* The case cards of CasesView.tsx: the list, the cached detail of each    *)
(* case, the drafts of its form (outcome and alert type: "O"; pending      *)
(* action, next review and closing glosa: "F"), the requests in flight and *)
(* the optimistic lock of PATCH /cases/{id}, beside other users who edit   *)
(* the same cases.                                                         *)
(*                                                                         *)
(* A request is three steps: the handler sends it, the backend executes    *)
(* it, the answer is delivered; answers come in any order, and any request *)
(* may fail.  Of the texts only this is kept: which fields of the form show *)
(* what others wrote; whether a close has its glosa is left to chance.     *)
(* updated_at is modelled by whether a copy of it is still the current one.*)
(* refreshCases() at the end of a handler is part of its delivery; its own *)
(* request may fail, which leaves the list as it was.                      *)
(***************************************************************************)
EXTENDS FiniteSets, Naturals

CONSTANTS Cases, None,
          MaxFlights   \* bound: requests in flight at once

ASSUME CasesAssumption == None \notin Cases \cup {"reload", "refresh"}
ASSUME FlightsAssumption == MaxFlights \in Nat \ {0}

VARIABLES
    row,       \* status of the case in the database
    listed,    \* the status of each case in `cases`, the list on the screen
    open,      \* openCaseIds: the cards unfolded
    details,   \* details[c]: none, or whether its updated_at is current
    loaded,    \* loaded[c]: the drafts of the form were filled from an answer
    flights,   \* requests sent and not yet delivered
    modal,     \* conflictModal: the case it is about
    \* history, for the properties
    saw,       \* saw[c]: fields nobody else edited since the form was filled
    ahead,     \* ahead[c]: what brought the cached updated_at past the form
    unread     \* cases whose GET failed

screenVars  == <<listed, open, details, loaded, modal>>
historyVars == <<saw, ahead, unread>>
vars == <<row, screenVars, flights, historyVars>>

Fields == {"O", "F"}
Status == {"open", "closed", "gone"}

\* Requests by what their handlers do with the answer.  load: GET that fills
\* the form; peek: GET that replaces the detail alone; change: a POST that
\* adds or removes messages, notes aside; note: POST that leaves the detail's
\* updated_at alone.
Locked   == {"outcome", "followUp", "summary"}
Reads    == {"load", "peek", "reload"}
Kinds    == Locked \cup Reads \cup {"close", "reopen", "change", "note", "delete", "clear"}
Saves    == Locked \cup {"close"}
Ends     == {"note", "delete", "clear"}   \* whose answer brings no detail
Writes(kind) == CASE kind = "outcome"  -> {"O"}
                  [] kind = "followUp" -> {"F"}
                  [] kind = "close"    -> Fields
                  [] OTHER             -> {}

\* Where the updated_at a save sends comes from, compared with its form: the
\* same answer, a reload after a conflict, another refresh of the detail alone,
\* or no answer at all.
Origins  == {"form", "reload", "refresh", "none"}
Versions == {"none", "current", "old"}
Answer   == [version : Versions, saw : SUBSET Fields]
NoAnswer == [version |-> "none", saw |-> {}]
\* crossed: another of its kind was in flight when it was sent; of a save, a
\* load has refilled the form since.
Flight   == [kind : Kinds, case : Cases, pc : {"sent", "answered", "conflict"},
             crossed : BOOLEAN, expected : Versions, saw : SUBSET Fields, origin : Origins,
             answer : Answer]

TypeOK ==
    /\ row \in [Cases -> Status]
    /\ listed \in [Cases -> Status]
    /\ open \in SUBSET Cases
    /\ details \in [Cases -> Versions]
    /\ loaded \in [Cases -> BOOLEAN]
    /\ flights \in SUBSET Flight
    /\ modal \in Cases \cup {None}
    /\ saw \in [Cases -> SUBSET Fields]
    /\ ahead \in [Cases -> {None, "reload", "refresh"}]
    /\ unread \in SUBSET Cases

\* The screen after its first listCases.
Init ==
    /\ row = [c \in Cases |-> "open"]
    /\ listed = [c \in Cases |-> "open"]
    /\ open = {}
    /\ details = [c \in Cases |-> "none"]
    /\ loaded = [c \in Cases |-> FALSE]
    /\ flights = {}
    /\ modal = None
    /\ saw = [c \in Cases |-> {}]
    /\ ahead = [c \in Cases |-> None]
    /\ unread = {}

-----------------------------------------------------------------------------
(* What the screen offers *)

\* A card exists for every case of the list; its form is inside the unfolded
\* card, whether or not the detail has arrived.
Card(c)   == listed[c] # "gone"
Shown(c)  == Card(c) /\ c \in open
\* isClosed, of the list: the inputs and actions of a closed case are disabled.
Editable(c) == Shown(c) /\ listed[c] = "open"

Pending(kind, c) == \E r \in flights : r.kind = kind /\ r.case = c
HasDetail(c)     == details[c] # "none"
\* The timeline, the messages and the analysis of an unfolded card.
WithDetail(c)    == Shown(c) /\ HasDetail(c)

Origin(c) == IF ~loaded[c] \/ ~HasDetail(c) THEN "none"
             ELSE IF ahead[c] # None THEN ahead[c] ELSE "form"

\* The button of a request is disabled while it is under way (ActionButton);
\* reads have no button, and the changes and the notes have one each.
Repeatable == {"load", "peek", "change", "note"}
Request(kind, c) == [kind |-> kind, case |-> c, pc |-> "sent", crossed |-> Pending(kind, c),
           expected |-> IF kind \in Locked THEN details[c] ELSE "none",
           saw |-> saw[c] \cap Writes(kind),
           origin |-> IF kind \in Saves THEN Origin(c) ELSE "form",
           answer |-> NoAnswer]
Send(kind, c) ==
    /\ Pending(kind, c) => kind \in Repeatable
    /\ Cardinality(flights) < MaxFlights
    /\ Request(kind, c) \notin flights   \* bound: no third one of a kind
    /\ flights' = flights \cup {Request(kind, c)}
    /\ UNCHANGED <<row, historyVars>>

-----------------------------------------------------------------------------
(* Handlers *)

ToggleCase(c) ==
    /\ Card(c)
    /\ open' = IF c \in open THEN open \ {c} ELSE open \cup {c}
    /\ IF HasDetail(c) THEN UNCHANGED <<flights, row, historyVars>> ELSE Send("load", c)
    /\ UNCHANGED <<listed, details, loaded, modal>>

\* The effect of openCaseId: another screen asked for this card.
OpenFromLink(c) ==
    /\ Card(c)
    /\ open' = open \cup {c}
    /\ IF HasDetail(c) THEN UNCHANGED <<flights, row, historyVars>> ELSE Send("load", c)
    /\ UNCHANGED <<listed, details, loaded, modal>>

\* The mount effect that takes up a mailbox search still running for the case,
\* whenever its listJobs is answered: its `details` are those of the mount, none.
ResumeMailboxSearch(c) ==
    /\ open' = open \cup {c}
    /\ Send("peek", c)
    /\ UNCHANGED <<listed, details, loaded, modal>>

SaveOutcome(c)  == Editable(c) /\ Send("outcome", c) /\ UNCHANGED screenVars
SaveFollowUp(c) == Editable(c) /\ Send("followUp", c) /\ UNCHANGED screenVars
\* The editor of the AI summary is inside the detail of an analysed case; its
\* save button looks at the text alone.
SaveAiSummary(c) == WithDetail(c) /\ Send("summary", c) /\ UNCHANGED screenVars

\* Sends all drafts, without the lock; a draft and a detail without a glosa
\* stop it, or the backend does.
CloseCase(c) == Editable(c) /\ Send("close", c) /\ UNCHANGED screenVars
ReopenCase(c) == Shown(c) /\ listed[c] = "closed" /\ Send("reopen", c) /\ UNCHANGED screenVars
\* The badge of new messages is on the folded card too.
ReopenWithNewMessages(c) == Card(c) /\ listed[c] = "closed" /\ Send("reopen", c) /\ UNCHANGED screenVars

RefreshCorrelation(c) == Editable(c) /\ Send("change", c) /\ UNCHANGED screenVars
AddMessage(c)         == Editable(c) /\ Send("change", c) /\ UNCHANGED screenVars
RemoveMessage(c)      == Editable(c) /\ HasDetail(c) /\ Send("change", c) /\ UNCHANGED screenVars
BulkExclude(c)        == Editable(c) /\ Send("change", c) /\ UNCHANGED screenVars
ReassignOwner(c)      == Shown(c) /\ Send("change", c) /\ UNCHANGED screenVars
\* A note, the text of the last one or a piece of evidence.
AddNote(c)            == Editable(c) /\ Send("note", c) /\ UNCHANGED screenVars

\* Each ends with getCase for the detail alone; what they do to messages,
\* events and analyses is left out.
RetraceAttachments(c) == WithDetail(c) /\ Send("peek", c) /\ UNCHANGED screenVars
ValidateEvent(c)      == WithDetail(c) /\ Send("peek", c) /\ UNCHANGED screenVars
Analyze(c)            == Editable(c) /\ Send("peek", c) /\ UNCHANGED screenVars
\* A tick of the poll of an AI analysis started from here or resumed.
PollAiAnalysis(c)     == HasDetail(c) /\ Send("peek", c) /\ UNCHANGED screenVars

ReloadConflictedCase == modal # None /\ Send("reload", modal) /\ UNCHANGED screenVars
\* Escape and the cancel button of the modal, even while it reloads.
CancelConflict ==
    /\ modal # None
    /\ modal' = None
    /\ UNCHANGED <<row, listed, open, details, loaded, flights, historyVars>>

DeleteCase(c) == Shown(c) /\ Send("delete", c) /\ UNCHANGED screenVars
\* deleteCases of a scope: the case is one of those it deletes.
ClearCases(c) == Card(c) /\ Send("clear", c) /\ UNCHANGED screenVars

-----------------------------------------------------------------------------
(* The backend *)

\* Any write makes the copies of updated_at old; one of somebody else to a
\* field makes the form one that has not shown it.
Aged(v) == IF v = "none" THEN v ELSE "old"
Overtaken(r, c, F) ==
    IF r.case # c THEN r
    ELSE [r EXCEPT !.expected = Aged(@), !.saw = @ \ F,
                   !.answer = [version |-> Aged(r.answer.version), saw |-> r.answer.saw \ F]]
OldDetail(c) == [details EXCEPT ![c] = Aged(@)]

OtherUserEdits(c) ==
    /\ row[c] = "open"
    /\ \E f \in Fields :
          /\ saw' = [saw EXCEPT ![c] = @ \ {f}]
          /\ flights' = {Overtaken(r, c, {f}) : r \in flights}
    /\ details' = OldDetail(c)
    /\ UNCHANGED <<row, listed, open, loaded, modal, ahead, unread>>

OtherUserSetsStatus(c) ==
    /\ \E s \in Status \ {"gone"} : row[c] \notin {s, "gone"} /\ row' = [row EXCEPT ![c] = s]
    /\ details' = OldDetail(c)
    /\ flights' = {Overtaken(r, c, {}) : r \in flights}
    /\ UNCHANGED <<listed, open, loaded, modal, historyVars>>

\* _ensure_open and the checks of update_case; the lock is the WHERE clause.
NeedsOpen == Locked \cup {"close", "change", "note"}
Allowed(r) == /\ row[r.case] # "gone"
              /\ r.kind \in NeedsOpen => row[r.case] = "open"
\* Faulty variant: the UPDATE does not compare updated_at.
NoLock(r) == r.expected \in Versions
LockHolds(r) == r.expected # "old"

\* A write replaces a text that its form had not shown.
Overwrites(r) == ~(Writes(r.kind) \subseteq r.saw)

Written(r) == CASE r.kind = "close" -> "closed"
                [] r.kind = "reopen" -> "open"
                [] r.kind \in {"delete", "clear"} -> "gone"
                [] OTHER -> row[r.case]

\* The answer is get_case_detail after the write, in the same request.
Answered(r) ==
    [r EXCEPT !.pc = "answered", !.saw = {}, !.expected = "none",
              !.answer = IF r.kind \in Ends THEN NoAnswer
                         ELSE [version |-> "current", saw |-> Fields]]

Execute(r) ==
    /\ r.pc = "sent" /\ Allowed(r) /\ LockHolds(r)
    /\ row' = [row EXCEPT ![r.case] = Written(r)]
    /\ saw' = [saw EXCEPT ![r.case] = @ \cup Writes(r.kind)]
    /\ \/ /\ r.kind \notin Reads
          /\ flights' = {Answered(r)} \cup {Overtaken(x, r.case, {}) : x \in flights \ {r}}
          /\ details' = OldDetail(r.case)
       \/ /\ r.kind \in Reads \cup {"change"}   \* or a change that found nothing
          /\ flights' = {Answered(r)} \cup (flights \ {r})
          /\ UNCHANGED details
    /\ UNCHANGED <<listed, open, loaded, modal, ahead, unread>>

\* 412: the row is there and open, its updated_at is another.
Conflict(r) ==
    /\ r.pc = "sent" /\ Allowed(r) /\ ~LockHolds(r)
    /\ flights' = (flights \ {r}) \cup {[r EXCEPT !.pc = "conflict"]}
    /\ UNCHANGED <<row, screenVars, historyVars>>

-----------------------------------------------------------------------------
(* The answers *)

\* Any other error, before or after the write, and a network failure: a toast.
Fail(r) ==
    /\ r.pc # "conflict"
    /\ flights' = flights \ {r}
    /\ unread' = IF r.kind \in {"load", "peek"} THEN unread \cup {r.case} ELSE unread
    /\ UNCHANGED <<row, screenVars, saw, ahead>>

\* Faulty variant: the modal keeps the failed request for its case.
ShowConflictOfRequest(r) ==
    /\ r.pc = "conflict"
    /\ modal' = r
    /\ flights' = flights \ {r}
    /\ UNCHANGED <<row, listed, open, details, loaded, historyVars>>
ShowConflict(r) ==
    /\ r.pc = "conflict"
    /\ modal' = r.case
    /\ flights' = flights \ {r}
    /\ UNCHANGED <<row, listed, open, details, loaded, historyVars>>

\* refreshCases: its own failure leaves the list as it was.
RefreshCases == \/ listed' = [c \in Cases |-> row[c]]
                \/ UNCHANGED listed
Refreshing == {"outcome", "close", "reopen", "change", "reload"}

\* toggleCase and the effect of openCaseId fill the form too.
Refilled(x, c) ==
    IF x.case = c /\ x.kind \in Saves THEN [x EXCEPT !.crossed = TRUE] ELSE x

\* Faulty variant: the drafts are filled the first time only.
FillFormOnce(r) ==
    /\ r.pc = "answered" /\ r.kind = "load"
    /\ details' = [details EXCEPT ![r.case] = r.answer.version]
    /\ loaded' = [loaded EXCEPT ![r.case] = TRUE]
    /\ flights' = {Refilled(x, r.case) : x \in flights \ {r}}
    /\ saw' = IF loaded[r.case] THEN saw ELSE [saw EXCEPT ![r.case] = r.answer.saw]
    /\ ahead' = [ahead EXCEPT ![r.case] = None]
    /\ unread' = unread \ {r.case}
    /\ UNCHANGED <<row, listed, open, modal>>

FillForm(r) ==
    /\ r.pc = "answered" /\ r.kind = "load"
    /\ details' = [details EXCEPT ![r.case] = r.answer.version]
    /\ loaded' = [loaded EXCEPT ![r.case] = TRUE]
    /\ flights' = {Refilled(x, r.case) : x \in flights \ {r}}
    /\ saw' = [saw EXCEPT ![r.case] = r.answer.saw]
    /\ ahead' = [ahead EXCEPT ![r.case] = None]
    /\ unread' = unread \ {r.case}
    /\ UNCHANGED <<row, listed, open, modal>>

\* The others replace the detail and not the form: what they bring of somebody
\* else's edits, updated_at included, goes past the form.  The answer to a save
\* that had the lock brings nothing else, unless an older answer has refilled the
\* form in between.
KeepsPace(r) == r.kind \in Saves /\ r.origin # "none" /\ ~r.crossed
ReplaceDetail(r) ==
    /\ r.pc = "answered" /\ r.kind \notin {"load"} \cup Ends
    /\ details' = [details EXCEPT ![r.case] = r.answer.version]
    /\ ahead' = IF KeepsPace(r) THEN ahead
              ELSE [ahead EXCEPT ![r.case] = IF r.kind = "reload" THEN "reload" ELSE "refresh"]
    /\ modal' = IF r.kind = "reload" THEN None ELSE modal
    /\ IF r.kind \in Refreshing THEN RefreshCases ELSE UNCHANGED listed
    /\ flights' = flights \ {r}
    /\ unread' = unread \ {r.case}
    /\ UNCHANGED <<row, open, loaded, saw>>

\* The note or the evidence is put in the cached detail, whose updated_at stays.
AppendNote(r) ==
    /\ r.pc = "answered" /\ r.kind = "note"
    /\ flights' = flights \ {r}
    /\ UNCHANGED <<row, screenVars, historyVars>>

DropDeleted(r) ==
    /\ r.pc = "answered" /\ r.kind = "delete"
    /\ details' = [details EXCEPT ![r.case] = "none"]
    /\ open' = open \ {r.case}
    /\ RefreshCases
    /\ flights' = flights \ {r}
    /\ UNCHANGED <<row, loaded, modal, historyVars>>

\* Faulty variant: handleClear forgets the details and leaves the cards open.
DropAllDetails(r) ==
    /\ r.pc = "answered" /\ r.kind = "clear"
    /\ details' = [c \in Cases |-> "none"]
    /\ RefreshCases
    /\ flights' = flights \ {r}
    /\ UNCHANGED <<row, open, loaded, modal, historyVars>>
\* The drafts outlive the details here and above.
DropAll(r) ==
    /\ r.pc = "answered" /\ r.kind = "clear"
    /\ details' = [c \in Cases |-> "none"]
    /\ open' = {}
    /\ RefreshCases
    /\ flights' = flights \ {r}
    /\ UNCHANGED <<row, loaded, modal, historyVars>>

-----------------------------------------------------------------------------
(* Specification *)

User(c) ==
    \/ ToggleCase(c) \/ OpenFromLink(c) \/ ResumeMailboxSearch(c)
    \/ SaveOutcome(c) \/ SaveFollowUp(c) \/ SaveAiSummary(c)
    \/ CloseCase(c) \/ ReopenCase(c) \/ ReopenWithNewMessages(c)
    \/ RefreshCorrelation(c) \/ AddMessage(c) \/ RemoveMessage(c) \/ BulkExclude(c)
    \/ ReassignOwner(c) \/ AddNote(c)
    \/ RetraceAttachments(c) \/ ValidateEvent(c) \/ Analyze(c) \/ PollAiAnalysis(c)
    \/ DeleteCase(c) \/ ClearCases(c)
Others(c) == OtherUserEdits(c) \/ OtherUserSetsStatus(c)
Backend(r) == Execute(r) \/ Conflict(r)
Answers(r) == \/ Fail(r) \/ ShowConflict(r) \/ FillForm(r) \/ ReplaceDetail(r) \/ AppendNote(r)
              \/ DropDeleted(r) \/ DropAll(r)

Next ==
    \/ \E c \in Cases : User(c) \/ Others(c)
    \/ ReloadConflictedCase \/ CancelConflict
    \/ \E r \in flights : Backend(r) \/ Answers(r)

Spec == Init /\ [][Next]_vars

-----------------------------------------------------------------------------
(* Properties *)

\* The optimistic lock protects the form, not only the copy of updated_at: a
\* save sent from a form that was filled with the detail whose updated_at it
\* sends never replaces an edit of another user that the form had not shown.
Accepted(r) == r.pc = "sent" /\ r.kind \in Locked /\ Allowed(r) /\ LockHolds(r)
LockProtectsTheForm ==
    \A r \in flights : Accepted(r) /\ r.origin = "form" => ~Overwrites(r)

\* What the lock rests on: a cached updated_at that is still current belongs to
\* a form that shows every edit of the others, unless a refresh of the detail
\* alone, a save without a detail or one crossed by a load went past the form.
CurrentMeansShown ==
    \A c \in Cases :
        details[c] = "current" /\ loaded[c] /\ ahead[c] = None => saw[c] = Fields

\* An unfolded card has its detail, or a request that brings it, or one that
\* failed: no order of toggles, links, deletions and answers leaves a card that
\* says "Cargando detalle" with nobody loading it.
OpenCardLoads ==
    \A c \in open : HasDetail(c) \/ Pending("load", c) \/ Pending("peek", c) \/ c \in unread

\* What the conflict dialog promises (cases_service.py:1111): reload to see the
\* changes before saving again.  After the reload a save that is accepted
\* replaces nothing unseen.
ReloadShowsTheChanges ==
    \A r \in flights : Accepted(r) /\ r.origin = "reload" => ~Overwrites(r)
=============================================================================
