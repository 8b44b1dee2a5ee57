------------------------------ MODULE CaseFile ------------------------------
(***************************************************************************)
(* One case file (expediente): its row of mailing.cases, the messages      *)
(* linked to it and the AI summary on its timeline, under everything that  *)
(* works on it at once: browser sessions that save edits, requests that    *)
(* change its content, AI analyses, and the global scan.  None of them     *)
(* holds a lock between its statements: each checks that the case is open  *)
(* in one SELECT and writes in later statements; only the saves of the     *)
(* conclusion, the follow-up and the summary carry expected_updated_at.    *)
(*                                                                         *)
(* Sources: backend/app/services/cases_service.py,                         *)
(* repositories/cases_repository.py, services/ai/gateway.py,               *)
(* repositories/ai_runs_repository.py, frontend/src/views/CasesView.tsx.   *)
(*                                                                         *)
(* Every request comes from a user who may edit the case.  The timeline    *)
(* entries other than the AI summary and the audit log are left out: they  *)
(* are written after the change they report and nothing reads them back.   *)
(***************************************************************************)
EXTENDS FiniteSets

CONSTANTS
    Messages,       \* the messages that may be indexed, and linked to the case
    Sessions,       \* browser sessions with the case open
    Requests,       \* requests in flight that change the content of the case
    Analyses,       \* ai_run_id values: AI analyses of the case
    Kinds           \* the kinds of request that are made

AllKinds == {"note", "evidence", "add", "remove", "refresh", "reopen", "reuse", "scan"}

ASSUME KindsAssumption == Kinds \subseteq AllKinds

VARIABLES
    \* the row: status, outcome = 'sin_hallazgos', closing_glosa not blank,
    \* pending_reopen_message_count > 0, ai_stale
    status, sinHallazgos, glosa, pendingNew, aiStale,
    \* mailing.messages, mailing.case_messages, the ai_case_summary rows of
    \* timeline_events, and the status of the rows of ai_runs
    indexed, linked, summaries, runStatus,
    \* per session: updated_at of its copy is that of the row; its PATCH in flight
    current, edit,
    \* per request, per analysis: where it is and its local variables
    req, analysis,
    \* history: the content changed since the last summary was applied
    changed,
    \* history: since that summary a crash or an error took a request that was
    \* to set ai_stale, or a request that does not set it made a change; the
    \* last crash took an analysis between its DELETE and its INSERT
    lost, silent, torn

rowVars     == <<status, sinHallazgos, glosa, pendingNew>>
contentVars == <<indexed, linked, changed, analysis>>
sessionVars == <<current, edit>>
vars == <<rowVars, aiStale, contentVars, summaries, runStatus, sessionVars, req,
          lost, silent, torn>>

Exists == status # "deleted"
Parts  == {"messages", "notes"}

NoEdit == [kind |-> "none", value |-> FALSE]
Saves  == {"outcome", "followUp", "summary"}
Edit   == [kind : {"none", "close", "reopen"} \cup Saves, value : BOOLEAN]

ReqPC == {"idle", "write", "look", "link", "unlink", "mark", "reopen", "recheck", "count",
          "seeds", "seed"}
RequestState == [pc : ReqPC, kind : AllKinds, todo : SUBSET Messages, dirty : BOOLEAN]
Idle  == [pc |-> "idle", kind |-> "note", todo |-> {}, dirty |-> FALSE]

AnalysisPC == {"none", "messages", "notes", "insert", "call", "clear", "event", "apply",
               "record", "fail", "escaped", "done"}
AnalysisState == [pc : AnalysisPC, batch : BOOLEAN, outdated : BOOLEAN]
Unstarted  == [pc |-> "none", batch |-> FALSE, outdated |-> FALSE]

TypeOK ==
    /\ status \in {"open", "closed", "deleted"}
    /\ sinHallazgos \in BOOLEAN /\ glosa \in BOOLEAN /\ pendingNew \in BOOLEAN
    /\ aiStale \in BOOLEAN /\ changed \in BOOLEAN
    /\ lost \in BOOLEAN /\ silent \in BOOLEAN /\ torn \in BOOLEAN
    /\ indexed \in SUBSET Messages
    /\ linked \in SUBSET Messages
    /\ summaries \in SUBSET Analyses
    /\ runStatus \in [Analyses -> {"none", "running", "success", "failed"}]
    /\ current \in [Sessions -> BOOLEAN]
    /\ edit \in [Sessions -> Edit]
    /\ req \in [Requests -> RequestState]
    /\ analysis \in [Analyses -> AnalysisState]

\* A case just created, with the messages its creation found.
Init ==
    /\ status = "open"
    /\ sinHallazgos = FALSE /\ glosa = FALSE /\ pendingNew = FALSE /\ aiStale = FALSE
    /\ indexed = Messages
    /\ linked \in SUBSET Messages
    /\ summaries = {}
    /\ runStatus = [a \in Analyses |-> "none"]
    /\ current = [e \in Sessions |-> TRUE]
    /\ edit = [e \in Sessions |-> NoEdit]
    /\ req = [q \in Requests |-> Idle]
    /\ analysis = [a \in Analyses |-> Unstarted]
    /\ changed = FALSE
    /\ lost = FALSE /\ silent = FALSE /\ torn = FALSE

\* update_case sets updated_at: every copy held by a session is out of date.
Touch == current' = [e \in Sessions |-> FALSE]

\* An analysis that has read the messages, or all, and not yet applied its summary.
Reading == {"notes", "insert", "call", "clear", "event", "apply"}

HasRead(a) ==
    CASE analysis[a].pc = "notes" -> {"messages"}
      [] analysis[a].pc \in Reading \ {"notes"} -> Parts
      [] OTHER -> {}

ContentChanges(P) ==
    /\ changed' = (changed \/ P # {})
    /\ analysis' = [a \in Analyses |->
            [analysis[a] EXCEPT !.outdated = @ \/ P \cap HasRead(a) # {}]]

-----------------------------------------------------------------------------
(* Requests that change the content *)

\* A request that has changed, or is to change, the content and sets ai_stale after.
WillMark(q) == req[q].dirty /\ req[q].pc \in {"link", "unlink", "mark"}

\* The rest of a request whose correlation or update is over: create_case
\* goes on to link its seed messages, the others return.
Return(r) ==
    IF r.kind = "reuse" /\ r.pc # "seed"
    THEN [r EXCEPT !.pc = "seeds", !.todo = {}, !.dirty = FALSE]
    ELSE Idle

\* Faulty variant of Settle: _mark_ai_stale is not called after the loop.
SettleWithoutMark(r) == IF r.todo # {} THEN r ELSE Return(r)

\* The loop over the messages is left when none remains: _mark_ai_stale if
\* the request saw something new.
Settle(r) ==
    IF r.todo # {} THEN r
    ELSE IF r.dirty THEN [r EXCEPT !.pc = "mark"] ELSE Return(r)

Goto(q, r) == req' = [req EXCEPT ![q] = r]

FirstStep(k) ==
    CASE k \in {"note", "evidence"}          -> "write"
      [] k \in {"add", "refresh", "reuse"}   -> "look"
      [] k = "remove"                        -> "unlink"
      [] k = "reopen"                        -> "reopen"
      [] k = "scan"                          -> "count"

\* get_case_core with its checks: reopening and the scan want a closed case,
\* the rest an open one.
Begin(q, k) ==
    /\ req[q].pc = "idle"
    /\ k \in Kinds
    /\ status = IF k \in {"reopen", "scan"} THEN "closed" ELSE "open"
    /\ \E N \in IF k = "remove" THEN SUBSET Messages \ {{}} ELSE {{}} :
          Goto(q, [pc |-> FirstStep(k), kind |-> k, todo |-> N, dirty |-> FALSE])
    /\ UNCHANGED <<rowVars, aiStale, contentVars, summaries, runStatus, sessionVars, lost,
                   silent, torn>>

\* add_case_note and update_case_note, add_case_evidence.  On a case that is
\* gone the foreign key fails and the request ends.
Write(q) ==
    /\ req[q].pc = "write"
    /\ IF Exists
       THEN /\ ContentChanges(IF req[q].kind = "note" THEN {"notes"} ELSE {})
            /\ Goto(q, [req[q] EXCEPT !.pc = "mark", !.dirty = TRUE])
       ELSE Goto(q, Idle) /\ UNCHANGED <<changed, analysis>>
    /\ UNCHANGED <<rowVars, aiStale, indexed, linked, summaries, runStatus, sessionVars, lost,
                   silent, torn>>

\* add_message_to_case reads whether its message, which must be indexed, is
\* linked already; _find_new_case_matches looks for matches that are not.
Look(q) ==
    /\ req[q].pc = "look"
    /\ \E N \in SUBSET indexed :
          /\ IF req[q].kind = "add" THEN Cardinality(N) = 1 ELSE N \cap linked = {}
          /\ Goto(q, Settle([req[q] EXCEPT !.pc = "link", !.todo = N,
                                           !.dirty = N # {} /\ N \cap linked = {}]))
    /\ UNCHANGED <<rowVars, aiStale, contentVars, summaries, runStatus, sessionVars, lost,
                   silent, torn>>

\* insert_case_message, an upsert, one message at a time.  For a message that
\* is no longer indexed, or a case that is gone, a foreign key fails: the
\* request ends there, with what it has linked and without its mark.
Link(q) ==
    /\ req[q].pc \in {"link", "seed"}
    /\ \E m \in req[q].todo :
          IF Exists /\ m \in indexed
          THEN /\ linked' = linked \cup {m}
               /\ ContentChanges(IF m \in linked THEN {} ELSE {"messages"})
               /\ silent' = (silent \/ (m \notin linked /\ ~req[q].dirty))
               /\ Goto(q, Settle([req[q] EXCEPT !.todo = @ \ {m}]))
               /\ UNCHANGED lost
          ELSE /\ lost' = (lost \/ (Exists /\ WillMark(q)))
               /\ Goto(q, Idle)
               /\ UNCHANGED <<linked, changed, analysis, silent>>
    /\ UNCHANGED <<rowVars, aiStale, indexed, summaries, runStatus, sessionVars, torn>>

\* remove_case_message, one message at a time; it tells whether it was linked.
Unlink(q) ==
    /\ req[q].pc = "unlink"
    /\ \E m \in req[q].todo :
          /\ linked' = linked \ {m}
          /\ ContentChanges(IF m \in linked THEN {"messages"} ELSE {})
          /\ Goto(q, Settle([req[q] EXCEPT !.todo = @ \ {m}, !.dirty = @ \/ m \in linked]))
    /\ UNCHANGED <<rowVars, aiStale, indexed, summaries, runStatus, sessionVars, lost, silent,
                   torn>>

MarkAiStale(q) ==
    /\ req[q].pc = "mark"
    /\ IF Exists THEN aiStale' = TRUE /\ Touch ELSE UNCHANGED <<aiStale, current>>
    /\ Goto(q, Return(req[q]))
    /\ UNCHANGED <<rowVars, contentVars, summaries, runStatus, edit, lost, silent, torn>>

\* create_case on a case it found by code or title: the messages of its own
\* search and their heuristic relatives, after the refresh and without a mark.
FindSeeds(q) ==
    /\ req[q].pc = "seeds"
    /\ \E N \in SUBSET indexed : Goto(q, Settle([req[q] EXCEPT !.pc = "seed", !.todo = N]))
    /\ UNCHANGED <<rowVars, aiStale, contentVars, summaries, runStatus, sessionVars, lost,
                   silent, torn>>

\* reopen_case_with_new_messages: the UPDATE ...
ReopenRow(q) ==
    /\ req[q].pc = "reopen"
    /\ IF Exists
       THEN /\ status' = "open" /\ pendingNew' = FALSE /\ Touch
            /\ Goto(q, [req[q] EXCEPT !.pc = "recheck"])
       ELSE Goto(q, Idle) /\ UNCHANGED <<status, pendingNew, current>>
    /\ UNCHANGED <<sinHallazgos, glosa, aiStale, contentVars, summaries, runStatus, edit, lost,
                   silent, torn>>

\* ... then refresh_case_correlation with its own check.
Recheck(q) ==
    /\ req[q].pc = "recheck"
    /\ Goto(q, IF status = "open" THEN [req[q] EXCEPT !.pc = "look"] ELSE Idle)
    /\ UNCHANGED <<rowVars, aiStale, contentVars, summaries, runStatus, sessionVars, lost,
                   silent, torn>>

\* The scan of refresh_all_cases writes its count whatever the case is by now.
SetPendingCount(q) ==
    /\ req[q].pc = "count"
    /\ IF Exists THEN pendingNew' \in BOOLEAN /\ Touch ELSE UNCHANGED <<pendingNew, current>>
    /\ Goto(q, Idle)
    /\ UNCHANGED <<status, sinHallazgos, glosa, aiStale, contentVars, summaries, runStatus, edit,
                   lost, silent, torn>>

-----------------------------------------------------------------------------
(* Edits of the row by the sessions *)

\* getCase: the session takes a new copy.
Load(e) ==
    /\ Exists
    /\ edit[e] = NoEdit
    /\ current' = [current EXCEPT ![e] = TRUE]
    /\ UNCHANGED <<rowVars, aiStale, contentVars, summaries, runStatus, edit, req, lost, silent,
                   torn>>

\* PATCH of the case, up to its checks.  Closing sends the conclusion, which
\* may not be sin_hallazgos, and the glosa, which may not be blank; a save
\* wants an open case; reopening sends the status alone.
BeginEdit(e, k, v) ==
    /\ edit[e] = NoEdit
    /\ status = IF k = "reopen" THEN "closed" ELSE "open"
    /\ edit' = [edit EXCEPT ![e] = [kind |-> k, value |-> v]]
    /\ UNCHANGED <<rowVars, aiStale, contentVars, summaries, runStatus, current, req, lost,
                   silent, torn>>

EndEdit(e, k) == edit[e].kind = k /\ edit' = [edit EXCEPT ![e] = NoEdit]

\* The UPDATE of a close has no expected_updated_at.
CloseCase(e) ==
    /\ EndEdit(e, "close")
    /\ IF Exists
       THEN /\ status' = "closed" /\ sinHallazgos' = FALSE /\ glosa' = TRUE
            /\ pendingNew' = FALSE /\ Touch
       ELSE UNCHANGED <<rowVars, current>>
    /\ UNCHANGED <<aiStale, contentVars, summaries, runStatus, req, lost, silent, torn>>

\* Faulty variant of ReopenCase: a status the pollers do not know.
ReopenCaseAsReopened(e) ==
    /\ EndEdit(e, "reopen")
    /\ IF Exists THEN status' = "reopened" /\ Touch ELSE UNCHANGED <<status, current>>
    /\ UNCHANGED <<sinHallazgos, glosa, pendingNew, aiStale, contentVars, summaries, runStatus,
                   req, lost, silent, torn>>

\* Nor has that of the plain reopening, which leaves the pending count.
ReopenCase(e) ==
    /\ EndEdit(e, "reopen")
    /\ IF Exists THEN status' = "open" /\ Touch ELSE UNCHANGED <<status, current>>
    /\ UNCHANGED <<sinHallazgos, glosa, pendingNew, aiStale, contentVars, summaries, runStatus,
                   req, lost, silent, torn>>

\* Faulty variant of LockHolds: no AND updated_at = $N.
RowIsThere(e) == Exists

\* AND updated_at = $N: a session whose copy is out of date gets a conflict.
LockHolds(e) == Exists /\ current[e]

SaveOutcome(e) ==
    /\ EndEdit(e, "outcome")
    /\ IF LockHolds(e)
       THEN sinHallazgos' = edit[e].value /\ Touch
       ELSE UNCHANGED <<sinHallazgos, current>>
    /\ UNCHANGED <<status, glosa, pendingNew, aiStale, contentVars, summaries, runStatus, req,
                   lost, silent, torn>>

SaveFollowUp(e) ==
    /\ EndEdit(e, "followUp")
    /\ IF LockHolds(e) THEN glosa' = edit[e].value /\ Touch ELSE UNCHANGED <<glosa, current>>
    /\ UNCHANGED <<status, sinHallazgos, pendingNew, aiStale, contentVars, summaries, runStatus,
                   req, lost, silent, torn>>

\* update_ai_summary: the corrected text itself is left out.
SaveSummary(e) ==
    /\ EndEdit(e, "summary")
    /\ IF LockHolds(e) THEN Touch ELSE UNCHANGED current
    /\ UNCHANGED <<rowVars, aiStale, contentVars, summaries, runStatus, req, lost, silent, torn>>

\* DELETE of the case, or its absorption by merge_cases: the cascades take
\* its content.  The columns of a row that is gone are all FALSE here.
DeleteRow ==
    /\ status' = "deleted"
    /\ linked' = {} /\ summaries' = {} /\ changed' = FALSE
    /\ current' = [e \in Sessions |-> FALSE]
    /\ sinHallazgos' = FALSE /\ glosa' = FALSE /\ pendingNew' = FALSE /\ aiStale' = FALSE
    /\ lost' = FALSE /\ silent' = FALSE /\ torn' = FALSE
    /\ UNCHANGED <<analysis, runStatus, edit, req>>

DeleteCase == Exists /\ DeleteRow /\ UNCHANGED indexed

\* cascade_delete_mailbox_content, one transaction: a case with no other
\* messages goes with the mailbox; another loses those and is marked, open or
\* not, its updated_at kept.
DeleteMailbox ==
    \E gone \in SUBSET indexed \ {{}} :
       /\ indexed' = indexed \ gone
       /\ IF linked # {} /\ linked \subseteq gone
          THEN DeleteRow
          ELSE /\ linked' = linked \ gone
               /\ ContentChanges(IF linked \cap gone = {} THEN {} ELSE {"messages"})
               /\ aiStale' = (aiStale \/ linked \cap gone # {})
               /\ UNCHANGED <<rowVars, summaries, runStatus, sessionVars, req, lost, silent,
                              torn>>

\* The upsert of a fetch: a message is indexed, or again after its deletion.
IndexMessage(m) ==
    /\ m \notin indexed
    /\ indexed' = indexed \cup {m}
    /\ UNCHANGED <<rowVars, aiStale, linked, changed, analysis, summaries, runStatus, sessionVars,
                   req, lost, silent, torn>>

-----------------------------------------------------------------------------
(* AI analyses: start_case_analysis with its background _finish, and        *)
(* analyze_case for the batch                                               *)

Advance(a, from, to) ==
    /\ analysis[a].pc = from
    /\ analysis' = [analysis EXCEPT ![a].pc = to,
                                   ![a].outdated = IF to \in Reading THEN @ ELSE FALSE]

AnalysisOnly ==
    UNCHANGED <<rowVars, indexed, linked, changed, edit, req, lost, silent, torn>>

\* _check_eligibility
StartAnalysis(a, batch) ==
    /\ analysis[a].pc = "none"
    /\ status = "open" /\ ~sinHallazgos
    /\ analysis' = [analysis EXCEPT ![a].pc = "messages", ![a].batch = batch]
    /\ AnalysisOnly /\ UNCHANGED <<aiStale, summaries, runStatus, current>>

ReadMessages(a) ==
    /\ Advance(a, "messages", "notes")
    /\ AnalysisOnly /\ UNCHANGED <<aiStale, summaries, runStatus, current>>

ReadNotes(a) ==
    /\ Advance(a, "notes", IF analysis[a].batch THEN "call" ELSE "insert")
    /\ AnalysisOnly /\ UNCHANGED <<aiStale, summaries, runStatus, current>>

\* The row 'running', before the call to the provider.
InsertRun(a) ==
    /\ Advance(a, "insert", IF Exists THEN "call" ELSE "done")
    /\ runStatus' = [runStatus EXCEPT ![a] = IF Exists THEN "running" ELSE @]
    /\ AnalysisOnly /\ UNCHANGED <<aiStale, summaries, current>>

\* An exception that is not ProviderUnavailableError ends _finish and leaves
\* its row; the batch logs it and goes on.
Escape(a) == IF analysis[a].batch THEN "done" ELSE "escaped"

\* Faulty variant of ProviderReturns: a provider error ends _finish unrecorded.
ProviderErrorUnrecorded(a) ==
    /\ \E next \in {"clear", "done", Escape(a)} : Advance(a, "call", next)
    /\ AnalysisOnly /\ UNCHANGED <<aiStale, summaries, runStatus, current>>

\* provider.analyze: a summary; an error or no valid JSON; an exception that
\* the provider's class does not translate.
ProviderReturns(a) ==
    /\ \E next \in {"clear", "fail", Escape(a)} : Advance(a, "call", next)
    /\ AnalysisOnly /\ UNCHANGED <<aiStale, summaries, runStatus, current>>

ClearSummaries(a) ==
    /\ Advance(a, "clear", "event")
    /\ summaries' = {}
    /\ AnalysisOnly /\ UNCHANGED <<aiStale, runStatus, current>>

InsertSummary(a) ==
    /\ Advance(a, "event", IF Exists THEN "apply" ELSE Escape(a))
    /\ summaries' = IF Exists THEN summaries \cup {a} ELSE summaries
    /\ torn' = (torn /\ ~Exists)
    /\ UNCHANGED <<rowVars, aiStale, indexed, linked, changed, runStatus, sessionVars, req, lost,
                   silent>>

\* update_case with ai_stale = false and no expected_updated_at.
ApplySummary(a) ==
    /\ analysis[a].pc = "apply"
    /\ analysis' = [analysis EXCEPT ![a].pc = "record", ![a].outdated = FALSE]
    /\ IF Exists
       THEN /\ aiStale' = FALSE /\ Touch
            /\ changed' = FALSE /\ lost' = FALSE /\ silent' = FALSE
       ELSE UNCHANGED <<aiStale, current, changed, lost, silent>>
    /\ UNCHANGED <<rowVars, indexed, linked, summaries, runStatus, edit, req, torn>>

\* Faulty variant of RecordRun: status keeps its initial "success" on bad JSON.
RecordSuccess(a) ==
    /\ analysis[a].pc \in {"record", "fail"}
    /\ analysis' = [analysis EXCEPT ![a].pc = "done"]
    /\ runStatus' = [runStatus EXCEPT ![a] = IF analysis[a].batch /\ ~Exists THEN @ ELSE "success"]
    /\ AnalysisOnly /\ UNCHANGED <<aiStale, summaries, current>>

\* update_ai_run, or for the batch insert_ai_run, which needs the case.
RecordRun(a) ==
    /\ analysis[a].pc \in {"record", "fail"}
    /\ analysis' = [analysis EXCEPT ![a].pc = "done"]
    /\ runStatus' = [runStatus EXCEPT ![a] =
            IF analysis[a].batch /\ ~Exists THEN @
            ELSE IF analysis[a].pc = "record" THEN "success" ELSE "failed"]
    /\ AnalysisOnly /\ UNCHANGED <<aiStale, summaries, current>>

\* The backend dies and starts again: fail_orphaned_ai_runs.
Restart ==
    /\ req' = [q \in Requests |-> Idle]
    /\ edit' = [e \in Sessions |-> NoEdit]
    /\ analysis' = [a \in Analyses |->
            IF analysis[a].pc = "none" THEN Unstarted ELSE [Unstarted EXCEPT !.pc = "done"]]
    /\ runStatus' = [a \in Analyses |-> IF runStatus[a] = "running" THEN "failed" ELSE runStatus[a]]
    /\ lost' = (lost \/ (Exists /\ \E q \in Requests : WillMark(q)))
    /\ torn' = (torn \/ (Exists /\ \E a \in Analyses : analysis[a].pc = "event"))
    /\ UNCHANGED <<rowVars, aiStale, indexed, linked, changed, summaries, current, silent>>

-----------------------------------------------------------------------------
RequestStep(q) ==
    \/ \E k \in AllKinds : Begin(q, k)
    \/ Write(q) \/ Look(q) \/ Link(q) \/ Unlink(q) \/ MarkAiStale(q) \/ FindSeeds(q)
    \/ ReopenRow(q) \/ Recheck(q) \/ SetPendingCount(q)

SessionStep(e) ==
    \/ Load(e)
    \/ \E k \in {"outcome", "followUp"}, v \in BOOLEAN : BeginEdit(e, k, v)
    \/ \E k \in {"close", "reopen", "summary"} : BeginEdit(e, k, FALSE)
    \/ CloseCase(e) \/ ReopenCase(e) \/ SaveOutcome(e) \/ SaveFollowUp(e) \/ SaveSummary(e)

AnalysisStep(a) ==
    \/ ReadMessages(a) \/ ReadNotes(a) \/ InsertRun(a) \/ ProviderReturns(a)
    \/ ClearSummaries(a) \/ InsertSummary(a) \/ ApplySummary(a) \/ RecordRun(a)

Next ==
    \/ \E q \in Requests : RequestStep(q)
    \/ \E e \in Sessions : SessionStep(e)
    \/ \E a \in Analyses : AnalysisStep(a) \/ \E batch \in BOOLEAN : StartAnalysis(a, batch)
    \/ \E m \in Messages : IndexMessage(m)
    \/ DeleteCase
    \/ DeleteMailbox
    \/ Restart

Spec == Init /\ [][Next]_vars

\* The event loop runs every analysis it has started; the call to the
\* provider ends within its timeout of 120 s.
Fairness == \A a \in Analyses : WF_vars(AnalysisStep(a))

FairSpec == Spec /\ Fairness

-----------------------------------------------------------------------------
(* Properties *)

\* A closed case has a closing glosa and a conclusion that admits closing,
\* although every check is on an earlier SELECT: the close writes all three
\* columns at once and the saves that could undo them carry the lock.
ClosedIsConcluded == status = "closed" => glosa /\ ~sinHallazgos

\* A change of the content since the last summary was applied is announced by
\* ai_stale, or is about to be; the exceptions are a crash or an error in
\* between and the two paths that link a message without the mark.
ChangesAreAnnounced ==
    Exists /\ changed => aiStale \/ (\E q \in Requests : WillMark(q)) \/ lost \/ silent

\* A case with a successful analysis has a summary on its timeline, but for
\* the moment when another analysis replaces it, or a crash at that moment.
SuccessHasSummary ==
    Exists /\ (\E a \in Analyses : runStatus[a] = "success")
        => summaries # {} \/ (\E a \in Analyses : analysis[a].pc = "event") \/ torn

\* An analysis shown as running ends, unless an exception took its _finish.
AnalysisEnds ==
    \A a \in Analyses :
        (runStatus[a] = "running") ~> (runStatus[a] # "running" \/ analysis[a].pc = "escaped")

\* The comment of ai_stale: true if the case changed (note or message added or
\* removed) after its last successful analysis.  Not kept, and in no
\* configuration: create_case links seeds to a case that exists unannounced.
EveryChangeIsAnnounced ==
    Exists /\ changed /\ (\E a \in Analyses : runStatus[a] = "success")
        => aiStale \/ (\E q \in Requests : WillMark(q)) \/ lost

\* _parse_and_apply's comment: ai_stale is cleared because the new text already
\* reflects what is indexed so far.
ClearedMeansReflected ==
    [][\A a \in Analyses : analysis[a].pc = "apply" /\ aiStale /\ ~aiStale'
            => ~analysis[a].outdated]_vars

\* The first business rule of 20260722_0002_mailing_cases_ai_stale.sql: a
\* closed case admits no change of its messages, notes or conclusion.  Not kept,
\* and in no configuration: the check is on a row read earlier.
ClosedIsFrozen ==
    [][status = "closed" /\ status' = "closed"
            => UNCHANGED <<linked, changed, sinHallazgos>>]_vars
=============================================================================
