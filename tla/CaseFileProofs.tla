--------------------------- MODULE CaseFileProofs ---------------------------
(***************************************************************************)
(* TLAPS proofs about CaseFile, for any sets of messages, sessions,        *)
(* requests and analyses and any kinds of request: type correctness, then  *)
(* one chapter per safety invariant, each with the strengthening that      *)
(* makes it inductive.                                                     *)
(***************************************************************************)
EXTENDS CaseFile, TLAPS

USE DEF rowVars, contentVars, sessionVars, Exists

-----------------------------------------------------------------------------
(* Types *)

\* A request that has ended is a well-typed one.
LEMMA IdleType == Idle \in RequestState
BY DEF Idle, RequestState, ReqPC, AllKinds

\* A request that has finished its loops is idle or goes on, with nothing to
\* mark, to look for its seeds; either way its local state is well typed.
LEMMA ReturnType ==
    ASSUME NEW r \in RequestState
    PROVE  Return(r) \in RequestState /\ Return(r).dirty = FALSE
<1>1. CASE r.kind = "reuse" /\ r.pc # "seed"
  <2> DEFINE s == [r EXCEPT !.pc = "seeds", !.todo = {}, !.dirty = FALSE]
  <2>1. "seeds" \in ReqPC
    BY DEF ReqPC
  <2>2. s \in RequestState /\ s.dirty = FALSE
    BY <2>1 DEF RequestState
  <2>3. Return(r) = s
    BY <1>1 DEF Return
  <2>4. QED
    BY <2>2, <2>3
<1>2. CASE ~(r.kind = "reuse" /\ r.pc # "seed")
  <2>1. Return(r) = Idle
    BY <1>2 DEF Return
  <2>2. Idle.dirty = FALSE
    BY DEF Idle
  <2>3. QED
    BY <2>1, <2>2, IdleType
<1>3. QED
  BY <1>1, <1>2

\* The end of a loop of a request leaves its local state well typed.
LEMMA SettleType ==
    ASSUME NEW r \in RequestState
    PROVE  Settle(r) \in RequestState
<1>1. [r EXCEPT !.pc = "mark"] \in RequestState
  BY DEF RequestState, ReqPC
<1>2. QED
  BY <1>1, ReturnType DEF Settle

\* An analysis that advances stays well typed.
LEMMA AdvanceType ==
    ASSUME analysis \in [Analyses -> AnalysisState], NEW a \in Analyses,
           NEW from, NEW to \in AnalysisPC, Advance(a, from, to)
    PROVE  analysis' \in [Analyses -> AnalysisState]
<1>1. [analysis[a] EXCEPT !.pc = to, !.outdated = IF to \in Reading THEN @ ELSE FALSE] \in AnalysisState
  BY DEF AnalysisState
<1>2. QED
  BY <1>1 DEF Advance

\* A change of the content keeps the types of what it marks.
LEMMA ContentChangesType ==
    ASSUME analysis \in [Analyses -> AnalysisState], changed \in BOOLEAN, NEW P, ContentChanges(P)
    PROVE  analysis' \in [Analyses -> AnalysisState] /\ changed' \in BOOLEAN
<1>1. ASSUME NEW a \in Analyses
      PROVE [analysis[a] EXCEPT !.outdated = @ \/ P \cap HasRead(a) # {}] \in AnalysisState
  <2>1. analysis[a] \in AnalysisState
    OBVIOUS
  <2> QED
    BY <2>1 DEF AnalysisState
<1>2. analysis' \in [Analyses -> AnalysisState]
  BY <1>1 DEF ContentChanges
<1>3. QED
  BY <1>2 DEF ContentChanges

\* A request that moves to a well-typed state leaves all requests well typed.
LEMMA GotoType ==
    ASSUME req \in [Requests -> RequestState], NEW q \in Requests, NEW r \in RequestState, Goto(q, r)
    PROVE  req' \in [Requests -> RequestState]
BY DEF Goto

\* The steps of the requests keep the types.
LEMMA RequestType ==
    ASSUME TypeOK, NEW q \in Requests, RequestStep(q)
    PROVE  TypeOK'
<1>0. req[q] \in RequestState
  BY DEF TypeOK
<1>1. ASSUME NEW k \in AllKinds, Begin(q, k)
     PROVE  TypeOK'
  <2>1. FirstStep(k) \in ReqPC
    BY DEF FirstStep, ReqPC, AllKinds
  <2>2. ASSUME NEW N \in SUBSET Messages
        PROVE  [pc |-> FirstStep(k), kind |-> k, todo |-> N, dirty |-> FALSE] \in RequestState
    BY <2>1 DEF RequestState
  <2>3. req' \in [Requests -> RequestState]
    BY <1>1, <2>2, GotoType DEF Begin, TypeOK
  <2>4. QED
    BY <1>1, <2>3 DEF Begin, TypeOK
<1>2. CASE Write(q)
  <2>1. [req[q] EXCEPT !.pc = "mark", !.dirty = TRUE] \in RequestState
    BY <1>0 DEF RequestState, ReqPC
  <2>2. req' \in [Requests -> RequestState]
    BY <1>2, <2>1, GotoType, IdleType DEF Write, TypeOK
  <2>3. analysis' \in [Analyses -> AnalysisState] /\ changed' \in BOOLEAN
    BY <1>2, ContentChangesType DEF Write, TypeOK
  <2>4. QED
    BY <1>2, <2>2, <2>3 DEF Write, TypeOK
<1>3. CASE Look(q)
  <2>1. ASSUME NEW N \in SUBSET Messages
        PROVE  Settle([req[q] EXCEPT !.pc = "link", !.todo = N,
                                     !.dirty = N # {} /\ N \cap linked = {}]) \in RequestState
    <3>1. [req[q] EXCEPT !.pc = "link", !.todo = N, !.dirty = N # {} /\ N \cap linked = {}]
              \in RequestState
      BY <1>0 DEF RequestState, ReqPC
    <3>2. QED
      BY <3>1, SettleType
  <2>2. req' \in [Requests -> RequestState]
    BY <1>3, <2>1, GotoType DEF Look, TypeOK
  <2>3. QED
    BY <1>3, <2>2 DEF Look, TypeOK
<1>4. CASE Link(q)
  <2>1. PICK m \in req[q].todo :
          IF Exists /\ m \in indexed
          THEN /\ linked' = linked \cup {m}
               /\ ContentChanges(IF m \in linked THEN {} ELSE {"messages"})
               /\ silent' = (silent \/ (m \notin linked /\ ~req[q].dirty))
               /\ Goto(q, Settle([req[q] EXCEPT !.todo = @ \ {m}]))
               /\ UNCHANGED lost
          ELSE /\ lost' = (lost \/ (Exists /\ WillMark(q)))
               /\ Goto(q, Idle)
               /\ UNCHANGED <<linked, changed, analysis, silent>>
    BY <1>4 DEF Link
  <2>2. m \in Messages
    BY <1>0, <2>1 DEF RequestState
  <2>3. [req[q] EXCEPT !.todo = @ \ {m}] \in RequestState
    BY <1>0 DEF RequestState
  <2>4. req' \in [Requests -> RequestState]
    BY <2>1, <2>3, SettleType, IdleType, GotoType DEF TypeOK
  <2>5. analysis' \in [Analyses -> AnalysisState] /\ changed' \in BOOLEAN
    BY <2>1, ContentChangesType DEF TypeOK
  <2>6. linked' \in SUBSET Messages /\ silent' \in BOOLEAN /\ lost' \in BOOLEAN
    BY <2>1, <2>2 DEF TypeOK
  <2>7. QED
    BY <1>4, <2>4, <2>5, <2>6 DEF Link, TypeOK
<1>5. CASE Unlink(q)
  <2>1. PICK m \in req[q].todo :
          /\ linked' = linked \ {m}
          /\ ContentChanges(IF m \in linked THEN {"messages"} ELSE {})
          /\ Goto(q, Settle([req[q] EXCEPT !.todo = @ \ {m}, !.dirty = @ \/ m \in linked]))
    BY <1>5 DEF Unlink
  <2>2. [req[q] EXCEPT !.todo = @ \ {m}, !.dirty = @ \/ m \in linked] \in RequestState
    BY <1>0 DEF RequestState
  <2>3. req' \in [Requests -> RequestState]
    BY <2>1, <2>2, SettleType, GotoType DEF TypeOK
  <2>4. analysis' \in [Analyses -> AnalysisState] /\ changed' \in BOOLEAN
    BY <2>1, ContentChangesType DEF TypeOK
  <2>5. QED
    BY <1>5, <2>1, <2>3, <2>4 DEF Unlink, TypeOK
<1>6. CASE MarkAiStale(q)
  <2>1. Return(req[q]) \in RequestState
    BY <1>0, ReturnType
  <2>2. req' \in [Requests -> RequestState]
    BY <1>6, <2>1, GotoType DEF MarkAiStale, TypeOK
  <2>3. QED
    BY <1>6, <2>2 DEF MarkAiStale, Touch, TypeOK
<1>7. CASE FindSeeds(q)
  <2>1. ASSUME NEW N \in SUBSET Messages
        PROVE  Settle([req[q] EXCEPT !.pc = "seed", !.todo = N]) \in RequestState
    <3>1. [req[q] EXCEPT !.pc = "seed", !.todo = N] \in RequestState
      BY <1>0 DEF RequestState, ReqPC
    <3>2. QED
      BY <3>1, SettleType
  <2>2. req' \in [Requests -> RequestState]
    BY <1>7, <2>1, GotoType DEF FindSeeds, TypeOK
  <2>3. QED
    BY <1>7, <2>2 DEF FindSeeds, TypeOK
<1>8. CASE ReopenRow(q)
  <2>1. [req[q] EXCEPT !.pc = "recheck"] \in RequestState
    BY <1>0 DEF RequestState, ReqPC
  <2>2. req' \in [Requests -> RequestState]
    BY <1>8, <2>1, IdleType, GotoType DEF ReopenRow, TypeOK
  <2>3. QED
    BY <1>8, <2>2 DEF ReopenRow, Touch, TypeOK
<1>9. CASE Recheck(q)
  <2>1. [req[q] EXCEPT !.pc = "look"] \in RequestState
    BY <1>0 DEF RequestState, ReqPC
  <2>2. req' \in [Requests -> RequestState]
    BY <1>9, <2>1, IdleType, GotoType DEF Recheck, TypeOK
  <2>3. QED
    BY <1>9, <2>2 DEF Recheck, TypeOK
<1>10. CASE SetPendingCount(q)
  <2>1. req' \in [Requests -> RequestState]
    BY <1>10, IdleType, GotoType DEF SetPendingCount, TypeOK
  <2>2. QED
    BY <1>10, <2>1 DEF SetPendingCount, Touch, TypeOK
<1>11. QED
  BY <1>1, <1>2, <1>3, <1>4, <1>5, <1>6, <1>7, <1>8, <1>9, <1>10 DEF RequestStep

\* The steps of the browser sessions keep the types.
LEMMA SessionType ==
    ASSUME TypeOK, NEW e \in Sessions, SessionStep(e)
    PROVE  TypeOK'
<1>0. edit[e].value \in BOOLEAN
  <2>1. edit[e] \in Edit
    BY DEF TypeOK
  <2>2. QED
    BY <2>1 DEF Edit
<1> USE DEF TypeOK, Edit, NoEdit, Saves, EndEdit, Touch, LockHolds
<1>1. CASE Load(e)
  BY <1>1 DEF Load
<1>2. ASSUME NEW k \in Saves \cup {"close", "reopen"}, NEW v \in BOOLEAN, BeginEdit(e, k, v)
     PROVE  TypeOK'
  BY <1>2 DEF BeginEdit
<1>3. CASE CloseCase(e)
  BY <1>3 DEF CloseCase
<1>4. CASE ReopenCase(e)
  BY <1>4 DEF ReopenCase
<1>5. CASE SaveOutcome(e)
  <2>1. edit' \in [Sessions -> Edit]
    BY <1>5 DEF SaveOutcome
  <2>2. sinHallazgos' \in BOOLEAN
    BY <1>0, <1>5 DEF SaveOutcome
  <2>3. current' \in [Sessions -> BOOLEAN]
    BY <1>5 DEF SaveOutcome
  <2>4. QED
    BY <1>5, <2>1, <2>2, <2>3 DEF SaveOutcome
<1>6. CASE SaveFollowUp(e)
  <2>1. edit' \in [Sessions -> Edit]
    BY <1>6 DEF SaveFollowUp
  <2>2. glosa' \in BOOLEAN
    BY <1>0, <1>6 DEF SaveFollowUp
  <2>3. current' \in [Sessions -> BOOLEAN]
    BY <1>6 DEF SaveFollowUp
  <2>4. QED
    BY <1>6, <2>1, <2>2, <2>3 DEF SaveFollowUp
<1>7. CASE SaveSummary(e)
  BY <1>7 DEF SaveSummary
<1>8. QED
  BY <1>1, <1>2, <1>3, <1>4, <1>5, <1>6, <1>7 DEF SessionStep

\* The steps of the AI analyses keep the types.
LEMMA AnalysisType ==
    ASSUME TypeOK, NEW a \in Analyses,
           AnalysisStep(a) \/ \E batch \in BOOLEAN : StartAnalysis(a, batch)
    PROVE  TypeOK'
<1>0. analysis[a] \in AnalysisState /\ Escape(a) \in AnalysisPC
  BY DEF TypeOK, AnalysisState, AnalysisPC, Escape
<1>1. ASSUME NEW batch \in BOOLEAN, StartAnalysis(a, batch)
     PROVE  TypeOK'
  <2>1. [analysis[a] EXCEPT !.pc = "messages", !.batch = batch] \in AnalysisState
    BY <1>0 DEF AnalysisState, AnalysisPC
  <2>2. analysis' \in [Analyses -> AnalysisState]
    BY <1>1, <2>1 DEF StartAnalysis, TypeOK
  <2>3. QED
    BY <1>1, <2>2 DEF StartAnalysis, AnalysisOnly, TypeOK
<1>2. CASE ReadMessages(a)
  <2>1. analysis' \in [Analyses -> AnalysisState]
    BY <1>2, AdvanceType DEF ReadMessages, TypeOK, AnalysisPC
  <2>2. QED
    BY <1>2, <2>1 DEF ReadMessages, AnalysisOnly, TypeOK
<1>3. CASE ReadNotes(a)
  <2>1. analysis' \in [Analyses -> AnalysisState]
    BY <1>3, AdvanceType DEF ReadNotes, TypeOK, AnalysisPC
  <2>2. QED
    BY <1>3, <2>1 DEF ReadNotes, AnalysisOnly, TypeOK
<1>4. CASE InsertRun(a)
  <2>1. analysis' \in [Analyses -> AnalysisState]
    BY <1>4, AdvanceType DEF InsertRun, TypeOK, AnalysisPC
  <2>2. QED
    BY <1>4, <2>1 DEF InsertRun, AnalysisOnly, TypeOK
<1>5. CASE ProviderReturns(a)
  <2>1. PICK next \in {"clear", "fail", Escape(a)} : Advance(a, "call", next)
    BY <1>5 DEF ProviderReturns
  <2>2. next \in AnalysisPC
    BY <1>0, <2>1 DEF AnalysisPC
  <2>3. analysis' \in [Analyses -> AnalysisState]
    BY <2>1, <2>2, AdvanceType DEF TypeOK
  <2>4. QED
    BY <1>5, <2>3 DEF ProviderReturns, AnalysisOnly, TypeOK
<1>6. CASE ClearSummaries(a)
  <2>1. analysis' \in [Analyses -> AnalysisState]
    BY <1>6, AdvanceType DEF ClearSummaries, TypeOK, AnalysisPC
  <2>2. QED
    BY <1>6, <2>1 DEF ClearSummaries, AnalysisOnly, TypeOK
<1>7. CASE InsertSummary(a)
  <2>1. (IF Exists THEN "apply" ELSE Escape(a)) \in AnalysisPC
    BY <1>0 DEF AnalysisPC
  <2>2. analysis' \in [Analyses -> AnalysisState]
    BY <1>7, <2>1, AdvanceType DEF InsertSummary, TypeOK
  <2>3. QED
    BY <1>7, <2>2 DEF InsertSummary, TypeOK
<1>8. CASE ApplySummary(a)
  <2>1. [analysis[a] EXCEPT !.pc = "record", !.outdated = FALSE] \in AnalysisState
    BY <1>0 DEF AnalysisState, AnalysisPC
  <2>2. analysis' \in [Analyses -> AnalysisState]
    BY <1>8, <2>1 DEF ApplySummary, TypeOK
  <2>3. QED
    BY <1>8, <2>2 DEF ApplySummary, Touch, TypeOK
<1>9. CASE RecordRun(a)
  <2>1. [analysis[a] EXCEPT !.pc = "done"] \in AnalysisState
    BY <1>0 DEF AnalysisState, AnalysisPC
  <2>2. analysis' \in [Analyses -> AnalysisState]
    BY <1>9, <2>1 DEF RecordRun, TypeOK
  <2>3. QED
    BY <1>9, <2>2 DEF RecordRun, AnalysisOnly, TypeOK
<1>10. QED
  BY <1>1, <1>2, <1>3, <1>4, <1>5, <1>6, <1>7, <1>8, <1>9 DEF AnalysisStep

\* A restart of the backend keeps the types.
LEMMA RestartType ==
    ASSUME TypeOK, Restart
    PROVE  TypeOK'
<1>1. ASSUME NEW a \in Analyses
      PROVE  (IF analysis[a].pc = "none" THEN Unstarted ELSE [Unstarted EXCEPT !.pc = "done"])
                 \in AnalysisState
  BY DEF Unstarted, AnalysisState, AnalysisPC
<1>2. analysis' \in [Analyses -> AnalysisState]
  BY <1>1 DEF Restart
<1>3. req' \in [Requests -> RequestState]
  BY IdleType DEF Restart
<1>4. edit' \in [Sessions -> Edit]
  BY DEF Restart, Edit, NoEdit
<1>5. runStatus' \in [Analyses -> {"none", "running", "success", "failed"}]
  BY DEF Restart, TypeOK
<1>6. lost' \in BOOLEAN /\ torn' \in BOOLEAN
  BY DEF Restart, TypeOK
<1>7. QED
  BY <1>2, <1>3, <1>4, <1>5, <1>6 DEF Restart, TypeOK

\* The deletion of the case or of a mailbox keeps the types.
LEMMA DeletionType ==
    ASSUME TypeOK, DeleteCase \/ DeleteMailbox
    PROVE  TypeOK'
<1>1. ASSUME DeleteRow, indexed' \in SUBSET Messages
      PROVE  TypeOK'
  BY <1>1 DEF DeleteRow, TypeOK
<1>2. CASE DeleteMailbox
  <2>1. PICK gone \in SUBSET indexed \ {{}} :
          /\ indexed' = indexed \ gone
          /\ IF linked # {} /\ linked \subseteq gone
             THEN DeleteRow
             ELSE /\ linked' = linked \ gone
                  /\ ContentChanges(IF linked \cap gone = {} THEN {} ELSE {"messages"})
                  /\ aiStale' = (aiStale \/ linked \cap gone # {})
                  /\ UNCHANGED <<rowVars, summaries, runStatus, sessionVars, req, lost, silent,
                                 torn>>
    BY <1>2 DEF DeleteMailbox
  <2>2. indexed' \in SUBSET Messages
    BY <2>1 DEF TypeOK
  <2>3. CASE ~DeleteRow
    <3>1. analysis' \in [Analyses -> AnalysisState] /\ changed' \in BOOLEAN
      BY <2>1, <2>3, ContentChangesType DEF TypeOK
    <3>2. QED
      BY <2>1, <2>2, <2>3, <3>1 DEF TypeOK
  <2>4. QED
    BY <1>1, <2>2, <2>3
<1>3. CASE DeleteCase
  BY <1>1, <1>3 DEF DeleteCase, TypeOK
<1>4. QED
  BY <1>2, <1>3

\* The indexing of a message keeps the types.
LEMMA IndexType ==
    ASSUME TypeOK, NEW m \in Messages, IndexMessage(m)
    PROVE  TypeOK'
BY DEF IndexMessage, TypeOK

\* Every step keeps the types.
LEMMA TypeStep == TypeOK /\ [Next]_vars => TypeOK'
<1> SUFFICES ASSUME TypeOK, [Next]_vars PROVE TypeOK'
  OBVIOUS
<1>1. CASE UNCHANGED vars
  BY <1>1 DEF vars, TypeOK
<1>2. CASE Next
  BY <1>2, RequestType, SessionType, AnalysisType, RestartType, DeletionType, IndexType DEF Next
<1>3. QED
  BY <1>1, <1>2

\* A case just created is well typed.
LEMMA TypeInit == Init => TypeOK
<1> SUFFICES ASSUME Init PROVE TypeOK
  OBVIOUS
<1>1. req \in [Requests -> RequestState]
  BY IdleType DEF Init
<1>2. analysis \in [Analyses -> AnalysisState]
  BY DEF Init, Unstarted, AnalysisState, AnalysisPC
<1>3. edit \in [Sessions -> Edit]
  BY DEF Init, Edit, NoEdit
<1>4. QED
  BY <1>1, <1>2, <1>3 DEF Init, TypeOK

\* The columns, the requests and the analyses always hold values of their types.
THEOREM TypeCorrect == Spec => []TypeOK
BY TypeInit, TypeStep, PTL DEF Spec

-----------------------------------------------------------------------------
(* A closed case is concluded *)

\* A save of the conclusion or of the follow-up that would still pass the lock
\* was checked on an open case, and the case has not been closed since: a
\* close touches the row.
SavesAreLocked ==
    \A e \in Sessions : edit[e].kind \in {"outcome", "followUp"} /\ current[e] => status # "closed"

Concluded == TypeOK /\ ClosedIsConcluded /\ SavesAreLocked

\* Requests and analyses touch the row without changing its conclusion, and the
\* only status they write is open.
KeepsConclusion ==
    /\ UNCHANGED <<edit, sinHallazgos, glosa>>
    /\ status' \in {status, "open"}
    /\ \A e \in Sessions : current'[e] => current[e]

\* No request changes the conclusion of the case or closes it.
LEMMA RequestKeepsConclusion ==
    ASSUME TypeOK, NEW q \in Requests, RequestStep(q)
    PROVE  KeepsConclusion
<1> USE DEF KeepsConclusion, TypeOK
<1>1. ASSUME NEW k \in AllKinds, Begin(q, k)
     PROVE  KeepsConclusion
  BY <1>1 DEF Begin
<1>2. CASE Write(q)
  BY <1>2 DEF Write
<1>3. CASE Look(q)
  BY <1>3 DEF Look
<1>4. CASE Link(q)
  BY <1>4 DEF Link
<1>5. CASE Unlink(q)
  BY <1>5 DEF Unlink
<1>6. CASE MarkAiStale(q)
  BY <1>6 DEF MarkAiStale, Touch
<1>7. CASE FindSeeds(q)
  BY <1>7 DEF FindSeeds
<1>8. CASE ReopenRow(q)
  BY <1>8 DEF ReopenRow, Touch
<1>9. CASE Recheck(q)
  BY <1>9 DEF Recheck
<1>10. CASE SetPendingCount(q)
  BY <1>10 DEF SetPendingCount, Touch
<1>11. QED
  BY <1>1, <1>2, <1>3, <1>4, <1>5, <1>6, <1>7, <1>8, <1>9, <1>10 DEF RequestStep

\* No analysis changes the conclusion of the case or closes it.
LEMMA AnalysisKeepsConclusion ==
    ASSUME TypeOK, NEW a \in Analyses,
           AnalysisStep(a) \/ \E batch \in BOOLEAN : StartAnalysis(a, batch)
    PROVE  KeepsConclusion
BY DEF AnalysisStep, StartAnalysis, ReadMessages, ReadNotes, InsertRun, ProviderReturns,
       ClearSummaries, InsertSummary, ApplySummary, RecordRun, AnalysisOnly, Touch,
       KeepsConclusion, TypeOK

\* The edits of the sessions, where the lock and the order of check and close
\* matter.
LEMMA SessionKeepsConcluded ==
    ASSUME Concluded, NEW e \in Sessions, SessionStep(e)
    PROVE  ClosedIsConcluded' /\ SavesAreLocked'
<1> USE DEF Concluded, ClosedIsConcluded, SavesAreLocked, TypeOK, EndEdit, NoEdit
<1>1. CASE Load(e)
  BY <1>1 DEF Load
<1>2. ASSUME NEW k \in Saves \cup {"close", "reopen"}, NEW v \in BOOLEAN, BeginEdit(e, k, v)
     PROVE  ClosedIsConcluded' /\ SavesAreLocked'
  BY <1>2 DEF BeginEdit, Saves
<1>3. CASE CloseCase(e)
  BY <1>3 DEF CloseCase, Touch
<1>4. CASE ReopenCase(e)
  BY <1>4 DEF ReopenCase, Touch
<1>5. CASE SaveOutcome(e)
  BY <1>5 DEF SaveOutcome, LockHolds, Touch
<1>6. CASE SaveFollowUp(e)
  BY <1>6 DEF SaveFollowUp, LockHolds, Touch
<1>7. CASE SaveSummary(e)
  BY <1>7 DEF SaveSummary, LockHolds, Touch
<1>8. QED
  BY <1>1, <1>2, <1>3, <1>4, <1>5, <1>6, <1>7 DEF SessionStep, Saves

\* Every step keeps a closed case concluded.
LEMMA ConcludedStep == Concluded /\ [Next]_vars => Concluded'
<1> SUFFICES ASSUME Concluded, [Next]_vars PROVE ClosedIsConcluded' /\ SavesAreLocked'
  BY TypeStep DEF Concluded
<1>1. ASSUME KeepsConclusion
      PROVE  ClosedIsConcluded' /\ SavesAreLocked'
  BY <1>1 DEF KeepsConclusion, Concluded, ClosedIsConcluded, SavesAreLocked
<1>2. CASE UNCHANGED vars
  BY <1>2 DEF vars, Concluded, ClosedIsConcluded, SavesAreLocked
<1>3. ASSUME NEW q \in Requests, RequestStep(q)
      PROVE  KeepsConclusion
  BY <1>3, RequestKeepsConclusion DEF Concluded
<1>4. ASSUME NEW a \in Analyses,
             AnalysisStep(a) \/ \E batch \in BOOLEAN : StartAnalysis(a, batch)
      PROVE  KeepsConclusion
  BY <1>4, AnalysisKeepsConclusion DEF Concluded
<1>5. CASE DeleteCase \/ DeleteMailbox
  <2>1. CASE DeleteRow
    BY <2>1 DEF DeleteRow, ClosedIsConcluded, SavesAreLocked
  <2>2. CASE ~DeleteRow
    <3>1. KeepsConclusion
      BY <1>5, <2>2 DEF DeleteCase, DeleteMailbox, KeepsConclusion
    <3>2. QED
      BY <1>1, <3>1
  <2>3. QED
    BY <2>1, <2>2
<1>6. CASE Restart
  BY <1>6 DEF Restart, NoEdit, Concluded, ClosedIsConcluded, SavesAreLocked
<1>7. ASSUME NEW m \in Messages, IndexMessage(m)
      PROVE  KeepsConclusion
  BY <1>7 DEF IndexMessage, KeepsConclusion
<1>8. QED
  BY <1>1, <1>2, <1>3, <1>4, <1>5, <1>6, <1>7, SessionKeepsConcluded DEF Next

\* A closed case has a closing glosa and a conclusion that admits closing, for
\* any number of sessions and requests.
THEOREM ClosedCasesAreConcluded == Spec => []ClosedIsConcluded
<1>1. Init => Concluded
  BY TypeInit DEF Init, Concluded, ClosedIsConcluded, SavesAreLocked, NoEdit
<1>2. QED
  BY <1>1, ConcludedStep, PTL DEF Spec, Concluded

-----------------------------------------------------------------------------
(* Every change is announced *)

\* create_case enters its own search for messages only with no mark to make:
\* what refresh_case_correlation found has been marked.
SeedsAreClean == \A q \in Requests : req[q].pc \in {"seeds", "seed"} => ~req[q].dirty

Announced == TypeOK /\ SeedsAreClean /\ ChangesAreAnnounced

MarksAhead(r)   == r.dirty /\ r.pc \in {"link", "unlink", "mark"}
CleanSeeding(r) == r.pc \in {"seeds", "seed"} => ~r.dirty

\* A request with a mark to make keeps it when its loop goes on or ends, and one
\* that adds its seeds has none.
LEMMA SettleKeepsMark ==
    ASSUME NEW r \in RequestState
    PROVE  /\ MarksAhead(r) => MarksAhead(Settle(r))
           /\ CleanSeeding(r) => CleanSeeding(Settle(r))
<1>1. /\ [r EXCEPT !.pc = "mark"].pc = "mark"
      /\ [r EXCEPT !.pc = "mark"].dirty = r.dirty
  BY DEF RequestState
<1>2. CleanSeeding(Return(r))
  BY ReturnType DEF CleanSeeding
<1>3. QED
  BY <1>1, <1>2 DEF Settle, MarksAhead, CleanSeeding

SomeoneMarks == \E q \in Requests : WillMark(q)

\* A request that moves on keeps its own mark and disturbs no other's.
LEMMA GotoKeepsMarks ==
    ASSUME TypeOK, SeedsAreClean, NEW q \in Requests, NEW r \in RequestState, Goto(q, r),
           CleanSeeding(r)
    PROVE  /\ SeedsAreClean'
           /\ MarksAhead(r) => SomeoneMarks'
           /\ (MarksAhead(req[q]) => MarksAhead(r)) /\ SomeoneMarks => SomeoneMarks'
<1>1. /\ req'[q] = r
      /\ \A p \in Requests \ {q} : req'[p] = req[p]
  BY DEF Goto, TypeOK
<1>2. SeedsAreClean'
  BY <1>1 DEF SeedsAreClean, CleanSeeding
<1>3. MarksAhead(r) => SomeoneMarks'
  BY <1>1 DEF SomeoneMarks, WillMark, MarksAhead
<1>4. ASSUME MarksAhead(req[q]) => MarksAhead(r), SomeoneMarks
      PROVE  SomeoneMarks'
  BY <1>1, <1>3, <1>4 DEF SomeoneMarks, WillMark, MarksAhead
<1>5. QED
  BY <1>2, <1>3, <1>4

\* What a request has to keep for the others and for itself.
StaysAnnounced == SeedsAreClean' /\ ChangesAreAnnounced'

\* Every step of a request that changes the content leaves a mark ahead, set
\* or excused.
LEMMA RequestStaysAnnounced ==
    ASSUME Announced, NEW q \in Requests, RequestStep(q)
    PROVE  StaysAnnounced
<1> USE DEF Announced, StaysAnnounced, ChangesAreAnnounced
<1>0. /\ req[q] \in RequestState /\ CleanSeeding(req[q])
      /\ Idle \in RequestState /\ CleanSeeding(Idle) /\ ~MarksAhead(Idle)
  BY IdleType DEF TypeOK, SeedsAreClean, CleanSeeding, MarksAhead, Idle
\* A step that leaves the row and the content alone.
<1>a. ASSUME NEW r \in RequestState, Goto(q, r), CleanSeeding(r),
             MarksAhead(req[q]) => MarksAhead(r),
             UNCHANGED <<changed, lost, silent>>, Exists' => Exists, aiStale => aiStale'
      PROVE  StaysAnnounced
  <2>1. SeedsAreClean' /\ (SomeoneMarks => SomeoneMarks')
    BY <1>a, GotoKeepsMarks
  <2>2. QED
    BY <1>a, <2>1 DEF SomeoneMarks
<1>1. ASSUME NEW k \in AllKinds, Begin(q, k)
     PROVE  StaysAnnounced
  <2>1. FirstStep(k) \in {"write", "look", "unlink", "reopen", "count"}
    BY DEF FirstStep, AllKinds
  <2>2. PICK N \in SUBSET Messages :
            Goto(q, [pc |-> FirstStep(k), kind |-> k, todo |-> N, dirty |-> FALSE])
    BY <1>1 DEF Begin
  <2>3. [pc |-> FirstStep(k), kind |-> k, todo |-> N, dirty |-> FALSE] \in RequestState
    BY <2>1 DEF RequestState, ReqPC
  <2>4. CleanSeeding([pc |-> FirstStep(k), kind |-> k, todo |-> N, dirty |-> FALSE])
    BY DEF CleanSeeding
  <2>5. ~MarksAhead(req[q])
    BY <1>1 DEF Begin, MarksAhead
  <2>6. QED
    BY <1>1, <1>a, <2>2, <2>3, <2>4, <2>5 DEF Begin
<1>2. CASE Write(q)
  <2>1. CASE Exists
    <3>1. [req[q] EXCEPT !.pc = "mark", !.dirty = TRUE] \in RequestState
      BY <1>0 DEF RequestState, ReqPC
    <3>2. /\ MarksAhead([req[q] EXCEPT !.pc = "mark", !.dirty = TRUE])
          /\ CleanSeeding([req[q] EXCEPT !.pc = "mark", !.dirty = TRUE])
      BY <1>0 DEF MarksAhead, CleanSeeding, RequestState
    <3>3. SeedsAreClean' /\ SomeoneMarks'
      BY <1>2, <2>1, <3>1, <3>2, GotoKeepsMarks DEF Write
    <3>4. QED
      BY <3>3 DEF SomeoneMarks
  <2>2. CASE ~Exists
    <3>1. ~MarksAhead(req[q])
      BY <1>2 DEF Write, MarksAhead
    <3>2. QED
      BY <1>0, <1>2, <1>a, <2>2, <3>1 DEF Write
  <2>3. QED
    BY <2>1, <2>2
<1>3. CASE Look(q)
  <2>1. PICK N \in SUBSET Messages :
            Goto(q, Settle([req[q] EXCEPT !.pc = "link", !.todo = N,
                                          !.dirty = N # {} /\ N \cap linked = {}]))
    BY <1>3 DEF Look, TypeOK
  <2> DEFINE r == [req[q] EXCEPT !.pc = "link", !.todo = N, !.dirty = N # {} /\ N \cap linked = {}]
  <2>2. r \in RequestState /\ CleanSeeding(r)
    BY <1>0 DEF RequestState, ReqPC, CleanSeeding
  <2>3. Settle(r) \in RequestState /\ CleanSeeding(Settle(r))
    BY <2>2, SettleType, SettleKeepsMark
  <2>4. ~MarksAhead(req[q])
    BY <1>3 DEF Look, MarksAhead
  <2> HIDE DEF r
  <2>5. Goto(q, Settle(r))
    BY <2>1 DEF r
  <2>6. QED
    BY <1>3, <1>a, <2>3, <2>4, <2>5 DEF Look
<1>4. CASE Link(q)
  <2>1. PICK m \in req[q].todo :
          IF Exists /\ m \in indexed
          THEN /\ linked' = linked \cup {m}
               /\ ContentChanges(IF m \in linked THEN {} ELSE {"messages"})
               /\ silent' = (silent \/ (m \notin linked /\ ~req[q].dirty))
               /\ Goto(q, Settle([req[q] EXCEPT !.todo = @ \ {m}]))
               /\ UNCHANGED lost
          ELSE /\ lost' = (lost \/ (Exists /\ WillMark(q)))
               /\ Goto(q, Idle)
               /\ UNCHANGED <<linked, changed, analysis, silent>>
    BY <1>4 DEF Link
  <2> DEFINE r == [req[q] EXCEPT !.todo = @ \ {m}]
  <2>2. /\ r \in RequestState
        /\ r.dirty = req[q].dirty /\ r.pc = req[q].pc
    BY <1>0 DEF RequestState
  <2> HIDE DEF r
  <2>3. CleanSeeding(r) /\ (MarksAhead(req[q]) => MarksAhead(r))
    BY <1>0, <2>2 DEF CleanSeeding, MarksAhead
  <2>4. /\ Settle(r) \in RequestState /\ CleanSeeding(Settle(r))
        /\ MarksAhead(req[q]) => MarksAhead(Settle(r))
    BY <2>2, <2>3, SettleType, SettleKeepsMark
  <2>5. CASE Exists /\ m \in indexed
    <3>1. Goto(q, Settle(r))
      BY <2>1, <2>5 DEF r
    <3>2. /\ SeedsAreClean' /\ (SomeoneMarks => SomeoneMarks')
          /\ MarksAhead(req[q]) => SomeoneMarks'
      BY <2>4, <3>1, GotoKeepsMarks
    <3>3. CASE m \in linked \/ req[q].dirty
      <4>1. changed' = (changed \/ m \notin linked)
        BY <2>1, <2>5 DEF ContentChanges
      <4>2. m \notin linked => SomeoneMarks'
        BY <1>0, <1>4, <3>2, <3>3 DEF Link, MarksAhead, CleanSeeding
      <4>3. silent' = silent /\ lost' = lost
        BY <2>1, <2>5, <3>3 DEF TypeOK
      <4>4. QED
        BY <1>4, <2>5, <3>2, <4>1, <4>2, <4>3 DEF Link, SomeoneMarks
    <3>4. CASE ~(m \in linked \/ req[q].dirty)
      <4>1. silent'
        BY <2>1, <2>5, <3>4
      <4>2. QED
        BY <3>2, <4>1
    <3>5. QED
      BY <3>3, <3>4
  <2>6. CASE ~(Exists /\ m \in indexed)
    <3>1. Goto(q, Idle) /\ lost' = (lost \/ (Exists /\ WillMark(q)))
      BY <2>1, <2>6
    <3>2. SeedsAreClean'
      BY <1>0, <3>1, GotoKeepsMarks
    <3>3. CASE MarksAhead(req[q])
      <4>1. Exists => lost'
        BY <3>1, <3>3 DEF MarksAhead, WillMark
      <4>2. QED
        BY <1>4, <3>2, <4>1 DEF Link
    <3>4. CASE ~MarksAhead(req[q])
      <4>1. lost' = lost
        BY <3>1, <3>4 DEF MarksAhead, WillMark, TypeOK
      <4>2. UNCHANGED <<changed, silent, status, aiStale>>
        BY <1>4, <2>1, <2>6 DEF Link
      <4>3. QED
        BY <1>0, <1>a, <3>1, <3>4, <4>1, <4>2
    <3>5. QED
      BY <3>3, <3>4
  <2>7. QED
    BY <2>5, <2>6
<1>5. CASE Unlink(q)
  <2>1. PICK m \in req[q].todo :
          /\ linked' = linked \ {m}
          /\ ContentChanges(IF m \in linked THEN {"messages"} ELSE {})
          /\ Goto(q, Settle([req[q] EXCEPT !.todo = @ \ {m}, !.dirty = @ \/ m \in linked]))
    BY <1>5 DEF Unlink
  <2> DEFINE r == [req[q] EXCEPT !.todo = @ \ {m}, !.dirty = @ \/ m \in linked]
  <2>2. /\ r \in RequestState
        /\ r.dirty = (req[q].dirty \/ m \in linked) /\ r.pc = "unlink"
    BY <1>0, <1>5 DEF RequestState, Unlink
  <2> HIDE DEF r
  <2>3. CleanSeeding(r) /\ (MarksAhead(req[q]) \/ m \in linked => MarksAhead(r))
    BY <2>2 DEF CleanSeeding, MarksAhead
  <2>4. /\ Settle(r) \in RequestState /\ CleanSeeding(Settle(r))
        /\ MarksAhead(req[q]) \/ m \in linked => MarksAhead(Settle(r))
    BY <2>2, <2>3, SettleType, SettleKeepsMark
  <2>5. Goto(q, Settle(r))
    BY <2>1 DEF r
  <2>6. /\ SeedsAreClean' /\ (SomeoneMarks => SomeoneMarks')
        /\ m \in linked => SomeoneMarks'
    BY <2>4, <2>5, GotoKeepsMarks
  <2>7. changed' = (changed \/ m \in linked)
    BY <2>1 DEF ContentChanges
  <2>8. QED
    BY <1>5, <2>6, <2>7 DEF Unlink, SomeoneMarks
<1>6. CASE MarkAiStale(q)
  <2>1. Return(req[q]) \in RequestState /\ CleanSeeding(Return(req[q]))
    BY <1>0, ReturnType DEF CleanSeeding
  <2>2. SeedsAreClean'
    BY <1>6, <2>1, GotoKeepsMarks DEF MarkAiStale
  <2>3. QED
    BY <1>6, <2>2 DEF MarkAiStale
<1>7. CASE FindSeeds(q)
  <2>1. PICK N \in SUBSET Messages : Goto(q, Settle([req[q] EXCEPT !.pc = "seed", !.todo = N]))
    BY <1>7 DEF FindSeeds, TypeOK
  <2> DEFINE r == [req[q] EXCEPT !.pc = "seed", !.todo = N]
  <2>2. r \in RequestState /\ r.dirty = req[q].dirty /\ ~req[q].dirty
    BY <1>0, <1>7 DEF RequestState, ReqPC, CleanSeeding, FindSeeds
  <2> HIDE DEF r
  <2>3. Settle(r) \in RequestState /\ CleanSeeding(Settle(r))
    BY <2>2, SettleType, SettleKeepsMark DEF CleanSeeding
  <2>4. ~MarksAhead(req[q]) /\ Goto(q, Settle(r))
    BY <2>1, <2>2 DEF MarksAhead, r
  <2>5. QED
    BY <1>7, <1>a, <2>3, <2>4 DEF FindSeeds
<1>8. CASE ReopenRow(q)
  <2>1. [req[q] EXCEPT !.pc = "recheck"] \in RequestState
    BY <1>0 DEF RequestState, ReqPC
  <2>2. CleanSeeding([req[q] EXCEPT !.pc = "recheck"])
    BY <1>0 DEF RequestState, CleanSeeding
  <2>3. ~MarksAhead(req[q])
    BY <1>8 DEF ReopenRow, MarksAhead
  <2>4. Exists' => Exists
    BY <1>8 DEF ReopenRow
  <2>5. QED
    BY <1>0, <1>8, <1>a, <2>1, <2>2, <2>3, <2>4 DEF ReopenRow
<1>9. CASE Recheck(q)
  <2>1. [req[q] EXCEPT !.pc = "look"] \in RequestState
    BY <1>0 DEF RequestState, ReqPC
  <2>2. CleanSeeding([req[q] EXCEPT !.pc = "look"])
    BY <1>0 DEF RequestState, CleanSeeding
  <2>3. ~MarksAhead(req[q])
    BY <1>9 DEF Recheck, MarksAhead
  <2>4. QED
    BY <1>0, <1>9, <1>a, <2>1, <2>2, <2>3 DEF Recheck
<1>10. CASE SetPendingCount(q)
  <2>1. ~MarksAhead(req[q])
    BY <1>10 DEF SetPendingCount, MarksAhead
  <2>2. QED
    BY <1>0, <1>10, <1>a, <2>1 DEF SetPendingCount
<1>11. QED
  BY <1>1, <1>2, <1>3, <1>4, <1>5, <1>6, <1>7, <1>8, <1>9, <1>10 DEF RequestStep

\* A step of anyone else that changes no content, or sets ai_stale with it, or
\* applies a summary.
LeavesAnnounced ==
    /\ UNCHANGED req
    /\ \/ UNCHANGED <<changed, lost, silent>> /\ (Exists' => Exists) /\ (aiStale => aiStale')
       \/ aiStale'
       \/ ~changed'
       \/ ~Exists'

\* The edits of the row change no content.
LEMMA SessionLeavesAnnounced ==
    ASSUME NEW e \in Sessions, SessionStep(e)
    PROVE  LeavesAnnounced
BY DEF SessionStep, Load, BeginEdit, CloseCase, ReopenCase, SaveOutcome, SaveFollowUp, SaveSummary,
       Touch, LeavesAnnounced

\* An analysis clears ai_stale only when it applies its summary.
LEMMA AnalysisLeavesAnnounced ==
    ASSUME NEW a \in Analyses,
           AnalysisStep(a) \/ \E batch \in BOOLEAN : StartAnalysis(a, batch)
    PROVE  LeavesAnnounced
<1>1. CASE ApplySummary(a)
  BY <1>1 DEF ApplySummary, LeavesAnnounced
<1>2. CASE ~ApplySummary(a)
  BY <1>2 DEF AnalysisStep, StartAnalysis, ReadMessages, ReadNotes, InsertRun, ProviderReturns,
       ClearSummaries, InsertSummary, RecordRun, AnalysisOnly, LeavesAnnounced
<1>3. QED
  BY <1>1, <1>2

\* The deletion of a mailbox marks the case in the statement's own
\* transaction.
LEMMA DeletionLeavesAnnounced ==
    ASSUME TypeOK, DeleteCase \/ DeleteMailbox
    PROVE  LeavesAnnounced
<1>1. CASE DeleteRow
  BY <1>1 DEF DeleteRow, LeavesAnnounced
<1>2. CASE DeleteMailbox /\ ~DeleteRow
  <2>1. PICK gone \in SUBSET indexed :
          /\ ContentChanges(IF linked \cap gone = {} THEN {} ELSE {"messages"})
          /\ aiStale' = (aiStale \/ linked \cap gone # {})
          /\ UNCHANGED <<status, req, lost, silent>>
    BY <1>2 DEF DeleteMailbox
  <2>2. CASE linked \cap gone = {}
    <3>1. UNCHANGED changed
      BY <2>1, <2>2 DEF ContentChanges, TypeOK
    <3>2. QED
      BY <2>1, <3>1 DEF LeavesAnnounced
  <2>3. CASE linked \cap gone # {}
    BY <2>1, <2>3 DEF LeavesAnnounced
  <2>4. QED
    BY <2>2, <2>3
<1>3. QED
  BY <1>1, <1>2 DEF DeleteCase

\* Nor does the indexing of a message.
LEMMA IndexLeavesAnnounced ==
    ASSUME NEW m \in Messages, IndexMessage(m)
    PROVE  LeavesAnnounced
BY DEF IndexMessage, LeavesAnnounced

\* Every step keeps the changes announced.
LEMMA AnnouncedStep == Announced /\ [Next]_vars => Announced'
<1> SUFFICES ASSUME Announced, [Next]_vars PROVE StaysAnnounced
  BY TypeStep DEF Announced, StaysAnnounced
<1>1. ASSUME LeavesAnnounced
      PROVE  StaysAnnounced
  BY <1>1 DEF LeavesAnnounced, StaysAnnounced, Announced, SeedsAreClean, ChangesAreAnnounced, WillMark
<1>2. CASE UNCHANGED vars
  BY <1>2 DEF vars, StaysAnnounced, Announced, SeedsAreClean, ChangesAreAnnounced, WillMark
<1>3. CASE Restart
  <2>1. SeedsAreClean'
    BY <1>3 DEF Restart, SeedsAreClean, Idle
  <2>2. ChangesAreAnnounced'
    BY <1>3 DEF Restart, Announced, ChangesAreAnnounced
  <2>3. QED
    BY <2>1, <2>2 DEF StaysAnnounced
<1>4. QED
  BY <1>1, <1>2, <1>3, RequestStaysAnnounced, SessionLeavesAnnounced, AnalysisLeavesAnnounced,
     DeletionLeavesAnnounced, IndexLeavesAnnounced DEF Next, Announced

\* A change of the content since the last applied summary is announced by
\* ai_stale or about to be, for any number of requests and analyses, but for
\* the two exceptions the property names.
THEOREM ContentChangesAreAnnounced == Spec => []ChangesAreAnnounced
<1>1. Init => Announced
  BY TypeInit DEF Init, Announced, SeedsAreClean, ChangesAreAnnounced, Idle
<1>2. QED
  BY <1>1, AnnouncedStep, PTL DEF Spec, Announced

-----------------------------------------------------------------------------
(* A successful analysis has its summary on the timeline *)

\* SuccessHasSummary from the moment the event is inserted, before ai_runs says
\* success: between the two the analysis has still to apply and record.
Inserted(a) == runStatus[a] = "success" \/ analysis[a].pc \in {"apply", "record"}

Replacing == \E a \in Analyses : analysis[a].pc = "event"

SummaryShown ==
    Exists /\ (\E a \in Analyses : Inserted(a)) => summaries # {} \/ Replacing \/ torn

Shown == TypeOK /\ SummaryShown

\* A step that starts no summary, takes none away and leaves every analysis as
\* it is or as far as it was.
LeavesShown ==
    /\ Exists' => Exists
    /\ \A a \in Analyses : Inserted(a)' => Inserted(a)
    /\ UNCHANGED <<summaries, torn>>
    /\ \A a \in Analyses : analysis[a].pc = "event" => analysis'[a].pc = "event"

\* A change of the content moves no analysis.
LEMMA ContentChangesKeepsPC ==
    ASSUME TypeOK, NEW P, ContentChanges(P)
    PROVE  \A a \in Analyses : analysis'[a].pc = analysis[a].pc
<1>1. ASSUME NEW a \in Analyses
      PROVE  [analysis[a] EXCEPT !.outdated = @ \/ P \cap HasRead(a) # {}].pc = analysis[a].pc
  <2>1. analysis[a] \in AnalysisState
    BY DEF TypeOK
  <2>2. QED
    BY <2>1 DEF AnalysisState
<1>2. QED
  BY <1>1 DEF ContentChanges

\* The requests have no part in the summary of the timeline.
LEMMA RequestLeavesShown ==
    ASSUME TypeOK, NEW q \in Requests, RequestStep(q)
    PROVE  LeavesShown
<1>1. /\ Exists' => Exists
      /\ UNCHANGED <<summaries, runStatus, torn>>
  BY DEF RequestStep, Begin, Write, Look, Link, Unlink, MarkAiStale, FindSeeds, ReopenRow, Recheck,
         SetPendingCount
<1>2. UNCHANGED analysis \/ \E P : ContentChanges(P)
  BY DEF RequestStep, Begin, Write, Look, Link, Unlink, MarkAiStale, FindSeeds, ReopenRow, Recheck,
         SetPendingCount
<1>3. \A a \in Analyses : analysis'[a].pc = analysis[a].pc
  BY <1>2, ContentChangesKeepsPC
<1>4. QED
  BY <1>1, <1>3 DEF LeavesShown, Inserted

\* Nor have the edits of the row.
LEMMA SessionLeavesShown ==
    ASSUME NEW e \in Sessions, SessionStep(e)
    PROVE  LeavesShown
BY DEF SessionStep, Load, BeginEdit, CloseCase, ReopenCase, SaveOutcome, SaveFollowUp, SaveSummary,
       LeavesShown, Inserted

\* Where an analysis stands after one of its steps.
LEMMA AdvanceMoves ==
    ASSUME TypeOK, NEW a \in Analyses, NEW from, NEW to \in AnalysisPC, Advance(a, from, to)
    PROVE  /\ analysis[a].pc = from /\ analysis'[a].pc = to
           /\ \A b \in Analyses \ {a} : analysis'[b] = analysis[b]
<1>1. [analysis[a] EXCEPT !.pc = to, !.outdated = IF to \in Reading THEN @ ELSE FALSE].pc = to
  BY DEF TypeOK, AnalysisState
<1>2. QED
  BY <1>1 DEF Advance, TypeOK

\* The steps of an analysis: only ClearSummaries takes the summary, and it is
\* then replacing it.
LEMMA AnalysisKeepsShown ==
    ASSUME Shown, NEW a \in Analyses,
           AnalysisStep(a) \/ \E batch \in BOOLEAN : StartAnalysis(a, batch)
    PROVE  SummaryShown'
<1>0. TypeOK /\ SummaryShown /\ Escape(a) \in {"done", "escaped"}
  BY DEF Shown, Escape
\* A step of the analysis that does not take it out of "event" nor into "apply".
<1>a. ASSUME Exists' => Exists, UNCHANGED <<summaries, torn>>, analysis[a].pc # "event",
             Inserted(a)' => Inserted(a),
             \A b \in Analyses \ {a} :
                 analysis'[b] = analysis[b] /\ runStatus'[b] = runStatus[b]
      PROVE  SummaryShown'
  BY <1>0, <1>a DEF SummaryShown, Inserted, Replacing
<1>1. ASSUME NEW batch \in BOOLEAN, StartAnalysis(a, batch)
      PROVE  SummaryShown'
  <2>1. /\ analysis[a].pc = "none" /\ analysis'[a].pc = "messages"
        /\ \A b \in Analyses \ {a} : analysis'[b] = analysis[b]
    <3>1. [analysis[a] EXCEPT !.pc = "messages", !.batch = batch].pc = "messages"
      BY <1>0 DEF TypeOK, AnalysisState
    <3>2. analysis' = [analysis EXCEPT ![a] = [analysis[a] EXCEPT !.pc = "messages", !.batch = batch]]
      BY <1>1 DEF StartAnalysis
    <3>3. QED
      BY <1>0, <1>1, <3>1, <3>2 DEF StartAnalysis, TypeOK
  <2>2. QED
    BY <1>1, <1>a, <2>1 DEF StartAnalysis, AnalysisOnly, Inserted
<1>2. CASE ReadMessages(a)
  <2>1. Advance(a, "messages", "notes") /\ "notes" \in AnalysisPC
    BY <1>2 DEF ReadMessages, AnalysisPC
  <2>2. QED
    BY <1>0, <1>2, <1>a, <2>1, AdvanceMoves DEF ReadMessages, AnalysisOnly, Inserted
<1>3. CASE ReadNotes(a)
  <2>1. PICK to \in {"call", "insert"} : Advance(a, "notes", to)
    BY <1>3 DEF ReadNotes
  <2>2. to \in AnalysisPC
    BY DEF AnalysisPC
  <2>3. QED
    BY <1>0, <1>3, <1>a, <2>1, <2>2, AdvanceMoves DEF ReadNotes, AnalysisOnly, Inserted
<1>4. CASE InsertRun(a)
  <2>1. PICK to \in {"call", "done"} : Advance(a, "insert", to)
    BY <1>4 DEF InsertRun
  <2>2. to \in AnalysisPC
    BY DEF AnalysisPC
  <2>3. QED
    BY <1>0, <1>4, <1>a, <2>1, <2>2, AdvanceMoves DEF InsertRun, AnalysisOnly, Inserted, TypeOK
<1>5. CASE ProviderReturns(a)
  <2>1. PICK to \in {"clear", "fail", Escape(a)} : Advance(a, "call", to)
    BY <1>5 DEF ProviderReturns
  <2>2. to \in AnalysisPC /\ to \notin {"apply", "record"}
    BY <1>0 DEF AnalysisPC
  <2>3. QED
    BY <1>0, <1>5, <1>a, <2>1, <2>2, AdvanceMoves DEF ProviderReturns, AnalysisOnly, Inserted
<1>6. CASE ClearSummaries(a)
  <2>1. Advance(a, "clear", "event") /\ "event" \in AnalysisPC
    BY <1>6 DEF ClearSummaries, AnalysisPC
  <2>2. analysis'[a].pc = "event"
    BY <1>0, <2>1, AdvanceMoves
  <2>3. QED
    BY <2>2 DEF SummaryShown, Replacing
<1>7. CASE InsertSummary(a)
  <2>1. Exists => summaries' = summaries \cup {a}
    BY <1>7 DEF InsertSummary
  <2>2. Exists' => Exists
    BY <1>7 DEF InsertSummary
  <2>3. QED
    BY <2>1, <2>2 DEF SummaryShown
<1>8. CASE ApplySummary(a)
  <2>1. /\ analysis[a].pc = "apply"
        /\ \A b \in Analyses \ {a} : analysis'[b] = analysis[b]
    BY <1>0, <1>8 DEF ApplySummary, TypeOK
  <2>2. QED
    BY <1>8, <1>a, <2>1 DEF ApplySummary, Inserted
<1>9. CASE RecordRun(a)
  <2>1. /\ analysis[a].pc \in {"record", "fail"} /\ analysis'[a].pc = "done"
        /\ \A b \in Analyses \ {a} :
               analysis'[b] = analysis[b] /\ runStatus'[b] = runStatus[b]
    BY <1>0, <1>9 DEF RecordRun, TypeOK, AnalysisState
  <2>2. runStatus'[a] = "success" => Inserted(a)
    BY <1>0, <1>9 DEF RecordRun, TypeOK, Inserted
  <2>3. QED
    BY <1>9, <1>a, <2>1, <2>2 DEF RecordRun, AnalysisOnly, Inserted
<1>10. QED
  BY <1>1, <1>2, <1>3, <1>4, <1>5, <1>6, <1>7, <1>8, <1>9 DEF AnalysisStep

\* Every step keeps the summary shown.
LEMMA ShownStep == Shown /\ [Next]_vars => Shown'
<1> SUFFICES ASSUME Shown, [Next]_vars PROVE SummaryShown'
  BY TypeStep DEF Shown
<1>1. ASSUME LeavesShown
      PROVE  SummaryShown'
  BY <1>1 DEF LeavesShown, Shown, SummaryShown, Replacing
<1>2. CASE UNCHANGED vars
  BY <1>2 DEF vars, Shown, SummaryShown, Replacing, Inserted
<1>3. CASE DeleteCase \/ DeleteMailbox
  <2>1. CASE DeleteRow
    BY <2>1 DEF DeleteRow, SummaryShown
  <2>2. CASE ~DeleteRow
    <3>1. (\E P : ContentChanges(P)) /\ UNCHANGED <<status, summaries, runStatus, torn>>
      BY <1>3, <2>2 DEF DeleteCase, DeleteMailbox
    <3>2. QED
      BY <1>1, <3>1, ContentChangesKeepsPC DEF LeavesShown, Inserted, Shown
  <2>3. QED
    BY <2>1, <2>2
<1>4. CASE Restart
  <2>1. \A a \in Analyses : analysis'[a].pc \in {"none", "done"}
    BY <1>4 DEF Restart, Unstarted
  <2>2. \A a \in Analyses : runStatus'[a] = "success" => runStatus[a] = "success"
    BY <1>4 DEF Restart, Shown, TypeOK
  <2>3. torn' = (torn \/ (Exists /\ Replacing))
    BY <1>4 DEF Restart, Replacing
  <2>4. UNCHANGED <<status, summaries>>
    BY <1>4 DEF Restart
  <2>5. QED
    BY <2>1, <2>2, <2>3, <2>4 DEF Shown, SummaryShown, Inserted
<1>5. ASSUME NEW m \in Messages, IndexMessage(m)
      PROVE  LeavesShown
  BY <1>5 DEF IndexMessage, LeavesShown, Inserted
<1>6. QED
  BY <1>1, <1>2, <1>3, <1>4, <1>5, RequestLeavesShown, SessionLeavesShown, AnalysisKeepsShown
     DEF Next, Shown

\* A case with a successful analysis has a summary on its timeline, but for the
\* replacement of the summary and a crash in the middle of it, for any number
\* of analyses.
THEOREM SuccessIsShown == Spec => []SuccessHasSummary
<1>1. Init => Shown
  BY TypeInit DEF Init, Shown, SummaryShown, Inserted, Unstarted
<1>2. Shown => SuccessHasSummary
  BY DEF Shown, SummaryShown, Inserted, Replacing, SuccessHasSummary
<1>3. QED
  BY <1>1, <1>2, ShownStep, PTL DEF Spec
=============================================================================
