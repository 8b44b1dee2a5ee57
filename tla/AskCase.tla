------------------------------- MODULE AskCase -------------------------------
(***************************************************************************)
(* The dialog "Consultar expediente" of AskCaseModal.tsx: one component,   *)
(* shown for one case after another, that asks an AI about the case.  The  *)
(* conversation of each case lives in localStorage; the one on the screen  *)
(* is a copy of it.  A question takes up to minutes and nothing stops it:  *)
(* its answer is written over the conversation on the screen, if the       *)
(* component is still mounted, and over the stored one of the case it was  *)
(* asked about.  localStorage is assumed to accept every write.            *)
(***************************************************************************)
EXTENDS Naturals, Sequences, SequencesExt

CONSTANTS Cases, None,
          MaxQuestions   \* bound: questions asked in all

CasesAssumption == None \notin Cases
QuestionsAssumption == MaxQuestions \in Nat \ {0}

VARIABLES
    askCaseTarget,  \* the case of the open dialog
    history,   \* the conversation on the screen
    storage,   \* the stored conversation of each case
    asking,    \* the mounted component waits for an answer
    inFlight,     \* the questions in flight, with the conversation they end
    asked,     \* number of questions so far, their identities
    \* history variables, for the properties
    kept,      \* kept[c]: questions asked about c and not cleared by the user
    over,      \* the open dialog was given the conversation of another case
    mixed      \* cases asked about over the conversation of another

askVars == <<askCaseTarget, history, storage, asking, inFlight, asked, kept, over, mixed>>

Questions == 1..MaxQuestions
\* of: the case it was asked about, for the properties.
Turn == [question : Questions, of : Cases, answer : {"null", "given", "interrupted"}]
Conversations == UNION {[1..n -> Turn] : n \in 0..MaxQuestions}

TypeOK ==
    /\ askCaseTarget \in Cases \cup {None}
    /\ history \in Conversations
    /\ storage \in [Cases -> Conversations]
    /\ asking \in BOOLEAN
    /\ \A q \in inFlight : q.case \in Cases /\ q.turns \in Conversations /\ q.mounted \in BOOLEAN
    /\ asked \in 0..MaxQuestions
    /\ kept \in [Cases -> SUBSET Questions]
    /\ over \in BOOLEAN
    /\ mixed \in SUBSET Cases

Init ==
    /\ askCaseTarget = None
    /\ history = << >>
    /\ storage = [c \in Cases |-> << >>]
    /\ asking = FALSE
    /\ inFlight = {}
    /\ asked = 0
    /\ kept = [c \in Cases |-> {}]
    /\ over = FALSE
    /\ mixed = {}

\* Faulty variant: a turn without an answer is shown as it was stored.
LoadAsStored(c) == storage[c]
\* A turn stored without an answer is shown as interrupted.
LoadHistory(c) ==
    [i \in DOMAIN storage[c] |->
        IF storage[c][i].answer = "null" THEN [storage[c][i] EXCEPT !.answer = "interrupted"]
        ELSE storage[c][i]]

OpenDialog(c) ==
    /\ askCaseTarget = None
    /\ askCaseTarget' = c
    /\ history' = LoadHistory(c)
    /\ over' = FALSE
    /\ UNCHANGED <<storage, asking, inFlight, asked, kept, mixed>>

\* The close button and Escape, also while a question is in flight.
CloseDialog ==
    /\ askCaseTarget # None
    /\ askCaseTarget' = None
    /\ UNCHANGED <<history, storage, asking, inFlight, asked, kept, over, mixed>>

\* The input is disabled while the component waits, whichever case it asked about.
HandleSend ==
    /\ askCaseTarget # None
    /\ ~asking
    /\ asked < MaxQuestions
    /\ LET turns == Append(history, [question |-> asked + 1, of |-> askCaseTarget, answer |-> "null"])
       IN  /\ history' = turns
           /\ storage' = [storage EXCEPT ![askCaseTarget] = turns]
           /\ inFlight' = inFlight \cup {[case |-> askCaseTarget, turns |-> turns, mounted |-> TRUE]}
    /\ asking' = TRUE
    /\ asked' = asked + 1
    /\ kept' = [kept EXCEPT ![askCaseTarget] = @ \cup {asked + 1}]
    /\ mixed' = IF over THEN mixed \cup {askCaseTarget} ELSE mixed
    /\ UNCHANGED <<askCaseTarget, over>>

\* The answer or the error, in place of the last turn of the conversation as it
\* was when the question was sent.
Answered(q) == [q.turns EXCEPT ![Len(q.turns)].answer = "given"]
\* Faulty variant: the answer is stored under the case now on the screen.
AnswerIntoShownCase(q) ==
    /\ storage' = IF askCaseTarget = None THEN storage ELSE [storage EXCEPT ![askCaseTarget] = Answered(q)]
    /\ inFlight' = inFlight \ {q}
    /\ IF q.mounted THEN /\ history' = Answered(q)
                         /\ asking' = FALSE
                         /\ over' = (askCaseTarget \notin {q.case, None})
                    ELSE UNCHANGED <<history, asking, over>>
    /\ UNCHANGED <<askCaseTarget, asked, kept, mixed>>
Answer(q) ==
    /\ storage' = [storage EXCEPT ![q.case] = Answered(q)]
    /\ inFlight' = inFlight \ {q}
    /\ IF q.mounted THEN /\ history' = Answered(q)
                         /\ asking' = FALSE
                         /\ over' = (askCaseTarget \notin {q.case, None})
                    ELSE UNCHANGED <<history, asking, over>>
    /\ UNCHANGED <<askCaseTarget, asked, kept, mixed>>

\* The button is enabled when there is something to clear.
HandleClearHistory ==
    /\ askCaseTarget # None
    /\ history # << >>
    /\ history' = << >>
    /\ storage' = [storage EXCEPT ![askCaseTarget] = << >>]
    /\ kept' = [kept EXCEPT ![askCaseTarget] = {}]
    /\ over' = FALSE
    /\ UNCHANGED <<askCaseTarget, asking, inFlight, asked, mixed>>

\* Another screen is opened and this one mounted again: the questions in flight
\* go on; or the page is reloaded, and they do not.
Unmount ==
    /\ askCaseTarget' = None
    /\ history' = << >>
    /\ asking' = FALSE
    /\ over' = FALSE
    /\ inFlight' \in {{}, {[q EXCEPT !.mounted = FALSE] : q \in inFlight}}
    /\ UNCHANGED <<storage, asked, kept, mixed>>

Next == \/ \E c \in Cases : OpenDialog(c)
        \/ CloseDialog \/ HandleSend \/ HandleClearHistory \/ Unmount
        \/ \E q \in inFlight : Answer(q)

Spec == Init /\ [][Next]_askVars

-----------------------------------------------------------------------------
(* Properties *)

\* No bubble says "Pensando..." for ever: a turn on the screen without an answer
\* is the last one of a question in flight that this component waits for.
ThinkingEnds ==
    \A i \in DOMAIN history :
        history[i].answer = "null" =>
            \E q \in inFlight : q.mounted /\ Last(q.turns) = history[i]

\* Conversations stay apart: what is stored for a case was asked about it, unless
\* the user asked over the conversation that a late answer had put on the screen.
ConversationsStayApart ==
    \A c \in Cases \ mixed : \A i \in DOMAIN storage[c] : storage[c][i].of = c

\* What handleSend is written for (AskCaseModal.tsx:79-82): however late the
\* answers come, and in whichever order, a question that was sent is still in the
\* stored conversation of its case.  Not kept, and in no configuration: an answer
\* that comes late writes the conversation as it was before the next question.
Stored(c) == {storage[c][i].question : i \in DOMAIN storage[c]}
QuestionsAreKept == \A c \in Cases : kept[c] \subseteq Stored(c)
=============================================================================
