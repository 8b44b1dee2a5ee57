---------------------------- MODULE DialogProofs ----------------------------
(***************************************************************************)
(* TLAPS proofs about the dialogs of the frontend, for every value of the  *)
(* constants: a chapter about each of AskCase, MailDialog, RecipientInput  *)
(* and SettingsDialogs.  They share no variable; the names of a component  *)
(* are those of its instance.                                              *)
(***************************************************************************)
EXTENDS Naturals, Sequences, FiniteSets, SequencesExt, WellFoundedInduction, NaturalsInduction, TLAPS

CONSTANTS Cases, People, Spellings, None, MaxQuestions, MaxChips, MaxMailCalls, Rows, Types,
          MaxImpacts

VARIABLES
    askCaseTarget, history, storage, asking, inFlight, asked, kept, over, mixed,  \* of AskCase
    mail, form, suggestion, preview, pdf, report, fields, mailCalls,              \* of MailDialog
    chips, drag, wanted,                                                          \* of RecipientInput
    formOpen, editingId, type, dirty, fetchedModels, fetching, saving, fetches, saves,
    formTarget, deleteImpact, loadingImpact, deleting, impacts, deletes, rows, lost,
    crossed                                                                       \* of SettingsDialogs

Ask   == INSTANCE AskCase
Mail  == INSTANCE MailDialog WITH calls <- mailCalls, MaxCalls <- MaxMailCalls
Chips == INSTANCE RecipientInput
Forms == INSTANCE SettingsDialogs WITH deleteTarget <- formTarget, MaxCalls <- MaxImpacts

-----------------------------------------------------------------------------
(* Induction and recursion over the naturals, and sequences *)

\* The order of the naturals, along which the inductions go.
Earlier == {e \in Nat \X Nat : e[1] < e[2]}
\* Every non-empty set of naturals has a least element.
LEMMA EarlierWellFounded == IsWellFoundedOn(Earlier, Nat)
<1>1. Earlier = OpToRel(<, Nat)
  BY DEF Earlier, OpToRel
<1>2. QED
  BY <1>1, NatLessThanWellFounded

\* A set of naturals with 0 and the successor of each of its members has them all.
LEMMA Induct ==
    ASSUME NEW T \in SUBSET Nat, 0 \in T, \A n \in T : n + 1 \in T
    PROVE  T = Nat
<1>1. SUFFICES ASSUME Nat \ T # {} PROVE FALSE
  OBVIOUS
<1>2. PICK x \in Nat \ T : \A y \in Nat \ T : ~ (<<y, x>> \in Earlier)
  BY <1>1, EarlierWellFounded, WFMin
<1>3. x # 0 /\ x - 1 \in Nat /\ <<x - 1, x>> \in Earlier
  BY <1>2 DEF Earlier
<1>4. x - 1 \in T
  BY <1>2, <1>3
<1>5. QED
  BY <1>2, <1>3, <1>4

\* Every number has a function that goes from base by steps up to it.
Steps(g, n, D, base, step) ==
    /\ g \in [0..n -> D]
    /\ g[0] = base
    /\ \A k \in 1..n : g[k] = step[<<k, g[k - 1]>>]

\* So a recursive function over 0..n exists and satisfies its own equation.
LEMMA StepsExist ==
    ASSUME NEW n \in Nat, NEW D, NEW base \in D, NEW step \in [(1..n) \X D -> D]
    PROVE  \E g : Steps(g, n, D, base, step)
<1> DEFINE T == {m \in Nat : m <= n => \E g : Steps(g, m, D, base, step)}
<1>1. 0 \in T
  <2>1. Steps([k \in 0..0 |-> base], 0, D, base, step)
    BY DEF Steps
  <2>2. QED
    BY <2>1
<1>2. ASSUME NEW m \in T
      PROVE  m + 1 \in T
  <2>1. SUFFICES ASSUME m + 1 <= n
                 PROVE  \E g : Steps(g, m + 1, D, base, step)
    OBVIOUS
  <2>2. PICK g : Steps(g, m, D, base, step)
    BY <2>1
  <2>3. PICK next : next = step[<<m + 1, g[m]>>]
    OBVIOUS
  <2>4. next \in D
    BY <2>1, <2>2, <2>3 DEF Steps
  <2>5. PICK h : h = [k \in 0..(m + 1) |-> IF k = m + 1 THEN next ELSE g[k]]
    OBVIOUS
  <2>6. h \in [0..(m + 1) -> D] /\ h[0] = base /\ h[m + 1] = next /\ \A k \in 0..m : h[k] = g[k]
    BY <2>2, <2>4, <2>5 DEF Steps
  <2>7. ASSUME NEW k \in 1..(m + 1)
        PROVE  h[k] = step[<<k, h[k - 1]>>]
    <3>1. CASE k = m + 1
      BY <2>3, <2>6, <3>1
    <3>2. CASE k \in 1..m
      BY <2>2, <2>6, <3>2 DEF Steps
    <3>3. QED
      BY <3>1, <3>2
  <2>8. QED
    BY <2>6, <2>7 DEF Steps
<1>3. T = Nat
  BY <1>1, <1>2, Induct
<1>4. QED
  BY <1>3

\* A sequence without its i-th element.
LEMMA RemovedAt ==
    ASSUME NEW S, NEW s \in Seq(S), NEW i \in 1..Len(s)
    PROVE  LET rest == SubSeq(s, 1, i - 1) \o SubSeq(s, i + 1, Len(s))
           IN  /\ rest \in Seq(S) /\ Len(rest) = Len(s) - 1
               /\ \A k \in 1..(Len(s) - 1) : rest[k] = IF k < i THEN s[k] ELSE s[k + 1]
<1>1. PICK n \in Nat : n = Len(s)
  OBVIOUS
<1>2. PICK before : before = SubSeq(s, 1, i - 1)
  OBVIOUS
<1>3. PICK after : after = SubSeq(s, i + 1, n)
  OBVIOUS
<1>4. i \in 1..n /\ \A k \in 1..n : s[k] \in S
  BY <1>1
<1>5. before \in Seq(S) /\ Len(before) = i - 1 /\ \A k \in 1..(i - 1) : before[k] = s[k]
  BY <1>1, <1>2, <1>4
<1>6. after \in Seq(S) /\ Len(after) = n - i /\ \A k \in 1..(n - i) : after[k] = s[k + i]
  BY <1>1, <1>3, <1>4
<1>7. PICK rest : rest = before \o after
  OBVIOUS
<1>8. rest \in Seq(S) /\ Len(rest) = n - 1
  BY <1>4, <1>5, <1>6, <1>7
<1>9. ASSUME NEW k \in 1..(n - 1)
      PROVE  rest[k] = IF k < i THEN s[k] ELSE s[k + 1]
  <2>1. CASE k < i
    BY <1>4, <1>5, <1>6, <1>7, <2>1
  <2>2. CASE k >= i
    <3>1. rest[k] = after[k - (i - 1)] /\ k - (i - 1) \in 1..(n - i)
      BY <1>4, <1>5, <1>6, <1>7, <2>2
    <3>2. QED
      BY <1>4, <1>6, <2>2, <3>1
  <2>3. QED
    BY <1>4, <2>1, <2>2
<1>10. QED
  BY <1>1, <1>2, <1>3, <1>7, <1>8, <1>9

-----------------------------------------------------------------------------
(* The conversation about a case (AskCase) *)

\* A conversation has no more turns than questions were asked.
Short(turns) == turns \in Seq(Ask!Turn) /\ Len(turns) <= asked

Flight == [case : Cases, turns : Seq(Ask!Turn), mounted : BOOLEAN]

AskShape ==
    /\ askCaseTarget \in Cases \cup {None}
    /\ Short(history)
    /\ storage \in [Cases -> Seq(Ask!Turn)] /\ \A c \in Cases : Short(storage[c])
    /\ asking \in BOOLEAN
    /\ inFlight \in SUBSET Flight
    /\ \A q \in inFlight : Short(q.turns) /\ q.turns # << >>
    /\ asked \in 0..MaxQuestions
    /\ kept \in [Cases -> SUBSET Ask!Questions]
    /\ over \in BOOLEAN
    /\ mixed \in SUBSET Cases

\* The mounted component waits for one question at a time, whichever case it is
\* about, and a question is asked over a conversation without open turns.
OneAtATime ==
    /\ \A p, q \in inFlight : p.mounted /\ q.mounted => p = q
    /\ \A q \in inFlight : q.mounted => asking
    /\ \A q \in inFlight : \A i \in DOMAIN q.turns :
          q.turns[i].answer = "null" => i = Len(q.turns)

\* Whose turns a conversation has.
AllOf(turns, c) == \A i \in DOMAIN turns : turns[i].of = c

\* The conversation on the screen and those that answers are on their way to are
\* of one case, unless a late answer brought another one to the screen (over) and
\* the user went on there (mixed).
Apart ==
    /\ \A c \in Cases \ mixed : AllOf(storage[c], c)
    /\ askCaseTarget \in Cases \ mixed /\ ~over => AllOf(history, askCaseTarget)
    /\ \A q \in inFlight : q.case \notin mixed => AllOf(q.turns, q.case)

AskInv == AskShape /\ OneAtATime /\ Ask!ThinkingEnds /\ Apart

-----------------------------------------------------------------------------
(* Conversations *)

\* A turn that is closed.
LEMMA Closing ==
    ASSUME NEW t \in Ask!Turn, NEW how \in {"given", "interrupted"}
    PROVE  LET closed == [t EXCEPT !.answer = how]
           IN  closed \in Ask!Turn /\ closed.answer # "null" /\ closed.of = t.of
BY DEF Ask!Turn

\* What the screen shows of a stored conversation: as many turns, none open.
LEMMA Loading ==
    ASSUME AskShape, NEW c \in Cases
    PROVE  /\ Ask!LoadHistory(c) \in Seq(Ask!Turn) /\ Len(Ask!LoadHistory(c)) = Len(storage[c])
           /\ DOMAIN Ask!LoadHistory(c) = DOMAIN storage[c]
           /\ \A i \in DOMAIN storage[c] :
                 Ask!LoadHistory(c)[i].answer # "null" /\ Ask!LoadHistory(c)[i].of = storage[c][i].of
<1>1. storage[c] \in Seq(Ask!Turn)
  BY DEF AskShape
<1>2. PICK h : h = Ask!LoadHistory(c)
  OBVIOUS
<1>3. PICK n \in Nat : n = Len(storage[c]) /\ DOMAIN storage[c] = 1..n
  BY <1>1
<1>4. DOMAIN h = 1..n
  BY <1>2, <1>3 DEF Ask!LoadHistory
<1>5. ASSUME NEW i \in 1..n
      PROVE  h[i] \in Ask!Turn /\ h[i].answer # "null" /\ h[i].of = storage[c][i].of
  <2>1. storage[c][i] \in Ask!Turn
    BY <1>1, <1>3
  <2>2. h[i] = IF storage[c][i].answer = "null" THEN [storage[c][i] EXCEPT !.answer = "interrupted"]
               ELSE storage[c][i]
    BY <1>2, <1>3 DEF Ask!LoadHistory
  <2>3. QED
    BY <2>1, <2>2, Closing
<1>6. h = [i \in 1..n |-> h[i]]
  BY <1>2, <1>3 DEF Ask!LoadHistory
<1>7. h \in [1..n -> Ask!Turn]
  BY <1>5, <1>6
<1>8. h \in Seq(Ask!Turn) /\ Len(h) = n
  BY <1>7
<1>9. QED
  BY <1>2, <1>3, <1>4, <1>5, <1>8

\* An answer closes the last turn and leaves the others alone.
LEMMA Answering ==
    ASSUME AskShape, OneAtATime, NEW q \in inFlight
    PROVE  /\ Ask!Answered(q) \in Seq(Ask!Turn) /\ Len(Ask!Answered(q)) = Len(q.turns)
           /\ DOMAIN Ask!Answered(q) = DOMAIN q.turns
           /\ \A i \in DOMAIN q.turns :
                 Ask!Answered(q)[i].answer # "null" /\ Ask!Answered(q)[i].of = q.turns[i].of
<1>1. q \in Flight /\ q.turns \in Seq(Ask!Turn) /\ q.turns # << >>
  BY DEF AskShape, Short
<1>2. PICK n : n = Len(q.turns) /\ n \in DOMAIN q.turns
  BY <1>1
<1>3. PICK t : t = [q.turns[n] EXCEPT !.answer = "given"]
  OBVIOUS
<1>4. t \in Ask!Turn /\ t.answer # "null" /\ t.of = q.turns[n].of
  <2>1. q.turns[n] \in Ask!Turn
    BY <1>1, <1>2
  <2>2. QED
    BY <1>3, <2>1, Closing
<1>5. Ask!Answered(q) = [q.turns EXCEPT ![n] = t]
  BY <1>2, <1>3 DEF Ask!Answered
<1>6. Ask!Answered(q) \in Seq(Ask!Turn) /\ Len(Ask!Answered(q)) = Len(q.turns)
  BY <1>1, <1>2, <1>4, <1>5
<1>7. \A i \in DOMAIN q.turns : i # n => q.turns[i].answer # "null"
  BY <1>2 DEF OneAtATime
<1>8. QED
  BY <1>1, <1>2, <1>4, <1>5, <1>6, <1>7

-----------------------------------------------------------------------------
(* The steps *)

\* Opening shows the stored conversation, its open turns as interrupted.
LEMMA OpenKeeps ==
    ASSUME AskInv, NEW c \in Cases, Ask!OpenDialog(c)
    PROVE  AskInv'
<1>1. /\ askCaseTarget' = c /\ history' = Ask!LoadHistory(c) /\ over' = FALSE
      /\ UNCHANGED <<storage, asking, inFlight, asked, kept, mixed>>
  BY DEF Ask!OpenDialog
<1>2. PICK h : h = Ask!LoadHistory(c)
  OBVIOUS
<1>3. /\ h \in Seq(Ask!Turn) /\ Len(h) = Len(storage[c]) /\ DOMAIN h = DOMAIN storage[c]
      /\ \A i \in DOMAIN h : h[i].answer # "null" /\ h[i].of = storage[c][i].of
  BY <1>2, Loading DEF AskInv
<1>4. AskShape'
  BY <1>1, <1>2, <1>3 DEF AskInv, AskShape, Short
<1>5. OneAtATime' /\ Ask!ThinkingEnds'
  BY <1>1, <1>2, <1>3 DEF AskInv, OneAtATime, Ask!ThinkingEnds
<1>6. Apart'
  BY <1>1, <1>2, <1>3 DEF AskInv, Apart, AllOf
<1>7. QED
  BY <1>4, <1>5, <1>6 DEF AskInv

\* Closing leaves the conversation on the screen, and forgets of whom it is.
LEMMA CloseKeeps ==
    ASSUME Ask!CasesAssumption, AskInv, Ask!CloseDialog
    PROVE  AskInv'
<1>1. AskShape' /\ OneAtATime' /\ Ask!ThinkingEnds'
  BY DEF Ask!CloseDialog, AskInv, AskShape, Short, OneAtATime, Ask!ThinkingEnds
<1>2. Apart'
  BY DEF Ask!CasesAssumption, Ask!CloseDialog, AskInv, Apart, AllOf
<1>3. QED
  BY <1>1, <1>2 DEF AskInv

\* A question goes to the end of a conversation without open turns.
LEMMA AskSendKeeps ==
    ASSUME Ask!QuestionsAssumption, AskInv, Ask!HandleSend
    PROVE  AskInv'
<1>1. askCaseTarget \in Cases /\ ~asking /\ asked < MaxQuestions
  BY DEF Ask!HandleSend, AskInv, AskShape
<1>2. PICK t : t = [question |-> asked + 1, of |-> askCaseTarget, answer |-> "null"]
  OBVIOUS
<1>3. t \in Ask!Turn /\ t.of = askCaseTarget /\ asked + 1 \in Ask!Questions
  BY <1>1, <1>2 DEF Ask!Turn, Ask!Questions, AskInv, AskShape, Ask!QuestionsAssumption
<1>4. PICK turns : turns = Append(history, t)
  OBVIOUS
<1>5. /\ turns \in Seq(Ask!Turn) /\ Len(turns) = Len(history) + 1 /\ Len(turns) <= asked + 1
      /\ DOMAIN turns = 1..Len(turns) /\ DOMAIN history = 1..Len(history)
      /\ \A i \in DOMAIN turns : turns[i] = IF i = Len(turns) THEN t ELSE history[i]
      /\ Ask!Last(turns) = t
  BY <1>3, <1>4 DEF AskInv, AskShape, Short, Ask!Last
<1>6. PICK f : f = [case |-> askCaseTarget, turns |-> turns, mounted |-> TRUE]
  OBVIOUS
<1>7. f \in Flight /\ f.case = askCaseTarget /\ f.turns = turns /\ f.mounted = TRUE
  BY <1>1, <1>5, <1>6 DEF Flight
<1>8. /\ history' = turns /\ storage' = [storage EXCEPT ![askCaseTarget] = turns]
      /\ inFlight' = inFlight \cup {f} /\ asking' = TRUE /\ asked' = asked + 1
      /\ kept' = [kept EXCEPT ![askCaseTarget] = kept[askCaseTarget] \cup {asked + 1}]
      /\ mixed' = IF over THEN mixed \cup {askCaseTarget} ELSE mixed
      /\ UNCHANGED <<askCaseTarget, over>>
  BY <1>2, <1>4, <1>6 DEF Ask!HandleSend
<1>9. \A q \in inFlight : ~q.mounted
  BY <1>1 DEF AskInv, OneAtATime
<1>10. \A i \in DOMAIN history : history[i].answer # "null"
  BY <1>9 DEF AskInv, Ask!ThinkingEnds
<1>11. AskShape'
  <2>1. storage' \in [Cases -> Seq(Ask!Turn)] /\ \A c \in Cases : Short(storage[c])'
    BY <1>1, <1>5, <1>8 DEF AskInv, AskShape, Short
  <2>2. inFlight' \in SUBSET Flight /\ \A q \in inFlight' : Short(q.turns)' /\ q.turns # << >>
    <3>1. \A q \in inFlight : Short(q.turns)' /\ q.turns # << >>
      BY <1>8 DEF AskInv, AskShape, Short
    <3>2. Short(f.turns)' /\ f.turns # << >>
      BY <1>5, <1>7, <1>8 DEF Short, AskInv, AskShape
    <3>3. QED
      BY <1>7, <1>8, <3>1, <3>2 DEF AskInv, AskShape
  <2>3. asked' \in 0..MaxQuestions /\ kept' \in [Cases -> SUBSET Ask!Questions]
    BY <1>1, <1>3, <1>8 DEF AskInv, AskShape, Ask!QuestionsAssumption
  <2>4. Short(history)' /\ mixed' \in SUBSET Cases
    BY <1>1, <1>5, <1>8 DEF Short, AskInv, AskShape
  <2>5. QED
    BY <1>8, <2>1, <2>2, <2>3, <2>4 DEF AskInv, AskShape
<1>12. OneAtATime'
  <2>1. \A i \in DOMAIN turns : turns[i].answer = "null" => i = Len(turns)
    BY <1>5, <1>10
  <2>2. QED
    BY <1>7, <1>8, <1>9, <2>1 DEF AskInv, OneAtATime
<1>13. Ask!ThinkingEnds'
  BY <1>5, <1>7, <1>8, <1>10 DEF Ask!ThinkingEnds
<1>14. Apart'
  <2>1. askCaseTarget \notin mixed' => AllOf(turns, askCaseTarget)
    BY <1>1, <1>3, <1>5, <1>8 DEF AskInv, Apart, AllOf
  <2>2. \A c \in Cases \ mixed' : AllOf(storage'[c], c)
    BY <1>1, <1>8, <2>1 DEF AskInv, Apart, AskShape
  <2>3. \A q \in inFlight' : q.case \notin mixed' => AllOf(q.turns, q.case)
    BY <1>7, <1>8, <2>1 DEF AskInv, Apart
  <2>4. QED
    BY <1>8, <2>1, <2>2, <2>3 DEF Apart, AllOf
<1>15. QED
  BY <1>11, <1>12, <1>13, <1>14 DEF AskInv

\* An answer is written over the screen of the component that waits for it, and
\* over the stored conversation of its case.
LEMMA AnswerKeeps ==
    ASSUME Ask!CasesAssumption, AskInv, NEW q \in inFlight, Ask!Answer(q)
    PROVE  AskInv'
<1>1. PICK a : a = Ask!Answered(q)
  OBVIOUS
<1>2. /\ a \in Seq(Ask!Turn) /\ Len(a) = Len(q.turns) /\ DOMAIN a = DOMAIN q.turns
      /\ \A i \in DOMAIN a : a[i].answer # "null" /\ a[i].of = q.turns[i].of
  BY <1>1, Answering DEF AskInv
<1>3. q \in Flight /\ q.case \in Cases /\ Len(a) <= asked
  BY <1>2 DEF AskInv, AskShape, Short, Flight
<1>4. /\ storage' = [storage EXCEPT ![q.case] = a] /\ inFlight' = inFlight \ {q}
      /\ q.mounted => /\ history' = a /\ asking' = FALSE
                      /\ over' = (askCaseTarget \notin {q.case, None})
      /\ ~q.mounted => UNCHANGED <<history, asking, over>>
      /\ UNCHANGED <<askCaseTarget, asked, kept, mixed>>
  BY <1>1 DEF Ask!Answer
<1>5. AskShape'
  <2>1. storage' \in [Cases -> Seq(Ask!Turn)] /\ \A c \in Cases : Short(storage[c])'
    BY <1>2, <1>3, <1>4 DEF AskInv, AskShape, Short
  <2>2. Short(history)' /\ asking' \in BOOLEAN /\ over' \in BOOLEAN
    BY <1>2, <1>3, <1>4 DEF AskInv, AskShape, Short
  <2>3. QED
    BY <1>4, <2>1, <2>2 DEF AskInv, AskShape, Short
<1>6. OneAtATime'
  BY <1>3, <1>4 DEF AskInv, OneAtATime, Flight
<1>7. Ask!ThinkingEnds'
  <2>1. CASE q.mounted
    BY <1>2, <1>4, <2>1 DEF Ask!ThinkingEnds
  <2>2. CASE ~q.mounted
    BY <1>4, <2>2 DEF AskInv, Ask!ThinkingEnds
  <2>3. QED
    BY <1>3, <2>1, <2>2 DEF Flight
<1>8. Apart'
  <2>1. q.case \notin mixed => AllOf(a, q.case)
    BY <1>2 DEF AskInv, Apart, AllOf
  <2>2. \A c \in Cases \ mixed : AllOf(storage'[c], c)
    BY <1>3, <1>4, <2>1 DEF AskInv, Apart, AskShape
  <2>3. askCaseTarget' \in Cases \ mixed' /\ ~over' => AllOf(history', askCaseTarget')
    <3>1. CASE q.mounted
      BY <1>4, <2>1, <3>1 DEF Ask!CasesAssumption
    <3>2. CASE ~q.mounted
      BY <1>4, <3>2 DEF AskInv, Apart
    <3>3. QED
      BY <3>1, <3>2
  <2>4. QED
    BY <1>4, <2>2, <2>3 DEF AskInv, Apart, AllOf
<1>9. QED
  BY <1>5, <1>6, <1>7, <1>8 DEF AskInv

\* The screen forgets its copy; the stored one is left as it is.
LEMMA AskClearKeeps ==
    ASSUME AskInv, Ask!HandleClearHistory
    PROVE  AskInv'
<1>1. /\ askCaseTarget \in Cases /\ history' = << >> /\ over' = FALSE
      /\ storage' = [storage EXCEPT ![askCaseTarget] = << >>]
      /\ kept' = [kept EXCEPT ![askCaseTarget] = {}]
      /\ UNCHANGED <<askCaseTarget, asking, inFlight, asked, mixed>>
  BY DEF Ask!HandleClearHistory, AskInv, AskShape
<1>2. Short(<< >>) /\ DOMAIN << >> = {}
  BY DEF Short, AskInv, AskShape
<1>3. AskShape'
  <2>1. storage' \in [Cases -> Seq(Ask!Turn)] /\ \A c \in Cases : Short(storage'[c])
    BY <1>1, <1>2 DEF AskInv, AskShape, Short
  <2>2. \A c \in Cases : Short(storage[c])'
    BY <1>1, <2>1 DEF Short
  <2>3. \A q \in inFlight : Short(q.turns)' /\ q.turns # << >>
    BY <1>1 DEF AskInv, AskShape, Short
  <2>4. Short(history)'
    BY <1>1, <1>2 DEF Short
  <2>5. QED
    BY <1>1, <2>1, <2>2, <2>3, <2>4 DEF AskInv, AskShape
<1>4. OneAtATime' /\ Ask!ThinkingEnds'
  BY <1>1, <1>2 DEF AskInv, OneAtATime, Ask!ThinkingEnds
<1>5. Apart'
  BY <1>1, <1>2 DEF AskInv, AskShape, Apart, AllOf
<1>6. QED
  BY <1>3, <1>4, <1>5 DEF AskInv

\* What is in flight either dies with the page or answers to nobody's screen.
LEMMA AskUnmountKeeps ==
    ASSUME Ask!CasesAssumption, AskInv, Ask!Unmount
    PROVE  AskInv'
<1>1. /\ askCaseTarget' = None /\ history' = << >> /\ asking' = FALSE /\ over' = FALSE
      /\ UNCHANGED <<storage, asked, kept, mixed>>
  BY DEF Ask!Unmount
<1>2. Short(<< >>) /\ DOMAIN << >> = {}
  BY DEF Short, AskInv, AskShape
<1>3. ASSUME NEW q \in inFlight'
      PROVE  \E p \in inFlight : /\ q \in Flight /\ q.case = p.case /\ q.turns = p.turns
                                 /\ ~q.mounted
  <2>1. PICK p \in inFlight : q = [p EXCEPT !.mounted = FALSE]
    BY <1>3 DEF Ask!Unmount
  <2>2. p \in Flight
    BY DEF AskInv, AskShape
  <2>3. QED
    BY <2>1, <2>2 DEF Flight
<1>4. AskShape'
  <2>1. \A q \in inFlight' : q \in Flight /\ Short(q.turns)' /\ q.turns # << >>
    BY <1>1, <1>3 DEF AskInv, AskShape, Short
  <2>2. \A c \in Cases : Short(storage[c])'
    BY <1>1 DEF AskInv, AskShape, Short
  <2>3. Short(history)'
    BY <1>1, <1>2 DEF Short
  <2>4. QED
    BY <1>1, <2>1, <2>2, <2>3 DEF AskInv, AskShape
<1>5. OneAtATime'
  BY <1>3 DEF AskInv, OneAtATime
<1>6. Ask!ThinkingEnds'
  BY <1>1, <1>2 DEF Ask!ThinkingEnds
<1>7. Apart'
  <2>1. \A q \in inFlight' : q.case \notin mixed' => AllOf(q.turns, q.case)
    BY <1>1, <1>3 DEF AskInv, Apart
  <2>2. QED
    BY <1>1, <2>1 DEF Ask!CasesAssumption, AskInv, Apart, AllOf
<1>8. QED
  BY <1>4, <1>5, <1>6, <1>7 DEF AskInv

-----------------------------------------------------------------------------
(* The results *)

\* No question has been asked: the invariant holds.
LEMMA AskStart == Ask!QuestionsAssumption /\ Ask!Init => AskInv
<1> SUFFICES ASSUME Ask!QuestionsAssumption, Ask!Init PROVE AskInv
  OBVIOUS
<1>1. AskShape
  <2>1. asked = 0 /\ Short(<< >>)
    BY DEF Ask!Init, Short
  <2>2. Short(history) /\ \A c \in Cases : Short(storage[c])
    BY <2>1 DEF Ask!Init
  <2>3. storage \in [Cases -> Seq(Ask!Turn)] /\ kept \in [Cases -> SUBSET Ask!Questions]
    BY DEF Ask!Init
  <2>4. asked \in 0..MaxQuestions /\ inFlight = {} /\ mixed = {}
    BY DEF Ask!Init, Ask!QuestionsAssumption
  <2>5. QED
    BY <2>2, <2>3, <2>4 DEF Ask!Init, AskShape
<1>2. OneAtATime /\ Ask!ThinkingEnds /\ Apart
  BY DEF Ask!Init, OneAtATime, Ask!ThinkingEnds, Apart, AllOf
<1>3. QED
  BY <1>1, <1>2 DEF AskInv

\* The invariant of the conversations is inductive.
LEMMA AskSteps == Ask!CasesAssumption /\ Ask!QuestionsAssumption => (AskInv /\ [Ask!Next]_Ask!askVars => AskInv')
<1> SUFFICES ASSUME Ask!CasesAssumption, Ask!QuestionsAssumption, AskInv, [Ask!Next]_Ask!askVars PROVE AskInv'
  OBVIOUS
<1>1. CASE UNCHANGED Ask!askVars
  BY <1>1 DEF Ask!askVars, AskInv, AskShape, Short, OneAtATime, Ask!ThinkingEnds, Apart, AllOf
<1>2. QED
  BY <1>1, OpenKeeps, CloseKeeps, AskSendKeeps, AnswerKeeps, AskClearKeeps, AskUnmountKeeps
     DEF Ask!Next

\* The types follow from the shape: a conversation has at most MaxQuestions turns.
LEMMA ShapeIsTyped == Ask!QuestionsAssumption /\ AskShape => Ask!TypeOK
<1> SUFFICES ASSUME Ask!QuestionsAssumption, AskShape PROVE Ask!TypeOK
  OBVIOUS
<1>1. ASSUME NEW turns, Short(turns)
      PROVE  turns \in Ask!Conversations
  <2>1. PICK n \in 0..MaxQuestions : n = Len(turns)
    BY <1>1 DEF Short, AskShape, Ask!QuestionsAssumption
  <2>2. turns \in [1..n -> Ask!Turn]
    BY <1>1, <2>1 DEF Short
  <2>3. QED
    BY <2>2 DEF Ask!Conversations
<1>2. history \in Ask!Conversations
  BY <1>1 DEF AskShape
<1>3. storage \in [Cases -> Ask!Conversations]
  BY <1>1 DEF AskShape
<1>4. \A q \in inFlight : q.case \in Cases /\ q.turns \in Ask!Conversations /\ q.mounted \in BOOLEAN
  BY <1>1 DEF AskShape, Flight
<1>5. QED
  BY <1>2, <1>3, <1>4 DEF AskShape, Ask!TypeOK

\* Every reachable state is of its type; no conversation is longer than the
\* questions asked.
THEOREM AskTypes == ASSUME Ask!CasesAssumption, Ask!QuestionsAssumption PROVE Ask!Spec => []Ask!TypeOK
<1>1. Ask!Init => AskInv
  BY AskStart
<1>2. AskInv /\ [Ask!Next]_Ask!askVars => AskInv'
  BY AskSteps
<1>3. AskInv => Ask!TypeOK
  BY ShapeIsTyped DEF AskInv
<1>4. QED
  BY <1>1, <1>2, <1>3, PTL DEF Ask!Spec

\* No bubble says "Pensando..." for ever: a turn on the screen without an answer
\* is the last of a question in flight that the component waits for.
THEOREM ThinkingComesToAnEnd ==
    ASSUME Ask!CasesAssumption, Ask!QuestionsAssumption PROVE Ask!Spec => []Ask!ThinkingEnds
<1>1. Ask!Init => AskInv
  BY AskStart
<1>2. AskInv /\ [Ask!Next]_Ask!askVars => AskInv'
  BY AskSteps
<1>3. AskInv => Ask!ThinkingEnds
  BY DEF AskInv
<1>4. QED
  BY <1>1, <1>2, <1>3, PTL DEF Ask!Spec

\* What is stored for a case was asked about it, unless the user asked over the
\* conversation that a late answer had put on the screen.
THEOREM ConversationsAreApart ==
    ASSUME Ask!CasesAssumption, Ask!QuestionsAssumption PROVE Ask!Spec => []Ask!ConversationsStayApart
<1>1. Ask!Init => AskInv
  BY AskStart
<1>2. AskInv /\ [Ask!Next]_Ask!askVars => AskInv'
  BY AskSteps
<1>3. AskInv => Ask!ConversationsStayApart
  BY DEF AskInv, Apart, AllOf, Ask!ConversationsStayApart
<1>4. QED
  BY <1>1, <1>2, <1>3, PTL DEF Ask!Spec

-----------------------------------------------------------------------------
(* The dialogs of the mail and of the report (MailDialog) *)

USE DEF Mail!dialogVars, Mail!reportVars

\* What outlives a dialog: a piece that is still there when no dialog is open was
\* left behind, so that the next dialog may keep it without owning it.
NothingOwnLeft ==
    mail = None => \A p \in {suggestion, preview, pdf} : p = None \/ p.how = "stray"

\* The body of an open dialog is never empty, and the fields of an open report
\* dialog are those of its case: opening it forgets the ones left from another.
FormsAreOfTheirCase ==
    /\ mail # None => form.text \in Mail!Piece
    /\ report # None /\ fields # None => fields = report

MailInv == Mail!TypeOK /\ NothingOwnLeft /\ FormsAreOfTheirCase /\ Mail!CasesStayApart

-----------------------------------------------------------------------------
(* Pieces and requests *)

\* A stray piece is of no dialog in particular.
LEMMA Straying ==
    ASSUME NEW p \in Mail!Pieces
    PROVE  /\ Mail!Strayed(p) \in Mail!Pieces
           /\ Mail!Strayed(p) = None \/ Mail!Strayed(p).how = "stray"
           /\ \A c \in Cases : Mail!OfCase(Mail!Strayed(p), c)
<1>1. CASE p = None
  BY <1>1 DEF Mail!Strayed, Mail!Pieces, Mail!OfCase
<1>2. CASE p # None
  <2>1. p \in Mail!Piece
    BY <1>2 DEF Mail!Pieces
  <2>2. [p EXCEPT !.how = "stray"] \in Mail!Piece /\ [p EXCEPT !.how = "stray"].how = "stray"
    BY <2>1 DEF Mail!Piece
  <2>3. QED
    BY <1>2, <2>2 DEF Mail!Strayed, Mail!Pieces, Mail!OfCase
<1>3. QED
  BY <1>1, <1>2

\* An answer is of the dialog on the screen, or stray.
LEMMA Arriving ==
    ASSUME Mail!CasesAssumption, NEW p \in Mail!Piece
    PROVE  /\ Mail!Arrived(p) \in Mail!Pieces
           /\ mail = None => Mail!Arrived(p) = None \/ Mail!Arrived(p).how = "stray"
           /\ Mail!OfCase(Mail!Arrived(p), mail)
<1>1. p \in Mail!Pieces /\ p.of \in Cases
  BY DEF Mail!Piece, Mail!Pieces
<1>2. CASE p.of = mail
  BY <1>1, <1>2 DEF Mail!Arrived, Mail!OfCase, Mail!CasesAssumption
<1>3. CASE p.of # mail
  BY <1>1, <1>3, Straying DEF Mail!Arrived, Mail!OfCase
<1>4. QED
  BY <1>2, <1>3

\* A request carries a record of its kind.
LEMMA Carried ==
    ASSUME Mail!TypeOK, NEW k \in Mail!Kinds, Mail!Busy(k)
    PROVE  mailCalls[k] \in Mail!Calls(k)
BY DEF Mail!TypeOK, Mail!Busy

\* The requests after one is sent or has ended.
RequestsAre(k, v) ==
    /\ DOMAIN mailCalls' = Mail!Kinds
    /\ \A j \in Mail!Kinds : mailCalls'[j] = IF j = k THEN v ELSE mailCalls[j]

\* What a request changes: its own kind.
LEMMA Requesting ==
    ASSUME Mail!TypeOK, NEW k \in Mail!Kinds, NEW v, mailCalls' = [mailCalls EXCEPT ![k] = v]
    PROVE  RequestsAre(k, v)
BY DEF Mail!TypeOK, RequestsAre

\* What the invariant says of the requests.
RequestsAreApart ==
    /\ DOMAIN mailCalls = Mail!Kinds
    /\ \A k \in Mail!Kinds : mailCalls[k] \in Mail!Calls(k) \cup {Mail!Idle}
    /\ Mail!Busy("send") => /\ mailCalls["send"].to = mailCalls["send"].case
                            /\ Mail!OfCase(mailCalls["send"].text, mailCalls["send"].case)
    /\ Mail!Busy("report") => mailCalls["report"].fields = mailCalls["report"].case

\* A request that has ended.
LEMMA EndingKeeps ==
    ASSUME MailInv, NEW k \in Mail!Kinds, Mail!Done(k)
    PROVE  RequestsAreApart'
<1>1. RequestsAre(k, Mail!Idle)
  BY Requesting DEF Mail!Done, MailInv
<1>2. {"send", "report"} \subseteq Mail!Kinds
  BY DEF Mail!Kinds
<1>3. QED
  BY <1>1, <1>2 DEF MailInv, Mail!TypeOK, Mail!CasesStayApart, RequestsAre, RequestsAreApart,
     Mail!Busy, Mail!OfCase

\* A request that carries what its dialog holds.
LEMMA SendingKeeps ==
    ASSUME Mail!CasesAssumption, MailInv,
           \/ Mail!SummarizeBody \/ Mail!PreviewEmail \/ Mail!OpenCasePdf \/ Mail!SendEmail \/ Mail!GenerateReport
    PROVE  RequestsAreApart'
<1>1. Mail!Kinds = {"summarize", "preview", "pdf", "send", "report"}
  BY DEF Mail!Kinds
<1>2. mail # None => mail \in Cases /\ form.to = mail /\ form.text \in Mail!Piece /\ Mail!OfCase(form.text, mail)
  BY DEF MailInv, Mail!TypeOK, Mail!Pieces, Mail!Targets, FormsAreOfTheirCase, Mail!CasesStayApart
<1>3. ASSUME NEW k \in Mail!Kinds, NEW v \in Mail!Calls(k), mailCalls' = [mailCalls EXCEPT ![k] = v],
             k = "send" => v.to = v.case /\ Mail!OfCase(v.text, v.case),
             k = "report" => v.fields = v.case
      PROVE  RequestsAreApart'
  <2>1. RequestsAre(k, v)
    BY <1>3, Requesting DEF MailInv
  <2>2. QED
    BY <1>1, <1>3, <2>1 DEF MailInv, Mail!TypeOK, Mail!CasesStayApart, RequestsAre,
       RequestsAreApart, Mail!Busy, Mail!OfCase
<1>4. CASE Mail!SummarizeBody
  <2>1. PICK v : v = [text |-> form.text]
    OBVIOUS
  <2>2. v \in Mail!Calls("summarize") /\ mailCalls' = [mailCalls EXCEPT !["summarize"] = v]
    BY <1>2, <1>4, <2>1 DEF Mail!SummarizeBody, Mail!Ask, Mail!Calls
  <2>3. QED
    BY <1>1, <1>3, <2>2
<1>5. CASE Mail!PreviewEmail
  <2>1. PICK v : v = [text |-> form.text]
    OBVIOUS
  <2>2. v \in Mail!Calls("preview") /\ mailCalls' = [mailCalls EXCEPT !["preview"] = v]
    BY <1>2, <1>5, <2>1 DEF Mail!PreviewEmail, Mail!Ask, Mail!Calls
  <2>3. QED
    BY <1>1, <1>3, <2>2
<1>6. CASE Mail!OpenCasePdf
  <2>1. PICK v : v = [case |-> mail]
    OBVIOUS
  <2>2. v \in Mail!Calls("pdf") /\ mailCalls' = [mailCalls EXCEPT !["pdf"] = v]
    BY <1>2, <1>6, <2>1 DEF Mail!OpenCasePdf, Mail!Ask, Mail!Calls
  <2>3. QED
    BY <1>1, <1>3, <2>2
<1>7. CASE Mail!SendEmail
  <2>1. PICK v : v = [case |-> mail, to |-> form.to, text |-> form.text]
    OBVIOUS
  <2>2. v \in Mail!Calls("send") /\ mailCalls' = [mailCalls EXCEPT !["send"] = v]
    BY <1>2, <1>7, <2>1 DEF Mail!SendEmail, Mail!Ask, Mail!Calls, Mail!Targets
  <2>3. v.to = v.case /\ Mail!OfCase(v.text, v.case)
    BY <1>2, <1>7, <2>1 DEF Mail!SendEmail
  <2>4. QED
    BY <1>1, <1>3, <2>2, <2>3
<1>8. CASE Mail!GenerateReport
  <2>1. PICK v : v = [case |-> report, fields |-> fields]
    OBVIOUS
  <2>2. report \in Cases /\ fields = report
    BY <1>8 DEF Mail!GenerateReport, MailInv, Mail!TypeOK, Mail!Targets, FormsAreOfTheirCase
  <2>3. v \in Mail!Calls("report") /\ mailCalls' = [mailCalls EXCEPT !["report"] = v] /\ v.fields = v.case
    BY <1>8, <2>1, <2>2 DEF Mail!GenerateReport, Mail!Ask, Mail!Calls
  <2>4. QED
    BY <1>1, <1>3, <2>3
<1>9. QED
  BY <1>4, <1>5, <1>6, <1>7, <1>8

-----------------------------------------------------------------------------
(* The dialogs *)

\* What the invariant says of the mail dialog.
MailIsApart ==
    /\ mail \in Mail!Targets /\ form \in [to : Mail!Targets, text : Mail!Pieces]
    /\ suggestion \in Mail!Pieces /\ preview \in Mail!Pieces /\ pdf \in Mail!Pieces
    /\ NothingOwnLeft
    /\ mail # None =>
          /\ form.to = mail /\ form.text \in Mail!Piece
          /\ Mail!OfCase(form.text, mail) /\ Mail!OfCase(suggestion, mail)
          /\ Mail!OfCase(preview, mail) /\ Mail!OfCase(pdf, mail)

ReportIsApart ==
    /\ report \in Mail!Targets /\ fields \in Mail!Targets
    /\ report # None /\ fields # None => fields = report

\* The invariant in these three parts.
LEMMA Parts == MailInv <=> MailIsApart /\ ReportIsApart /\ RequestsAreApart
BY DEF MailInv, Mail!TypeOK, FormsAreOfTheirCase, Mail!CasesStayApart, MailIsApart,
   ReportIsApart, RequestsAreApart

\* A dialog opens: its own recipients and body, and of the rest what it can keep.
LEMMA OpeningKeeps ==
    ASSUME Mail!CasesAssumption, MailIsApart, NEW c \in Cases,
           mail' = c, form' = [to |-> c, text |-> Mail!Own(c)],
           IF mail \in {c, None} THEN UNCHANGED <<suggestion, preview, pdf>> ELSE Mail!LeaveBehind
    PROVE  MailIsApart'
<1>1. c # None /\ c \in Mail!Targets
  BY DEF Mail!CasesAssumption, Mail!Targets
<1>2. Mail!Own(c) \in Mail!Piece /\ Mail!Own(c) \in Mail!Pieces /\ Mail!OfCase(Mail!Own(c), c)
  BY DEF Mail!Own, Mail!Piece, Mail!Pieces, Mail!OfCase
<1>3. /\ form' \in [to : Mail!Targets, text : Mail!Pieces]
      /\ form'.to = c /\ form'.text = Mail!Own(c)
  BY <1>1, <1>2
<1>4. CASE mail \in {c, None}
  <2>1. UNCHANGED <<suggestion, preview, pdf>>
    BY <1>4
  <2>2. Mail!OfCase(suggestion, c) /\ Mail!OfCase(preview, c) /\ Mail!OfCase(pdf, c)
    BY <1>1, <1>4 DEF MailIsApart, NothingOwnLeft, Mail!OfCase
  <2>3. QED
    BY <1>1, <1>2, <1>3, <2>1, <2>2 DEF MailIsApart, NothingOwnLeft, Mail!OfCase
<1>5. CASE mail \notin {c, None}
  <2>1. suggestion' = Mail!Strayed(suggestion) /\ preview' = Mail!Strayed(preview) /\ pdf' = Mail!Strayed(pdf)
    BY <1>5 DEF Mail!LeaveBehind
  <2>2. /\ suggestion' \in Mail!Pieces /\ preview' \in Mail!Pieces /\ pdf' \in Mail!Pieces
        /\ Mail!OfCase(suggestion', c) /\ Mail!OfCase(preview', c) /\ Mail!OfCase(pdf', c)
    BY <2>1, Straying DEF MailIsApart
  <2>3. QED
    BY <1>1, <1>2, <1>3, <2>2 DEF MailIsApart, NothingOwnLeft, Mail!OfCase
<1>6. QED
  BY <1>4, <1>5

\* Closing and sending leave nothing of their own.
LEMMA ClosingKeeps ==
    ASSUME Mail!CasesAssumption, MailIsApart, Mail!CloseMail \/ Mail!EmailSent
    PROVE  MailIsApart'
<1>1. CASE Mail!CloseMail
  BY <1>1 DEF Mail!CloseMail, MailIsApart, NothingOwnLeft, Mail!Targets, Mail!Pieces
<1>2. CASE Mail!EmailSent
  <2>1. /\ mail' = None /\ form' = form
        /\ suggestion' = Mail!Strayed(suggestion) /\ preview' = Mail!Strayed(preview) /\ pdf' = Mail!Strayed(pdf)
    BY <1>2 DEF Mail!EmailSent, Mail!LeaveBehind
  <2>2. \A p \in {suggestion', preview', pdf'} : p \in Mail!Pieces /\ (p = None \/ p.how = "stray")
    BY <2>1, Straying DEF MailIsApart
  <2>3. QED
    BY <2>1, <2>2 DEF MailIsApart, NothingOwnLeft, Mail!Targets
<1>3. QED
  BY <1>1, <1>2

\* Answers, and what the user does with them.
LEMMA AnswersKeep ==
    ASSUME Mail!CasesAssumption, MailInv,
           \/ Mail!Summarized \/ Mail!Previewed \/ Mail!PdfReady
           \/ Mail!AcceptSuggestion \/ Mail!RejectSuggestion \/ Mail!ClosePreview
    PROVE  MailIsApart'
<1> USE DEF MailIsApart, NothingOwnLeft
<1>1. MailIsApart
  BY Parts
<1>2. {"summarize", "preview", "pdf"} \subseteq Mail!Kinds
  BY DEF Mail!Kinds
<1>3. CASE Mail!Summarized
  <2>1. PICK p \in Mail!Piece : suggestion' = Mail!Arrived(p)
    BY <1>2, <1>3, Carried DEF Mail!Summarized, Mail!Calls, MailInv
  <2>2. QED
    BY <1>1, <1>3, <2>1, Arriving DEF Mail!Summarized
<1>4. CASE Mail!Previewed
  <2>1. PICK p \in Mail!Piece : preview' = Mail!Arrived(p)
    BY <1>2, <1>4, Carried DEF Mail!Previewed, Mail!Calls, MailInv
  <2>2. QED
    BY <1>1, <1>4, <2>1, Arriving DEF Mail!Previewed
<1>5. CASE Mail!PdfReady
  <2>1. PICK p \in Mail!Piece : pdf' = Mail!Arrived(p)
    BY <1>2, <1>5, Carried DEF Mail!PdfReady, Mail!Calls, MailInv, Mail!Own, Mail!Piece
  <2>2. QED
    BY <1>1, <1>5, <2>1, Arriving DEF Mail!PdfReady
<1>6. CASE Mail!AcceptSuggestion
  <2>1. /\ mail # None /\ suggestion \in Mail!Piece /\ suggestion' = None
        /\ form' = [form EXCEPT !.text = suggestion]
        /\ UNCHANGED <<mail, preview, pdf>>
    BY <1>1, <1>6 DEF Mail!AcceptSuggestion, Mail!Pieces
  <2>2. form' \in [to : Mail!Targets, text : Mail!Pieces] /\ form'.to = form.to /\ form'.text = suggestion
    BY <1>1, <2>1 DEF Mail!Pieces
  <2>3. None \in Mail!Pieces /\ Mail!OfCase(None, mail)
    BY DEF Mail!Pieces, Mail!OfCase
  <2>4. QED
    BY <1>1, <2>1, <2>2, <2>3 DEF Mail!OfCase
<1>7. CASE Mail!RejectSuggestion \/ Mail!ClosePreview
  BY <1>1, <1>7 DEF Mail!RejectSuggestion, Mail!ClosePreview, Mail!Pieces, Mail!OfCase
<1>8. QED
  BY <1>3, <1>4, <1>5, <1>6, <1>7

-----------------------------------------------------------------------------
(* The invariant *)

\* Nothing is open: the invariant of the mail dialog holds.
LEMMA MailStart == Mail!Init => MailInv
<1> SUFFICES ASSUME Mail!Init PROVE MailInv
  OBVIOUS
<1>1. MailIsApart /\ ReportIsApart
  BY DEF Mail!Init, MailIsApart, NothingOwnLeft, ReportIsApart, Mail!Targets, Mail!Pieces
<1>2. RequestsAreApart
  BY DEF Mail!Init, RequestsAreApart, Mail!Busy, Mail!Kinds
<1>3. QED
  BY <1>1, <1>2, Parts

\* One part at a time: a step that sends leaves the dialogs, a step of the mail
\* dialog the report dialog, and the other way round.
LEMMA MailSteps == Mail!CasesAssumption => (MailInv /\ [Mail!Next]_Mail!mailVars => MailInv')
<1> SUFFICES ASSUME Mail!CasesAssumption, MailInv, [Mail!Next]_Mail!mailVars PROVE MailInv'
  OBVIOUS
<1>1. MailIsApart /\ ReportIsApart /\ RequestsAreApart
  BY Parts
<1>2. MailInv' <=> MailIsApart' /\ ReportIsApart' /\ RequestsAreApart'
  BY Parts, PTL
<1>3. ASSUME UNCHANGED Mail!dialogVars PROVE MailIsApart'
  BY <1>1, <1>3 DEF MailIsApart, NothingOwnLeft, Mail!OfCase
<1>4. ASSUME UNCHANGED Mail!reportVars PROVE ReportIsApart'
  BY <1>1, <1>4 DEF ReportIsApart
<1>5. ASSUME UNCHANGED mailCalls PROVE RequestsAreApart'
  BY <1>1, <1>5 DEF RequestsAreApart, Mail!Busy, Mail!OfCase
<1>6. CASE UNCHANGED Mail!mailVars
  BY <1>2, <1>3, <1>4, <1>5, <1>6 DEF Mail!mailVars
<1>7. ASSUME NEW c \in Cases, Mail!OpenMail(c)
      PROVE  MailInv'
  BY <1>1, <1>2, <1>4, <1>5, <1>7, OpeningKeeps DEF Mail!OpenMail
<1>8. ASSUME NEW c \in Cases, Mail!OpenReport(c)
      PROVE  MailInv'
  <2>1. ReportIsApart'
    BY <1>1, <1>8 DEF Mail!OpenReport, ReportIsApart, Mail!Targets
  <2>2. QED
    BY <1>2, <1>3, <1>5, <1>8, <2>1 DEF Mail!OpenReport
<1>9. CASE Mail!CloseReport \/ Mail!SelectReportTemplate
  <2>1. ReportIsApart'
    BY <1>1, <1>9 DEF Mail!CloseReport, Mail!SelectReportTemplate, ReportIsApart, Mail!Targets
  <2>2. QED
    BY <1>2, <1>3, <1>5, <1>9, <2>1 DEF Mail!CloseReport, Mail!SelectReportTemplate
<1>10. CASE Mail!SummarizeBody \/ Mail!PreviewEmail \/ Mail!OpenCasePdf \/ Mail!SendEmail \/ Mail!GenerateReport
  BY <1>2, <1>3, <1>4, <1>10, SendingKeeps
  DEF Mail!SummarizeBody, Mail!PreviewEmail, Mail!OpenCasePdf, Mail!SendEmail, Mail!GenerateReport
<1>11. CASE Mail!CloseMail
  BY <1>1, <1>2, <1>4, <1>5, <1>11, ClosingKeeps DEF Mail!CloseMail
<1>12. CASE Mail!EmailSent
  <2>1. "send" \in Mail!Kinds /\ Mail!Done("send")
    BY <1>12 DEF Mail!EmailSent, Mail!Kinds
  <2>2. QED
    BY <1>1, <1>2, <1>4, <1>12, <2>1, ClosingKeeps, EndingKeeps DEF Mail!EmailSent
<1>13. CASE Mail!AcceptSuggestion \/ Mail!RejectSuggestion \/ Mail!ClosePreview
  BY <1>2, <1>4, <1>5, <1>13, AnswersKeep DEF Mail!AcceptSuggestion, Mail!RejectSuggestion,
     Mail!ClosePreview
<1>14. CASE Mail!Summarized \/ Mail!Previewed \/ Mail!PdfReady
  <2>1. \E k \in Mail!Kinds : Mail!Done(k)
    BY <1>14 DEF Mail!Summarized, Mail!Previewed, Mail!PdfReady, Mail!Kinds
  <2>2. QED
    BY <1>2, <1>4, <1>14, <2>1, AnswersKeep, EndingKeeps DEF Mail!Summarized, Mail!Previewed,
       Mail!PdfReady
<1>15. CASE Mail!ReportRendered
  <2>1. "report" \in Mail!Kinds /\ Mail!Done("report") /\ Mail!Busy("report")
    BY <1>15 DEF Mail!ReportRendered, Mail!Kinds
  <2>2. PICK c \in Cases : c = mailCalls["report"].case
    BY <2>1, Carried DEF MailInv, Mail!Calls
  <2>3. MailIsApart'
    BY <1>1, <1>15, <2>2, OpeningKeeps DEF Mail!ReportRendered
  <2>4. ReportIsApart'
    BY <1>1, <1>15 DEF Mail!ReportRendered, ReportIsApart, Mail!Targets
  <2>5. QED
    BY <1>2, <2>1, <2>3, <2>4, EndingKeeps
<1>16. ASSUME NEW k \in Mail!Kinds, Mail!Fail(k)
       PROVE  MailInv'
  BY <1>2, <1>3, <1>4, <1>16, EndingKeeps DEF Mail!Fail
<1>17. QED
  BY <1>6, <1>7, <1>8, <1>9, <1>10, <1>11, <1>12, <1>13, <1>14, <1>15, <1>16 DEF Mail!Next

-----------------------------------------------------------------------------
(* The results *)

\* Every reachable state is of its type; a request of a kind carries what the
\* backend needs for it.
THEOREM MailTypes == ASSUME Mail!CasesAssumption PROVE Mail!Spec => []Mail!TypeOK
<1>1. MailInv /\ [Mail!Next]_Mail!mailVars => MailInv'
  BY MailSteps
<1>2. MailInv => Mail!TypeOK
  BY DEF MailInv
<1>3. QED
  BY <1>1, <1>2, MailStart, PTL DEF Mail!Spec

\* The dialogs keep the cases apart: what the mail dialog shows, what a mail in
\* flight takes and what a report is rendered from are of one case, whatever the
\* dialogs have shown since, but for what a late answer left there.
THEOREM DialogsKeepCasesApart == ASSUME Mail!CasesAssumption PROVE Mail!Spec => []Mail!CasesStayApart
<1>1. MailInv /\ [Mail!Next]_Mail!mailVars => MailInv'
  BY MailSteps
<1>2. MailInv => Mail!CasesStayApart
  BY DEF MailInv
<1>3. QED
  BY <1>1, <1>2, MailStart, PTL DEF Mail!Spec

-----------------------------------------------------------------------------
(* The recipients (RecipientInput) *)

\* One chip more.
LEMMA Appending ==
    ASSUME NEW s \in Seq(Chips!Addresses), NEW a \in Chips!Addresses
    PROVE  /\ Append(s, a) \in Seq(Chips!Addresses) /\ Len(Append(s, a)) = Len(s) + 1
           /\ Chips!PeopleOf(Append(s, a)) = Chips!PeopleOf(s) \cup {a.person}
<1>1. PICK t : t = Append(s, a)
  OBVIOUS
<1>2. PICK n \in Nat : n = Len(s) /\ DOMAIN s = 1..n
  OBVIOUS
<1>3. /\ t \in Seq(Chips!Addresses) /\ Len(t) = n + 1 /\ DOMAIN t = 1..(n + 1)
      /\ t[n + 1] = a /\ \A k \in 1..n : t[k] = s[k]
  BY <1>1, <1>2
<1>4. Chips!PeopleOf(t) = Chips!PeopleOf(s) \cup {a.person}
  <2>1. ASSUME NEW p \in Chips!PeopleOf(t)
        PROVE  p \in Chips!PeopleOf(s) \cup {a.person}
    <3>1. PICK k \in 1..(n + 1) : p = t[k].person
      BY <1>3 DEF Chips!PeopleOf
    <3>2. CASE k = n + 1
      BY <1>3, <3>1, <3>2
    <3>3. CASE k \in 1..n
      BY <1>2, <1>3, <3>1, <3>3 DEF Chips!PeopleOf
    <3>4. QED
      BY <3>2, <3>3
  <2>2. ASSUME NEW k \in 1..n
        PROVE  s[k].person \in Chips!PeopleOf(t)
    <3>1. k \in DOMAIN t /\ t[k] = s[k]
      BY <1>2, <1>3
    <3>2. QED
      BY <3>1 DEF Chips!PeopleOf
  <2>3. a.person \in Chips!PeopleOf(t)
    <3>1. n + 1 \in DOMAIN t
      BY <1>3
    <3>2. QED
      BY <1>3, <3>1 DEF Chips!PeopleOf
  <2>4. Chips!PeopleOf(s) \subseteq Chips!PeopleOf(t)
    BY <1>2, <2>2 DEF Chips!PeopleOf
  <2>5. QED
    BY <2>1, <2>3, <2>4
<1>5. QED
  BY <1>1, <1>2, <1>3, <1>4

\* The chips without those of a person: the others are still there.
LEMMA Removing ==
    ASSUME NEW s \in Seq(Chips!Addresses), NEW person
    PROVE  /\ Chips!Without(s, person) \in Seq(Chips!Addresses) /\ Len(Chips!Without(s, person)) <= Len(s)
           /\ Chips!PeopleOf(Chips!Without(s, person)) = Chips!PeopleOf(s) \ {person}
<1>1. PICK n \in Nat : n = Len(s)
  OBVIOUS
<1> DEFINE D == Seq(Chips!Addresses)
           step == [e \in (1..n) \X D |->
                       IF s[e[1]].person = person THEN e[2] ELSE Append(e[2], s[e[1]])]
           Kept(g) == g = [k \in 0..n |-> IF k = 0 THEN << >>
                                          ELSE IF s[k].person = person THEN g[k - 1]
                                          ELSE Append(g[k - 1], s[k])]
<1>2. \A k \in 1..n : s[k] \in Chips!Addresses
  BY <1>1
<1>3. step \in [(1..n) \X D -> D] /\ <<>> \in D
  BY <1>2
<1>4. PICK g : Steps(g, n, D, << >>, step)
  <2> HIDE DEF D, step
  <2>1. QED
    BY <1>3, StepsExist
<1>5. Kept(g)
  <2>1. g \in [0..n -> D] /\ g[0] = <<>>
    BY <1>4 DEF Steps
  <2>2. ASSUME NEW k \in 1..n
        PROVE  g[k] = IF s[k].person = person THEN g[k - 1] ELSE Append(g[k - 1], s[k])
    <3>1. g[k] = step[<<k, g[k - 1]>>]
      BY <1>4 DEF Steps
    <3>2. k - 1 \in 0..n /\ g[k - 1] \in D
      BY <2>1
    <3>3. <<k, g[k - 1]>> \in (1..n) \X D
      BY <3>2
    <3>4. QED
      BY <3>1, <3>3
  <2>3. \A k \in 0..n : g[k] = IF k = 0 THEN << >> ELSE IF s[k].person = person THEN g[k - 1]
                               ELSE Append(g[k - 1], s[k])
    <3> HIDE DEF D
    <3>1. TAKE k \in 0..n
    <3>2. CASE k = 0
      BY <2>1, <3>2
    <3>3. CASE k \in 1..n
      BY <2>2, <3>3
    <3>4. QED
      BY <3>2, <3>3
  <2>4. g = [k \in 0..n |-> g[k]]
    BY <2>1
  <2>5. QED
    BY <2>3, <2>4
<1>6. PICK left : left = CHOOSE h : Kept(h)
  OBVIOUS
<1>7. Kept(left)
  BY <1>5, <1>6
<1>8. Chips!Without(s, person) = left[n]
  BY <1>1, <1>6 DEF Chips!Without
<1> DEFINE T == {m \in Nat : m <= n => /\ left[m] \in Seq(Chips!Addresses) /\ Len(left[m]) <= m
                                       /\ Chips!PeopleOf(left[m]) = {s[i].person : i \in 1..m} \ {person}}
<1>9. 0 \in T
  <2>1. left[0] = <<>>
    BY <1>7
  <2>2. Chips!PeopleOf(left[0]) = {} /\ {s[i].person : i \in 1..0} = {}
    BY <2>1 DEF Chips!PeopleOf
  <2>3. Chips!PeopleOf(left[0]) = {s[i].person : i \in 1..0} \ {person}
    BY <2>2
  <2>4. left[0] \in Seq(Chips!Addresses) /\ Len(left[0]) <= 0
    BY <2>1
  <2>5. QED
    BY <2>3, <2>4
<1>10. ASSUME NEW m \in T
       PROVE  m + 1 \in T
  <2>1. SUFFICES ASSUME m + 1 <= n
                 PROVE  /\ left[m + 1] \in Seq(Chips!Addresses) /\ Len(left[m + 1]) <= m + 1
                        /\ Chips!PeopleOf(left[m + 1]) = {s[i].person : i \in 1..(m + 1)} \ {person}
    OBVIOUS
  <2>2. /\ left[m] \in Seq(Chips!Addresses) /\ Len(left[m]) <= m
        /\ Chips!PeopleOf(left[m]) = {s[i].person : i \in 1..m} \ {person}
    BY <2>1
  <2>3. left[m + 1] = IF s[m + 1].person = person THEN left[m] ELSE Append(left[m], s[m + 1])
    <3>1. m + 1 \in 0..n /\ m + 1 # 0 /\ (m + 1) - 1 = m
      BY <2>1
    <3>2. left[m + 1] = IF s[m + 1].person = person THEN left[(m + 1) - 1]
                        ELSE Append(left[(m + 1) - 1], s[m + 1])
      BY <1>7, <3>1
    <3>3. QED
      BY <3>1, <3>2
  <2>4. {s[i].person : i \in 1..(m + 1)} = {s[i].person : i \in 1..m} \cup {s[m + 1].person}
    OBVIOUS
  <2>5. s[m + 1] \in Chips!Addresses
    BY <1>2, <2>1
  <2>6. CASE s[m + 1].person = person
    BY <2>2, <2>3, <2>4, <2>6
  <2>7. CASE s[m + 1].person # person
    <3>1. left[m + 1] = Append(left[m], s[m + 1])
      BY <2>3, <2>7
    <3>2. left[m + 1] \in Seq(Chips!Addresses) /\ Len(left[m + 1]) = Len(left[m]) + 1
      BY <2>2, <2>5, <3>1
    <3>3. Chips!PeopleOf(left[m + 1]) = Chips!PeopleOf(left[m]) \cup {s[m + 1].person}
      BY <2>2, <2>5, <3>1, Appending
    <3>4. QED
      BY <2>2, <2>4, <2>7, <3>2, <3>3
  <2>8. QED
    BY <2>6, <2>7
<1>11. n \in T
  BY <1>9, <1>10, Induct
<1>12. {s[i].person : i \in 1..n} = Chips!PeopleOf(s)
  BY <1>1 DEF Chips!PeopleOf
<1>13. QED
  BY <1>1, <1>8, <1>11, <1>12

\* One chip more, unless the person has one.
LEMMA Adding ==
    ASSUME NEW s \in Seq(Chips!Addresses), NEW a \in Chips!Addresses
    PROVE  /\ Chips!AddChip(s, a) \in Seq(Chips!Addresses)
           /\ Chips!PeopleOf(Chips!AddChip(s, a)) = Chips!PeopleOf(s) \cup {a.person}
<1>1. CASE a.person \in Chips!PeopleOf(s)
  BY <1>1 DEF Chips!AddChip
<1>2. CASE a.person \notin Chips!PeopleOf(s)
  BY <1>2, Appending DEF Chips!AddChip
<1>3. QED
  BY <1>1, <1>2

\* A paste adds everybody pasted.
LEMMA ChipsMerging ==
    ASSUME NEW s \in Seq(Chips!Addresses), NEW emails \in Seq(Chips!Addresses)
    PROVE  /\ Chips!Merged(s, emails) \in Seq(Chips!Addresses)
           /\ Chips!PeopleOf(Chips!Merged(s, emails)) = Chips!PeopleOf(s) \cup Chips!PeopleOf(emails)
<1>1. PICK n \in Nat : n = Len(emails)
  OBVIOUS
<1> DEFINE D == Seq(Chips!Addresses)
           step == [e \in (1..n) \X D |-> Chips!AddChip(e[2], emails[e[1]])]
           Filled(g) == g = [k \in 0..n |-> IF k = 0 THEN s ELSE Chips!AddChip(g[k - 1], emails[k])]
<1>2. \A k \in 1..n : emails[k] \in Chips!Addresses
  BY <1>1
<1>3. step \in [(1..n) \X D -> D] /\ s \in D
  BY <1>2, Adding
<1>4. PICK g : Steps(g, n, D, s, step)
  <2> HIDE DEF D, step
  <2>1. QED
    BY <1>3, StepsExist
<1>5. Filled(g)
  <2>1. g \in [0..n -> D] /\ g[0] = s
    BY <1>4 DEF Steps
  <2>2. ASSUME NEW k \in 1..n
        PROVE  g[k] = Chips!AddChip(g[k - 1], emails[k])
    <3>1. g[k] = step[<<k, g[k - 1]>>]
      BY <1>4 DEF Steps
    <3>2. k - 1 \in 0..n /\ g[k - 1] \in D
      BY <2>1
    <3>3. <<k, g[k - 1]>> \in (1..n) \X D
      BY <3>2
    <3>4. QED
      BY <3>1, <3>3
  <2>3. \A k \in 0..n : g[k] = IF k = 0 THEN s ELSE Chips!AddChip(g[k - 1], emails[k])
    <3> HIDE DEF D
    <3>1. TAKE k \in 0..n
    <3>2. CASE k = 0
      BY <2>1, <3>2
    <3>3. CASE k \in 1..n
      BY <2>2, <3>3
    <3>4. QED
      BY <3>2, <3>3
  <2>4. g = [k \in 0..n |-> g[k]]
    BY <2>1
  <2>5. QED
    BY <2>3, <2>4
<1>6. PICK merged : merged = CHOOSE h : Filled(h)
  OBVIOUS
<1>7. Filled(merged)
  BY <1>5, <1>6
<1>8. Chips!Merged(s, emails) = merged[n]
  BY <1>1, <1>6 DEF Chips!Merged
<1> DEFINE Has(m) == /\ merged[m] \in Seq(Chips!Addresses)
                     /\ Chips!PeopleOf(merged[m]) = Chips!PeopleOf(s) \cup {emails[i].person : i \in 1..m}
           T == {m \in Nat : m <= n => Has(m)}
<1>9. 0 \in T
  <2>1. merged[0] = s
    BY <1>7
  <2>2. {emails[i].person : i \in 1..0} = {}
    <3>1. \A i \in 1..0 : FALSE
      OBVIOUS
    <3>2. QED
      BY <3>1
  <2>3. Chips!PeopleOf(merged[0]) = Chips!PeopleOf(s) \cup {emails[i].person : i \in 1..0}
    BY <2>1, <2>2
  <2>4. QED
    BY <2>1, <2>3
<1>10. ASSUME NEW m \in T
       PROVE  m + 1 \in T
  <2>1. SUFFICES ASSUME m + 1 <= n
                 PROVE  Has(m + 1)
    <3> HIDE DEF Has
    <3>1. QED
      OBVIOUS
  <2>2. Has(m)
    BY <2>1
  <2>3. merged[m + 1] = Chips!AddChip(merged[m], emails[m + 1])
    <3>1. m + 1 \in 0..n /\ m + 1 # 0 /\ (m + 1) - 1 = m
      BY <2>1
    <3>2. merged[m + 1] = Chips!AddChip(merged[(m + 1) - 1], emails[m + 1])
      BY <1>7, <3>1
    <3>3. QED
      BY <3>1, <3>2
  <2>4. {emails[i].person : i \in 1..(m + 1)} = {emails[i].person : i \in 1..m} \cup {emails[m + 1].person}
    <3>1. 1..(m + 1) = 1..m \cup {m + 1}
      OBVIOUS
    <3>2. QED
      BY <3>1
  <2>5. emails[m + 1] \in Chips!Addresses
    BY <1>2, <2>1
  <2>6. /\ merged[m + 1] \in Seq(Chips!Addresses)
        /\ Chips!PeopleOf(merged[m + 1]) = Chips!PeopleOf(merged[m]) \cup {emails[m + 1].person}
    BY <2>2, <2>3, <2>5, Adding
  <2>7. QED
    BY <2>2, <2>4, <2>6
<1>11. n \in T
  BY <1>9, <1>10, Induct
<1>12. {emails[i].person : i \in 1..n} = Chips!PeopleOf(emails)
  BY <1>1 DEF Chips!PeopleOf
<1>13. QED
  BY <1>1, <1>8, <1>11, <1>12

\* A set of naturals has a least element.
LEMMA LeastNatural ==
    ASSUME NEW I \in SUBSET Nat, I # {}
    PROVE  Chips!Min(I) \in I
<1>1. PICK x \in I : \A y \in I : ~ (<<y, x>> \in Earlier)
  BY EarlierWellFounded, WFMin
<1>2. ASSUME NEW y \in I
      PROVE  x <= y
  <2>1. SUFFICES ASSUME y < x PROVE FALSE
    OBVIOUS
  <2>2. <<y, x>> \in Earlier
    BY <2>1 DEF Earlier
  <2>3. QED
    BY <1>1, <2>2
<1>3. QED
  BY <1>2 DEF Chips!Min

\* A chip put before another one, or at the end.
LEMMA InsertingAt ==
    ASSUME NEW s \in Seq(Chips!Addresses), NEW a \in Chips!Addresses, NEW i \in 1..Len(s)
    PROVE  /\ Chips!InsertAt(s, i, a) \in Seq(Chips!Addresses)
           /\ Chips!PeopleOf(Chips!InsertAt(s, i, a)) = Chips!PeopleOf(s) \cup {a.person}
<1>1. PICK n \in Nat : n = Len(s) /\ DOMAIN s = 1..n /\ i \in 1..n /\ \A k \in 1..n : s[k] \in Chips!Addresses
  OBVIOUS
<1>2. PICK before : before = SubSeq(s, 1, i - 1)
  OBVIOUS
<1>3. PICK after : after = SubSeq(s, i, n)
  OBVIOUS
<1>4. before \in Seq(Chips!Addresses) /\ Len(before) = i - 1 /\ \A k \in 1..(i - 1) : before[k] = s[k]
  BY <1>1, <1>2
<1>5. after \in Seq(Chips!Addresses) /\ Len(after) = n - i + 1 /\ \A k \in 1..(n - i + 1) : after[k] = s[k + i - 1]
  BY <1>1, <1>3
<1>6. PICK front : front = before \o <<a>>
  OBVIOUS
<1>7. front = Append(before, a)
  BY <1>4, <1>6
<1>8. /\ front \in Seq(Chips!Addresses) /\ Len(front) = i
      /\ front[i] = a /\ \A k \in 1..(i - 1) : front[k] = s[k]
  BY <1>1, <1>4, <1>7
<1>9. PICK t : t = front \o after
  OBVIOUS
<1>10. t = Chips!InsertAt(s, i, a)
  BY <1>1, <1>2, <1>3, <1>6, <1>9 DEF Chips!InsertAt
<1>11. /\ t \in Seq(Chips!Addresses) /\ Len(t) = n + 1 /\ DOMAIN t = 1..(n + 1)
       /\ \A k \in 1..i : t[k] = front[k]
  <2>1. t \in Seq(Chips!Addresses) /\ Len(t) = Len(front) + Len(after) /\ DOMAIN t = 1..Len(t)
    BY <1>5, <1>8, <1>9
  <2>2. ASSUME NEW k \in 1..i
        PROVE  t[k] = front[k]
    <3>1. k \in 1..Len(front)
      BY <1>1, <1>8
    <3>2. QED
      BY <1>5, <1>8, <1>9, <3>1
  <2>3. QED
    BY <1>1, <1>5, <1>8, <2>1, <2>2
<1>12. \A k \in 1..(i - 1) : t[k] = s[k]
  BY <1>1, <1>8, <1>11
<1>13. t[i] = a
  BY <1>1, <1>8, <1>11
<1>14. ASSUME NEW k \in (i + 1)..(n + 1)
       PROVE  t[k] = s[k - 1]
  <2>1. k - i \in 1..(n - i + 1) /\ k > i /\ (k - i) + i - 1 = k - 1
    BY <1>1
  <2>2. t[k] = after[k - i]
    BY <1>1, <1>5, <1>8, <1>9, <2>1
  <2>3. QED
    BY <1>5, <2>1, <2>2
<1>15. Chips!PeopleOf(t) \subseteq Chips!PeopleOf(s) \cup {a.person}
  <2>1. SUFFICES ASSUME NEW k \in 1..(n + 1)
                 PROVE  t[k].person \in Chips!PeopleOf(s) \cup {a.person}
    BY <1>11 DEF Chips!PeopleOf
  <2>2. CASE k = i
    BY <1>13, <2>2
  <2>3. CASE k \in 1..(i - 1)
    BY <1>1, <1>12, <2>3 DEF Chips!PeopleOf
  <2>4. CASE k \in (i + 1)..(n + 1)
    <3>1. k - 1 \in DOMAIN s /\ t[k] = s[k - 1]
      BY <1>1, <1>14, <2>4
    <3>2. QED
      BY <3>1 DEF Chips!PeopleOf
  <2>5. QED
    BY <1>1, <2>2, <2>3, <2>4
<1>16. Chips!PeopleOf(s) \subseteq Chips!PeopleOf(t)
  <2>1. SUFFICES ASSUME NEW k \in 1..n
                 PROVE  s[k].person \in Chips!PeopleOf(t)
    BY <1>1 DEF Chips!PeopleOf
  <2>2. CASE k < i
    <3>1. k \in DOMAIN t /\ t[k] = s[k]
      BY <1>1, <1>11, <1>12, <2>2
    <3>2. QED
      BY <3>1 DEF Chips!PeopleOf
  <2>3. CASE k >= i
    <3>1. k + 1 \in (i + 1)..(n + 1) /\ k + 1 \in DOMAIN t /\ (k + 1) - 1 = k
      BY <1>1, <1>11, <2>3
    <3>2. t[k + 1] = s[k]
      BY <1>14, <3>1
    <3>3. QED
      BY <3>1, <3>2 DEF Chips!PeopleOf
  <2>4. QED
    BY <1>1, <2>2, <2>3
<1>17. a.person \in Chips!PeopleOf(t)
  <2>1. i \in DOMAIN t
    BY <1>1, <1>11
  <2>2. QED
    BY <1>13, <2>1 DEF Chips!PeopleOf
<1>18. QED
  BY <1>10, <1>11, <1>15, <1>16, <1>17

\* The chip dragged is in the field after the drop, with everybody who was there.
LEMMA Inserting ==
    ASSUME NEW s \in Seq(Chips!Addresses), NEW person, drag.chip \in Chips!Addresses
    PROVE  /\ Chips!Inserted(s, person) \in Seq(Chips!Addresses)
           /\ Chips!PeopleOf(Chips!Inserted(s, person)) = Chips!PeopleOf(s) \cup {drag.chip.person}
<1>1. PICK rest : rest = Chips!Without(s, drag.chip.person)
  OBVIOUS
<1>2. rest \in Seq(Chips!Addresses) /\ Chips!PeopleOf(rest) = Chips!PeopleOf(s) \ {drag.chip.person}
  BY <1>1, Removing
<1>3. PICK at : at = IF person = None THEN 0 ELSE Chips!IndexOf(rest, person)
  OBVIOUS
<1>4. at = 0 \/ at \in 1..Len(rest)
  <2>1. PICK I : I = {i \in 1..Len(rest) : rest[i].person = person}
    OBVIOUS
  <2>2. Chips!IndexOf(rest, person) = IF I # {} THEN Chips!Min(I) ELSE 0
    BY <2>1 DEF Chips!IndexOf, Chips!SelectInSeq
  <2>3. I \subseteq Nat /\ I \subseteq 1..Len(rest)
    BY <1>2, <2>1
  <2>4. QED
    BY <1>3, <2>2, <2>3, LeastNatural
<1>5. Chips!Inserted(s, person) = IF at = 0 THEN Append(rest, drag.chip) ELSE Chips!InsertAt(rest, at, drag.chip)
  BY <1>1, <1>3 DEF Chips!Inserted
<1>6. /\ Chips!Inserted(s, person) \in Seq(Chips!Addresses)
      /\ Chips!PeopleOf(Chips!Inserted(s, person)) = Chips!PeopleOf(rest) \cup {drag.chip.person}
  <2>1. CASE at = 0
    BY <1>2, <1>5, <2>1, Appending
  <2>2. CASE at # 0
    BY <1>2, <1>4, <1>5, <2>2, InsertingAt
  <2>3. QED
    BY <2>1, <2>2
<1>7. QED
  BY <1>2, <1>6

\* The values of a field are the sequences that fit.
LEMMA ValuesFit ==
    ASSUME Chips!ChipsAssumption
    PROVE  \A s : s \in Chips!Values <=> s \in Seq(Chips!Addresses) /\ Len(s) <= MaxChips
<1>1. ASSUME NEW s \in Chips!Values
      PROVE  s \in Seq(Chips!Addresses) /\ Len(s) <= MaxChips
  <2>1. PICK n \in 0..MaxChips : s \in [1..n -> Chips!Addresses]
    BY DEF Chips!Values
  <2>2. QED
    BY <2>1 DEF Chips!ChipsAssumption
<1>2. ASSUME NEW s \in Seq(Chips!Addresses), Len(s) <= MaxChips
      PROVE  s \in Chips!Values
  <2>1. Len(s) \in 0..MaxChips /\ s \in [1..Len(s) -> Chips!Addresses]
    BY <1>2 DEF Chips!ChipsAssumption
  <2>2. QED
    BY <2>1 DEF Chips!Values
<1>3. QED
  BY <1>1, <1>2

-----------------------------------------------------------------------------

\* Before the drop, a drag has no effect yet; after it, the dragend takes the
\* chip out of its source only if the person is in the other field, or has been
\* dropped on itself.
DragsAreSafe ==
    drag # Chips!NoDrag =>
        /\ ~drag.dropped => ~drag.move /\ ~drag.reordered
        /\ drag.move /\ ~drag.reordered =>
              \/ drag.chip.person \notin wanted
              \/ \E f \in Chips!Fields \ {drag.source} : drag.chip.person \in Chips!PeopleOf(chips[f])

ChipsInv == Chips!TypeOK /\ Chips!RecipientsAreKept /\ DragsAreSafe

\* A recipient that is wanted is in one of the fields, spelt out.
LEMMA KeptMeans ==
    Chips!RecipientsAreKept <=> \A p \in wanted : \E f \in Chips!Fields : p \in Chips!PeopleOf(chips[f])
BY DEF Chips!RecipientsAreKept, Chips!Fields

\* The same, after a step.
LEMMA KeptMeansNext ==
    Chips!RecipientsAreKept' <=> \A p \in wanted' : \E f \in Chips!Fields : p \in Chips!PeopleOf(chips'[f])
BY DEF Chips!RecipientsAreKept, Chips!Fields, Chips!PeopleOf

\* The people of a list of addresses are people.
LEMMA PersonsOf ==
    ASSUME NEW s \in Seq(Chips!Addresses)
    PROVE  Chips!PeopleOf(s) \in SUBSET People
<1>1. PICK n \in Nat : n = Len(s) /\ DOMAIN s = 1..n /\ \A k \in 1..n : s[k] \in Chips!Addresses
  OBVIOUS
<1>2. \A k \in 1..n : s[k].person \in People
  BY <1>1 DEF Chips!Addresses
<1>3. QED
  BY <1>1, <1>2 DEF Chips!PeopleOf

\* The chips of a field are a sequence, and of people.
LEMMA FieldsAreLists ==
    ASSUME Chips!ChipsAssumption, ChipsInv, NEW f \in Chips!Fields
    PROVE  /\ chips[f] \in Seq(Chips!Addresses) /\ Len(chips[f]) <= MaxChips
           /\ Chips!PeopleOf(chips[f]) \subseteq People
<1>1. chips[f] \in Seq(Chips!Addresses) /\ Len(chips[f]) <= MaxChips
  BY ValuesFit DEF ChipsInv, Chips!TypeOK
<1>2. QED
  BY <1>1, PersonsOf

\* A field edited.
LEMMA Editing ==
    ASSUME Chips!ChipsAssumption, ChipsInv, NEW f \in Chips!Fields, NEW s \in Seq(Chips!Addresses), Len(s) <= MaxChips,
           chips' = [chips EXCEPT ![f] = s]
    PROVE  /\ chips' \in [Chips!Fields -> Chips!Values]
           /\ \A g \in Chips!Fields : Chips!PeopleOf(chips'[g]) = IF g = f THEN Chips!PeopleOf(s) ELSE Chips!PeopleOf(chips[g])
<1>1. s \in Chips!Values /\ chips \in [Chips!Fields -> Chips!Values]
  BY ValuesFit DEF ChipsInv, Chips!TypeOK
<1>2. QED
  BY <1>1

\* A field with more people: nobody is lost.
LEMMA Growing ==
    ASSUME Chips!ChipsAssumption, ChipsInv, NEW f \in Chips!Fields, NEW s \in Seq(Chips!Addresses),
           NEW more \in SUBSET People, Chips!PeopleOf(s) = Chips!PeopleOf(chips[f]) \cup more,
           chips' = [chips EXCEPT ![f] = s], Chips!Fits(f)'
    PROVE  /\ chips' \in [Chips!Fields -> Chips!Values]
           /\ \A g \in Chips!Fields : Chips!PeopleOf(chips[g]) \subseteq Chips!PeopleOf(chips'[g])
           /\ more \subseteq Chips!PeopleOf(chips'[f])
<1>1. Len(s) <= MaxChips
  BY DEF Chips!Fits, ChipsInv, Chips!TypeOK
<1>2. QED
  BY <1>1, Editing

\* Typing in a field, with its Enter, comma and Tab, keeps the invariant.
LEMMA TypeKeeps ==
    ASSUME Chips!ChipsAssumption, ChipsInv, NEW f \in Chips!Fields, NEW a \in Chips!Addresses, Chips!Type(f, a)
    PROVE  ChipsInv'
<1>1. a.person \in People /\ {a.person} \in SUBSET People
  BY DEF Chips!Addresses
<1>2. PICK s : s = Chips!AddChip(chips[f], a)
  OBVIOUS
<1>3. s \in Seq(Chips!Addresses) /\ Chips!PeopleOf(s) = Chips!PeopleOf(chips[f]) \cup {a.person}
  BY <1>2, Adding, FieldsAreLists
<1>4. chips' = [chips EXCEPT ![f] = s] /\ Chips!Fits(f)' /\ wanted' = wanted \cup {a.person}
      /\ drag = Chips!NoDrag /\ drag' = Chips!NoDrag
  BY <1>2 DEF Chips!Type
<1>5. /\ chips' \in [Chips!Fields -> Chips!Values]
      /\ \A g \in Chips!Fields : Chips!PeopleOf(chips[g]) \subseteq Chips!PeopleOf(chips'[g])
      /\ {a.person} \subseteq Chips!PeopleOf(chips'[f])
  BY <1>1, <1>3, <1>4, Growing
<1>6. Chips!RecipientsAreKept'
  BY <1>4, <1>5, KeptMeans, KeptMeansNext DEF ChipsInv
<1>7. QED
  BY <1>1, <1>4, <1>5, <1>6 DEF ChipsInv, Chips!TypeOK, DragsAreSafe

\* Pasting several addresses keeps the invariant.
LEMMA PasteKeeps ==
    ASSUME Chips!ChipsAssumption, ChipsInv, NEW f \in Chips!Fields, NEW emails \in Chips!Pasted, Chips!Paste(f, emails)
    PROVE  ChipsInv'
<1>1. emails \in Seq(Chips!Addresses)
  <2>1. PICK n \in 1..2 : emails \in [1..n -> Chips!Addresses]
    BY DEF Chips!Pasted
  <2>2. QED
    BY <2>1
<1>2. Chips!PeopleOf(emails) \in SUBSET People
  BY <1>1, PersonsOf
<1>3. PICK s : s = Chips!Merged(chips[f], emails)
  OBVIOUS
<1>4. s \in Seq(Chips!Addresses) /\ Chips!PeopleOf(s) = Chips!PeopleOf(chips[f]) \cup Chips!PeopleOf(emails)
  BY <1>1, <1>3, ChipsMerging, FieldsAreLists
<1>5. chips' = [chips EXCEPT ![f] = s] /\ Chips!Fits(f)' /\ wanted' = wanted \cup Chips!PeopleOf(emails)
      /\ drag = Chips!NoDrag /\ drag' = Chips!NoDrag
  BY <1>3 DEF Chips!Paste
<1>6. /\ chips' \in [Chips!Fields -> Chips!Values]
      /\ \A g \in Chips!Fields : Chips!PeopleOf(chips[g]) \subseteq Chips!PeopleOf(chips'[g])
      /\ Chips!PeopleOf(emails) \subseteq Chips!PeopleOf(chips'[f])
  BY <1>2, <1>4, <1>5, Growing
<1>7. Chips!RecipientsAreKept'
  BY <1>5, <1>6, KeptMeans, KeptMeansNext DEF ChipsInv
<1>8. QED
  BY <1>2, <1>5, <1>6, <1>7 DEF ChipsInv, Chips!TypeOK, DragsAreSafe

\* Taking a chip away keeps it: its person is no longer wanted.
LEMMA RemoveKeeps ==
    ASSUME Chips!ChipsAssumption, ChipsInv, NEW f \in Chips!Fields, NEW person \in People, Chips!RemoveChip(f, person)
    PROVE  ChipsInv'
<1>1. PICK s : s = Chips!Without(chips[f], person)
  OBVIOUS
<1>2. s \in Seq(Chips!Addresses) /\ Len(s) <= Len(chips[f]) /\ Chips!PeopleOf(s) = Chips!PeopleOf(chips[f]) \ {person}
  BY <1>1, Removing, FieldsAreLists
<1>3. /\ chips' = [chips EXCEPT ![f] = s]
      /\ wanted' = {p \in wanted : p # person \/ \E g \in Chips!Fields \ {f} : p \in Chips!PeopleOf(chips[g])}
      /\ drag = Chips!NoDrag /\ drag' = Chips!NoDrag
  BY <1>1 DEF Chips!RemoveChip
<1>4. Len(s) <= MaxChips
  BY <1>2, FieldsAreLists DEF Chips!ChipsAssumption
<1>5. /\ chips' \in [Chips!Fields -> Chips!Values]
      /\ \A g \in Chips!Fields : Chips!PeopleOf(chips'[g]) = IF g = f THEN Chips!PeopleOf(s) ELSE Chips!PeopleOf(chips[g])
  BY <1>2, <1>3, <1>4, Editing
<1>6. Chips!RecipientsAreKept'
  BY <1>2, <1>3, <1>5, KeptMeans, KeptMeansNext DEF ChipsInv
<1>7. QED
  BY <1>3, <1>5, <1>6 DEF ChipsInv, Chips!TypeOK, DragsAreSafe

\* A drag starts: nothing was dropped yet.
LEMMA DragStartKeeps ==
    ASSUME Chips!ChipsAssumption, ChipsInv, NEW f \in Chips!Fields, NEW i, Chips!ChipDragStart(f, i)
    PROVE  ChipsInv'
<1>1. chips[f][i] \in Chips!Addresses
  BY FieldsAreLists DEF Chips!ChipDragStart
<1>2. PICK d : d = [chip |-> chips[f][i], source |-> f, dropped |-> FALSE, reordered |-> FALSE, move |-> FALSE]
  OBVIOUS
<1>3. d \in Chips!Drags /\ ~d.dropped /\ ~d.move /\ ~d.reordered
  BY <1>1, <1>2 DEF Chips!Drags
<1>4. drag' = d /\ UNCHANGED <<chips, wanted>>
  BY <1>2 DEF Chips!ChipDragStart
<1>5. QED
  BY <1>3, <1>4 DEF ChipsInv, Chips!TypeOK, Chips!RecipientsAreKept, DragsAreSafe

\* What is dragged is a chip.
LEMMA DraggedChip ==
    ASSUME ChipsInv, drag # Chips!NoDrag
    PROVE  /\ drag \in Chips!Drags /\ drag.chip \in Chips!Addresses /\ drag.chip.person \in People
           /\ drag.source \in Chips!Fields
BY DEF ChipsInv, Chips!TypeOK, Chips!Drags, Chips!Addresses

\* A drop on another field adds the chip there before the source loses it.
LEMMA DropKeeps ==
    ASSUME Chips!ChipsAssumption, ChipsInv, NEW g \in Chips!Fields, NEW person, Chips!Drop(g, person)
    PROVE  ChipsInv'
<1>1. drag # Chips!NoDrag /\ ~drag.dropped
  BY DEF Chips!Drop, Chips!Dropping
<1>2. /\ drag \in Chips!Drags /\ drag.chip \in Chips!Addresses /\ {drag.chip.person} \in SUBSET People
      /\ drag.source \in Chips!Fields
  BY <1>1, DraggedChip
<1>3. PICK s : s = Chips!Inserted(chips[g], person)
  OBVIOUS
<1>4. s \in Seq(Chips!Addresses) /\ Chips!PeopleOf(s) = Chips!PeopleOf(chips[g]) \cup {drag.chip.person}
  BY <1>2, <1>3, Inserting, FieldsAreLists
<1>5. chips' = [chips EXCEPT ![g] = s] /\ Chips!Fits(g)' /\ wanted' = wanted
  BY <1>3 DEF Chips!Drop
<1>6. /\ chips' \in [Chips!Fields -> Chips!Values]
      /\ \A f \in Chips!Fields : Chips!PeopleOf(chips[f]) \subseteq Chips!PeopleOf(chips'[f])
      /\ {drag.chip.person} \subseteq Chips!PeopleOf(chips'[g])
  BY <1>2, <1>4, <1>5, Growing
<1>7. Chips!RecipientsAreKept'
  BY <1>5, <1>6, KeptMeans, KeptMeansNext DEF ChipsInv
<1>8. PICK told \in BOOLEAN : told = (g = drag.source)
  OBVIOUS
<1>9. PICK d : d = [drag EXCEPT !.dropped = TRUE, !.move = TRUE, !.reordered = told]
  OBVIOUS
<1>10. d \in Chips!Drags /\ d.dropped /\ d.reordered = told /\ d.chip = drag.chip /\ d.source = drag.source
  BY <1>2, <1>8, <1>9 DEF Chips!Drags
<1>11. drag' = d
  BY <1>8, <1>9 DEF Chips!Drop
<1>12. DragsAreSafe'
  <2>1. CASE told
    BY <1>10, <1>11, <2>1 DEF DragsAreSafe
  <2>2. CASE ~told
    <3>1. g \in Chips!Fields \ {d.source} /\ d.chip.person \in Chips!PeopleOf(chips'[g])
      BY <1>6, <1>8, <1>10, <2>2
    <3>2. QED
      BY <1>10, <1>11, <3>1 DEF DragsAreSafe, Chips!PeopleOf
  <2>3. QED
    BY <2>1, <2>2
<1>13. QED
  BY <1>5, <1>6, <1>7, <1>10, <1>11, <1>12 DEF ChipsInv, Chips!TypeOK

\* A drop on a field that has the person already adds nothing there.
LEMMA DropOnItselfKeeps ==
    ASSUME Chips!ChipsAssumption, ChipsInv, NEW g \in Chips!Fields, Chips!DropOnItself(g)
    PROVE  ChipsInv'
<1>1. drag # Chips!NoDrag /\ ~drag.dropped /\ drag.chip.person \in Chips!PeopleOf(chips[g]) /\ chips' = chips
  BY DEF Chips!DropOnItself, Chips!Dropping
<1>2. drag \in Chips!Drags /\ drag.source \in Chips!Fields
  BY <1>1, DraggedChip
<1>3. PICK d : d = [drag EXCEPT !.dropped = TRUE, !.move = TRUE]
  OBVIOUS
<1>4. d \in Chips!Drags /\ d.dropped /\ d.chip = drag.chip /\ d.source = drag.source
  BY <1>2, <1>3 DEF Chips!Drags
<1>5. drag' = d
  BY <1>3 DEF Chips!DropOnItself
<1>6. /\ wanted' \subseteq wanted
      /\ \/ drag.chip.person \notin wanted'
         \/ \E f \in Chips!Fields \ {drag.source} : drag.chip.person \in Chips!PeopleOf(chips[f])
  BY <1>1, <1>2 DEF Chips!DropOnItself
<1>7. Chips!RecipientsAreKept'
  BY <1>1, <1>6, KeptMeans, KeptMeansNext DEF ChipsInv
<1>8. DragsAreSafe'
  BY <1>1, <1>4, <1>5, <1>6 DEF DragsAreSafe
<1>9. QED
  BY <1>1, <1>4, <1>5, <1>6, <1>7, <1>8 DEF ChipsInv, Chips!TypeOK

\* The source loses the chip only after a drop that another field took.
LEMMA DragEndKeeps ==
    ASSUME Chips!ChipsAssumption, ChipsInv, Chips!ChipDragEnd
    PROVE  ChipsInv'
<1>1. drag # Chips!NoDrag /\ drag' = Chips!NoDrag /\ wanted' = wanted
  BY DEF Chips!ChipDragEnd
<1>2. drag.source \in Chips!Fields
  BY <1>1, DraggedChip
<1>3. CASE ~drag.reordered /\ drag.move
  <2>1. PICK s : s = Chips!Without(chips[drag.source], drag.chip.person)
    OBVIOUS
  <2>2. /\ s \in Seq(Chips!Addresses) /\ Len(s) <= Len(chips[drag.source])
        /\ Chips!PeopleOf(s) = Chips!PeopleOf(chips[drag.source]) \ {drag.chip.person}
    BY <1>2, <2>1, Removing, FieldsAreLists
  <2>3. chips' = [chips EXCEPT ![drag.source] = s]
    BY <1>3, <2>1 DEF Chips!ChipDragEnd
  <2>4. Len(s) <= MaxChips
    BY <1>2, <2>2, FieldsAreLists DEF Chips!ChipsAssumption
  <2>5. /\ chips' \in [Chips!Fields -> Chips!Values]
        /\ \A g \in Chips!Fields : Chips!PeopleOf(chips'[g]) = IF g = drag.source THEN Chips!PeopleOf(s) ELSE Chips!PeopleOf(chips[g])
    BY <1>2, <2>2, <2>3, <2>4, Editing
  <2>6. \/ drag.chip.person \notin wanted
        \/ \E f \in Chips!Fields \ {drag.source} : drag.chip.person \in Chips!PeopleOf(chips[f])
    BY <1>1, <1>3 DEF ChipsInv, DragsAreSafe
  <2>7. Chips!RecipientsAreKept'
    BY <1>1, <2>2, <2>5, <2>6, KeptMeans, KeptMeansNext DEF ChipsInv
  <2>8. QED
    BY <1>1, <2>5, <2>7 DEF ChipsInv, Chips!TypeOK, DragsAreSafe
<1>4. CASE ~(~drag.reordered /\ drag.move)
  <2>1. chips' = chips
    BY <1>4 DEF Chips!ChipDragEnd
  <2>2. QED
    BY <1>1, <2>1 DEF ChipsInv, Chips!TypeOK, Chips!RecipientsAreKept, DragsAreSafe
<1>5. QED
  BY <1>3, <1>4

\* No chip and no drag: the invariant of the fields holds.
LEMMA ChipsStart ==
    ASSUME Chips!ChipsAssumption, Chips!Init
    PROVE  ChipsInv
<1>1. PICK to \in Chips!Values : chips = [f \in Chips!Fields |-> IF f = "to" THEN to ELSE << >>]
  BY DEF Chips!Init
<1>2. << >> \in Chips!Values
  <2>1. << >> \in Seq(Chips!Addresses) /\ Len(<< >>) <= MaxChips
    BY DEF Chips!ChipsAssumption
  <2>2. QED
    BY <2>1, ValuesFit
<1>3. Chips!PeopleOf(to) \subseteq People
  <2>1. to \in Seq(Chips!Addresses)
    BY ValuesFit
  <2>2. QED
    BY <2>1, PersonsOf
<1>4. chips["to"] = to
  BY <1>1 DEF Chips!Fields
<1>5. QED
  BY <1>1, <1>2, <1>3, <1>4 DEF Chips!Init, ChipsInv, Chips!TypeOK, Chips!RecipientsAreKept,
     DragsAreSafe

\* The invariant of the fields is inductive.
LEMMA ChipsSteps ==
    ASSUME Chips!ChipsAssumption, ChipsInv, [Chips!Next]_Chips!chipVars
    PROVE  ChipsInv'
<1>1. CASE UNCHANGED Chips!chipVars
  BY <1>1 DEF Chips!chipVars, ChipsInv, Chips!TypeOK, Chips!RecipientsAreKept, DragsAreSafe
<1>2. CASE Chips!Next
  BY <1>2, TypeKeeps, PasteKeeps, RemoveKeeps, DragStartKeeps, DropKeeps, DropOnItselfKeeps,
     DragEndKeeps DEF Chips!Next
<1>3. QED
  BY <1>1, <1>2

\* Every state of the recipient fields is of its type: none has more chips than it may,
\* whatever is typed, pasted and dragged.
THEOREM ChipsTypes ==
    ASSUME Chips!ChipsAssumption
    PROVE  Chips!Spec => []Chips!TypeOK
<1>1. ChipsInv => Chips!TypeOK
  BY DEF ChipsInv
<1>2. QED
  BY <1>1, ChipsStart, ChipsSteps, PTL DEF Chips!Spec

\* No recipient gets lost: whoever was put in a field is in one of them until the user
\* takes the chip out or drops it on itself, even between the drop on one field and the
\* end of the drag on the other.
THEOREM RecipientsStay ==
    ASSUME Chips!ChipsAssumption
    PROVE  Chips!Spec => []Chips!RecipientsAreKept
<1>1. ChipsInv => Chips!RecipientsAreKept
  BY DEF ChipsInv
<1>2. QED
  BY <1>1, ChipsStart, ChipsSteps, PTL DEF Chips!Spec

-----------------------------------------------------------------------------
(* The dialogs of the settings (SettingsDialogs) *)

\* What is on its way is of the form and of the dialog that are open now, unless
\* one was opened while a request of an earlier one was in flight.
RequestsOfThisRow ==
    crossed \/ (/\ fetches \subseteq {type}
                /\ saves \subseteq {editingId}
                /\ formTarget # None => impacts \subseteq {formTarget})

FormsInv == Forms!TypeOK /\ RequestsOfThisRow /\ Forms!DialogsFitTheirRow

\* Opening the form of a row, or of a new one, keeps the invariant.
LEMMA FormOpenKeeps ==
    ASSUME FormsInv, NEW e \in Forms!Editable, Forms!OpenForm(e)
    PROVE  FormsInv'
BY DEF FormsInv, Forms!TypeOK, RequestsOfThisRow, Forms!DialogsFitTheirRow, Forms!OpenForm,
   Forms!deleteVars

\* Typing, choosing a type, asking for models, submitting and closing keep it.
LEMMA FormKeeps ==
    ASSUME FormsInv, Forms!CloseForm \/ Forms!SetProviderType \/ Forms!Type \/ Forms!HandleFetchModels \/ Forms!HandleSubmit
    PROVE  FormsInv'
<1>1. CASE Forms!CloseForm
  BY <1>1 DEF FormsInv, Forms!TypeOK, RequestsOfThisRow, Forms!DialogsFitTheirRow,
     Forms!CloseForm, Forms!deleteVars
<1>2. CASE Forms!SetProviderType
  BY <1>2 DEF FormsInv, Forms!TypeOK, RequestsOfThisRow, Forms!DialogsFitTheirRow,
     Forms!SetProviderType, Forms!deleteVars
<1>3. CASE Forms!Type
  BY <1>3 DEF FormsInv, Forms!TypeOK, RequestsOfThisRow, Forms!DialogsFitTheirRow, Forms!Type,
     Forms!deleteVars
<1>4. CASE Forms!HandleFetchModels
  BY <1>4 DEF FormsInv, Forms!TypeOK, RequestsOfThisRow, Forms!DialogsFitTheirRow,
     Forms!HandleFetchModels, Forms!deleteVars
<1>5. CASE Forms!HandleSubmit
  BY <1>5 DEF FormsInv, Forms!TypeOK, RequestsOfThisRow, Forms!DialogsFitTheirRow,
     Forms!HandleSubmit, Forms!deleteVars
<1>6. QED
  BY <1>1, <1>2, <1>3, <1>4, <1>5

\* The models that arrive are for the type they were asked for.
LEMMA FetchKeeps ==
    ASSUME FormsInv, NEW s \in fetches, Forms!FetchEnds(s)
    PROVE  FormsInv'
BY DEF FormsInv, Forms!TypeOK, RequestsOfThisRow, Forms!DialogsFitTheirRow, Forms!FetchEnds,
   Forms!deleteVars

\* A save that ends closes the form of the row it was of.
LEMMA SaveKeeps ==
    ASSUME FormsInv, NEW e \in saves, Forms!Saved(e) \/ Forms!SaveFails(e)
    PROVE  FormsInv'
<1>1. CASE Forms!Saved(e)
  BY <1>1 DEF FormsInv, Forms!TypeOK, RequestsOfThisRow, Forms!DialogsFitTheirRow, Forms!Saved,
     Forms!deleteVars
<1>2. CASE Forms!SaveFails(e)
  BY <1>2 DEF FormsInv, Forms!TypeOK, RequestsOfThisRow, Forms!DialogsFitTheirRow,
     Forms!SaveFails, Forms!deleteVars
<1>3. QED
  BY <1>1, <1>2

\* Asking for a deletion and confirming it keep the invariant.
LEMMA DeletionKeeps ==
    ASSUME FormsInv, Forms!CancelDelete \/ Forms!HandleDelete \/ \E r \in Rows : Forms!OpenDelete(r)
    PROVE  FormsInv'
<1>1. CASE Forms!CancelDelete
  BY <1>1 DEF FormsInv, Forms!TypeOK, RequestsOfThisRow, Forms!DialogsFitTheirRow,
     Forms!CancelDelete, Forms!formVars
<1>2. CASE Forms!HandleDelete
  BY <1>2 DEF FormsInv, Forms!TypeOK, RequestsOfThisRow, Forms!DialogsFitTheirRow,
     Forms!HandleDelete, Forms!formVars
<1>3. ASSUME NEW r \in Rows, Forms!OpenDelete(r)
      PROVE  FormsInv'
  BY <1>3 DEF FormsInv, Forms!TypeOK, RequestsOfThisRow, Forms!DialogsFitTheirRow,
     Forms!OpenDelete, Forms!formVars
<1>4. QED
  BY <1>1, <1>2, <1>3

\* The impact shown is that of the row asked about.
LEMMA DeletionAnswerKeeps ==
    ASSUME FormsInv,
           \/ \E r \in impacts : Forms!ImpactEnds(r)
           \/ \E r \in deletes : Forms!Deleted(r) \/ Forms!DeleteFails(r)
    PROVE  FormsInv'
<1>1. ASSUME NEW r \in impacts, Forms!ImpactEnds(r)
      PROVE  FormsInv'
  BY <1>1 DEF FormsInv, Forms!TypeOK, RequestsOfThisRow, Forms!DialogsFitTheirRow,
     Forms!ImpactEnds, Forms!formVars
<1>2. ASSUME NEW r \in deletes, Forms!Deleted(r)
      PROVE  FormsInv'
  BY <1>2 DEF FormsInv, Forms!TypeOK, RequestsOfThisRow, Forms!DialogsFitTheirRow,
     Forms!Deleted, Forms!formVars
<1>3. ASSUME NEW r \in deletes, Forms!DeleteFails(r)
      PROVE  FormsInv'
  BY <1>3 DEF FormsInv, Forms!TypeOK, RequestsOfThisRow, Forms!DialogsFitTheirRow,
     Forms!DeleteFails, Forms!formVars
<1>4. QED
  BY <1>1, <1>2, <1>3

\* The invariant of the dialogs of the settings is inductive.
LEMMA FormsSteps ==
    ASSUME FormsInv, [Forms!Next]_Forms!settingsDialogsVars
    PROVE  FormsInv'
<1>1. ASSUME UNCHANGED Forms!settingsDialogsVars
      PROVE  FormsInv'
  BY <1>1 DEF FormsInv, Forms!TypeOK, RequestsOfThisRow, Forms!DialogsFitTheirRow,
     Forms!settingsDialogsVars,
     Forms!formVars, Forms!deleteVars
<1>2. QED
  BY <1>1, FormOpenKeeps, FormKeeps, FetchKeeps, SaveKeeps, DeletionKeeps, DeletionAnswerKeeps
  DEF Forms!Next

\* No dialog is open: it holds.
LEMMA FormsStart ==
    ASSUME Forms!Init
    PROVE  FormsInv
BY DEF Forms!Init, FormsInv, Forms!TypeOK, RequestsOfThisRow, Forms!DialogsFitTheirRow,
   Forms!Editable

\* Every state of the forms of the settings is of its type: no request is of a row or
\* of a type there is not.
THEOREM FormsTypes == Forms!Spec => []Forms!TypeOK
<1>1. FormsInv => Forms!TypeOK
  BY DEF FormsInv
<1>2. QED
  BY <1>1, FormsStart, FormsSteps, PTL DEF Forms!Spec

\* The impact shown is that of the row to delete, the models are those of the type in the
\* form, and a save takes away nothing entered in another, unless a request of an earlier
\* dialog was on its way when this one was opened.
THEOREM FormsFitTheirRow == Forms!Spec => []Forms!DialogsFitTheirRow
<1>1. FormsInv => Forms!DialogsFitTheirRow
  BY DEF FormsInv
<1>2. QED
  BY <1>1, FormsStart, FormsSteps, PTL DEF Forms!Spec
=============================================================================
