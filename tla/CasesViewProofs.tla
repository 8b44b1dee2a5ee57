--------------------------- MODULE CasesViewProofs ---------------------------
(***************************************************************************)
(* TLAPS proofs about CasesView, for any set of cases and any number of    *)
(* requests in flight: type correctness, what the lock protects and what   *)
(* it rests on, and that open cards load.                                  *)
(***************************************************************************)
EXTENDS CasesView, TLAPS

USE DEF screenVars, historyVars

-----------------------------------------------------------------------------
(* The lock *)

\* The request has a copy of updated_at, to send or to bring, that is current.
Fresh(r) == \/ r.pc = "sent" /\ r.kind \in Locked /\ r.expected = "current"
            \/ r.pc = "answered" /\ r.answer.version = "current"

\* What a request holds on its own: a save with the current updated_at of its
\* form has seen what it writes, one from a form sends an updated_at, and a
\* current answer shows everything; without the lock there is no conflict.
Sound(r) ==
    /\ r.kind \notin Locked => r.expected = "none" /\ r.pc # "conflict"
    /\ r.pc = "sent" /\ r.kind \in Locked =>
          /\ r.origin = "form" /\ r.expected = "current" => Writes(r.kind) \subseteq r.saw
          /\ r.expected = "none" => r.origin = "none"
    /\ r.answer.version = "current" => r.answer.saw = Fields

\* A save whose updated_at is current, from a form not refilled since, belongs to
\* a form that shows everything.
Paced(r) ==
    r.kind \in Saves /\ r.origin # "none" /\ ~r.crossed /\ Fresh(r)
        => (loaded[r.case] /\ ahead[r.case] = None => saw[r.case] = Fields)

FlightsAreSound == \A r \in flights : Sound(r)
SavesKeepPace   == \A r \in flights : Paced(r)

\* The inductive invariant.
LockInv == TypeOK /\ CurrentMeansShown /\ FlightsAreSound /\ SavesKeepPace

\* The fields written are fields of the form.
LEMMA WritesFields == \A kind \in Kinds : Writes(kind) \subseteq Fields
BY DEF Writes, Fields

\* An aged copy is not current.
LEMMA AgedVersion ==
    ASSUME NEW v \in Versions
    PROVE  Aged(v) \in Versions \ {"current"}
BY DEF Aged, Versions

\* A write of others keeps the type of a request and makes its copies old.
LEMMA OvertakenFlight ==
    ASSUME NEW r \in Flight, NEW c \in Cases, NEW F \in SUBSET Fields
    PROVE  LET x == Overtaken(r, c, F)
           IN  /\ x \in Flight
               /\ x.kind = r.kind /\ x.case = r.case /\ x.pc = r.pc
               /\ x.crossed = r.crossed /\ x.origin = r.origin
               /\ r.case # c => x = r
               /\ r.case = c => ~Fresh(x) /\ x.answer.version # "current"
               /\ x.expected \in {r.expected, "old"}
               /\ r.expected = "none" => x.expected = "none"
               /\ x.answer.version \in {r.answer.version, "old"}
<1>1. CASE r.case # c
  BY <1>1 DEF Overtaken
<1>2. CASE r.case = c
  <2> DEFINE a == [version |-> Aged(r.answer.version), saw |-> r.answer.saw \ F]
             x == [r EXCEPT !.expected = Aged(@), !.saw = @ \ F, !.answer = a]
  <2>1. r.answer \in Answer /\ r.answer.version \in Versions /\ r.expected \in Versions
    BY DEF Flight, Answer
  <2>2. a \in Answer /\ a.version = Aged(r.answer.version)
    BY <2>1, AgedVersion DEF Answer
  <2>3. x \in Flight
    BY <2>1, <2>2, AgedVersion DEF Flight
  <2>4. /\ x.kind = r.kind /\ x.case = r.case /\ x.pc = r.pc
        /\ x.crossed = r.crossed /\ x.origin = r.origin
        /\ x.expected = Aged(r.expected) /\ x.answer = a
    BY DEF Flight
  <2>5. Overtaken(r, c, F) = x
    BY <1>2 DEF Overtaken
  <2>6. /\ Aged(r.expected) # "current" /\ Aged(r.expected) \in {r.expected, "old"}
        /\ r.expected = "none" => Aged(r.expected) = "none"
        /\ a.version # "current" /\ a.version \in {r.answer.version, "old"}
    BY <2>1, <2>2, AgedVersion DEF Aged
  <2> HIDE DEF a, x
  <2>7. QED
    BY <1>2, <2>3, <2>4, <2>5, <2>6 DEF Fresh
<1>3. QED
  BY <1>1, <1>2

\* Requests overtaken by others stay sound, and keep pace where the form does.
LEMMA OvertakenSound ==
    ASSUME NEW r \in Flight, NEW c \in Cases, NEW F \in SUBSET Fields, Sound(r)
    PROVE  Sound(Overtaken(r, c, F))
<1>1. CASE r.case # c
  BY <1>1, OvertakenFlight
<1>2. CASE r.case = c
  <2> DEFINE x == Overtaken(r, c, F)
  <2>1. /\ x.kind = r.kind /\ x.pc = r.pc /\ x.origin = r.origin
        /\ ~Fresh(x) /\ x.answer.version # "current" /\ x.expected \in {r.expected, "old"}
        /\ r.expected = "none" => x.expected = "none"
    BY <1>2, OvertakenFlight
  <2> HIDE DEF x
  <2>2. Sound(x)
    BY <2>1 DEF Sound, Fresh
  <2>3. QED
    BY <2>2 DEF x
<1>3. QED
  BY <1>1, <1>2

\* The answer to a request that was executed.
LEMMA AnsweredFlight ==
    ASSUME NEW r \in Flight
    PROVE  LET x == Answered(r)
           IN  /\ x \in Flight /\ Sound(x)
               /\ x.kind = r.kind /\ x.case = r.case /\ x.pc = "answered"
               /\ x.crossed = r.crossed /\ x.origin = r.origin
               /\ r.kind \notin Ends => x.answer.version = "current"
<1>1. CASE r.kind \in Ends
  <2> DEFINE x == [r EXCEPT !.pc = "answered", !.saw = {}, !.expected = "none", !.answer = NoAnswer]
  <2>1. NoAnswer \in Answer /\ NoAnswer.version = "none"
    BY DEF NoAnswer, Answer, Versions
  <2>2. x \in Flight
    BY <2>1 DEF Flight, Versions
  <2>3. /\ x.kind = r.kind /\ x.case = r.case /\ x.pc = "answered" /\ x.expected = "none"
        /\ x.crossed = r.crossed /\ x.origin = r.origin /\ x.answer = NoAnswer
    BY DEF Flight
  <2>4. Answered(r) = x
    BY <1>1 DEF Answered
  <2> HIDE DEF x
  <2>5. QED
    BY <1>1, <2>1, <2>2, <2>3, <2>4 DEF Sound
<1>2. CASE r.kind \notin Ends
  <2> DEFINE a == [version |-> "current", saw |-> Fields]
             x == [r EXCEPT !.pc = "answered", !.saw = {}, !.expected = "none", !.answer = a]
  <2>1. a \in Answer /\ a.version = "current" /\ a.saw = Fields
    BY DEF Answer, Versions
  <2>2. x \in Flight
    BY <2>1 DEF Flight, Versions
  <2>3. /\ x.kind = r.kind /\ x.case = r.case /\ x.pc = "answered" /\ x.expected = "none"
        /\ x.crossed = r.crossed /\ x.origin = r.origin /\ x.answer = a
    BY DEF Flight
  <2>4. Answered(r) = x
    BY <1>2 DEF Answered
  <2> HIDE DEF a, x
  <2>5. QED
    BY <2>1, <2>2, <2>3, <2>4 DEF Sound
<1>3. QED
  BY <1>1, <1>2

\* A request that is sent.
LEMMA RequestFlight ==
    ASSUME TypeOK, NEW kind \in Kinds, NEW c \in Cases
    PROVE  LET x == Request(kind, c)
           IN  /\ x \in Flight
               /\ x.kind = kind /\ x.case = c /\ x.pc = "sent" /\ x.answer = NoAnswer
               /\ x.saw = saw[c] \cap Writes(kind)
               /\ x.expected = IF kind \in Locked THEN details[c] ELSE "none"
               /\ kind \in Saves => x.origin = Origin(c)
<1>1. details[c] \in Versions /\ saw[c] \cap Writes(kind) \in SUBSET Fields
  BY WritesFields DEF TypeOK
<1>2. Origin(c) \in Origins
  BY DEF Origin, Origins, TypeOK
<1>3. Pending(kind, c) \in BOOLEAN
  BY DEF Pending
<1>4. NoAnswer \in Answer
  BY DEF NoAnswer, Answer, Versions
<1>5. QED
  BY <1>1, <1>2, <1>3, <1>4 DEF Request, Flight, Versions, Origins

\* Sending a request keeps the invariant, whatever else the handler does to the
\* cards that are open.
LEMMA SendLock ==
    ASSUME LockInv, NEW kind \in Kinds, NEW c \in Cases, Send(kind, c),
           open' \in SUBSET Cases, UNCHANGED <<listed, details, loaded, modal>>
    PROVE  LockInv'
<1>0. PICK x : x = Request(kind, c)
  OBVIOUS
<1>1. /\ x \in Flight
      /\ x.kind = kind /\ x.case = c /\ x.pc = "sent" /\ x.answer = NoAnswer
      /\ x.saw = saw[c] \cap Writes(kind)
      /\ x.expected = IF kind \in Locked THEN details[c] ELSE "none"
      /\ kind \in Saves => x.origin = Origin(c)
  BY <1>0, RequestFlight DEF LockInv
<1>2. flights' = flights \cup {x} /\ UNCHANGED <<row, saw, ahead, unread>>
  BY <1>0 DEF Send
<1>3. NoAnswer.version = "none"
  BY DEF NoAnswer
<1>4. kind \in Locked => kind \in Saves
  BY DEF Saves
<1>5. TypeOK'
  BY <1>1, <1>2 DEF LockInv, TypeOK
<1>6. CurrentMeansShown'
  BY <1>2 DEF LockInv, CurrentMeansShown, HasDetail
<1>7. Origin(c) = "form" => HasDetail(c) /\ loaded[c] /\ ahead[c] = None
  BY CasesAssumption DEF Origin, LockInv, TypeOK
<1>8. Sound(x)
  <2>1. CASE kind \in Locked
    <3>1. details[c] = "none" => Origin(c) = "none"
      BY DEF Origin, HasDetail
    <3>2. Origin(c) = "form" /\ details[c] = "current" => saw[c] = Fields
      BY <1>7 DEF LockInv, CurrentMeansShown
    <3>3. saw[c] = Fields => Writes(kind) \subseteq x.saw
      BY <1>1, WritesFields
    <3>4. QED
      BY <2>1, <1>1, <1>3, <1>4, <3>1, <3>2, <3>3 DEF Sound
  <2>2. CASE kind \notin Locked
    BY <2>2, <1>1, <1>3 DEF Sound
  <2>3. QED
    BY <2>1, <2>2
<1>9. FlightsAreSound'
  BY <1>2, <1>8 DEF LockInv, FlightsAreSound
<1>10. Paced(x)'
  <2>1. Fresh(x) => kind \in Locked /\ details[c] = "current"
    BY <1>1 DEF Fresh
  <2>2. Fresh(x) /\ loaded[c] /\ ahead[c] = None => saw[c] = Fields
    BY <2>1 DEF LockInv, CurrentMeansShown
  <2>3. QED
    BY <1>1, <1>2, <2>2 DEF Paced, Fresh
<1>11. ASSUME NEW r \in flights PROVE Paced(r)'
  BY <1>2, <1>11 DEF LockInv, SavesKeepPace, Paced, Fresh
<1>12. SavesKeepPace'
  BY <1>2, <1>10, <1>11 DEF SavesKeepPace
<1>13. QED
  BY <1>5, <1>6, <1>9, <1>12 DEF LockInv

\* Every handler of a card sends one request or none, and moves nothing else but
\* the card.
LEMMA UserSends ==
    ASSUME TypeOK, NEW c \in Cases, User(c)
    PROVE  /\ open' \in SUBSET Cases /\ UNCHANGED <<listed, details, loaded, modal>>
           /\ \/ UNCHANGED <<flights, row, saw, ahead, unread>>
              \/ \E kind \in Kinds : Send(kind, c)
<1>1. open \in SUBSET Cases
  BY DEF TypeOK
<1>2. {"outcome", "followUp", "summary", "load", "peek", "close", "reopen", "change", "note", "delete",
       "clear"} \subseteq Kinds
  BY DEF Kinds, Locked, Reads
<1>3. CASE ToggleCase(c) \/ OpenFromLink(c) \/ ResumeMailboxSearch(c)
  BY <1>1, <1>2, <1>3 DEF ToggleCase, OpenFromLink, ResumeMailboxSearch
<1>4. CASE SaveOutcome(c) \/ SaveFollowUp(c) \/ SaveAiSummary(c) \/ CloseCase(c) \/ ReopenCase(c)
  BY <1>1, <1>2, <1>4 DEF SaveOutcome, SaveFollowUp, SaveAiSummary, CloseCase, ReopenCase
<1>5. CASE \/ ReopenWithNewMessages(c) \/ RefreshCorrelation(c) \/ AddMessage(c) \/ RemoveMessage(c)
           \/ BulkExclude(c) \/ ReassignOwner(c) \/ AddNote(c)
  BY <1>1, <1>2, <1>5 DEF ReopenWithNewMessages, RefreshCorrelation, AddMessage, RemoveMessage,
                          BulkExclude, ReassignOwner, AddNote
<1>6. CASE \/ RetraceAttachments(c) \/ ValidateEvent(c) \/ Analyze(c) \/ PollAiAnalysis(c)
           \/ DeleteCase(c) \/ ClearCases(c)
  BY <1>1, <1>2, <1>6 DEF RetraceAttachments, ValidateEvent, Analyze, PollAiAnalysis, DeleteCase, ClearCases
<1>7. QED
  BY <1>3, <1>4, <1>5, <1>6 DEF User

\* What the properties need of a step that sends nothing: the requests after it
\* are typed, sound and in pace one by one.
LEMMA FlightByFlight ==
    ASSUME \A x \in flights' : x \in Flight /\ Sound(x) /\ Paced(x)'
    PROVE  flights' \in SUBSET Flight /\ FlightsAreSound' /\ SavesKeepPace'
<1>1. \A x \in flights' : Sound(x)
  OBVIOUS
<1>2. \A x \in flights' : Paced(x)'
  OBVIOUS
<1>3. FlightsAreSound'
  BY <1>1 DEF FlightsAreSound
<1>4. SavesKeepPace'
  BY <1>2 DEF SavesKeepPace
<1>5. QED
  BY <1>3, <1>4

\* The writes of other users make old what they touch.
LEMMA OthersLock ==
    ASSUME LockInv, NEW c \in Cases, Others(c)
    PROVE  LockInv'
<1>1. PICK F \in SUBSET Fields :
        /\ saw' = [saw EXCEPT ![c] = @ \ F]
        /\ flights' = {Overtaken(r, c, F) : r \in flights}
        /\ details' = OldDetail(c)
        /\ row' \in [Cases -> Status]
        /\ UNCHANGED <<listed, open, loaded, modal, ahead, unread>>
  <2>1. CASE OtherUserEdits(c)
    <3>1. PICK f \in Fields : /\ saw' = [saw EXCEPT ![c] = @ \ {f}]
                              /\ flights' = {Overtaken(r, c, {f}) : r \in flights}
      BY <2>1 DEF OtherUserEdits
    <3>2. {f} \in SUBSET Fields
      OBVIOUS
    <3>3. QED
      BY <2>1, <3>1, <3>2 DEF OtherUserEdits, LockInv, TypeOK
  <2>2. CASE OtherUserSetsStatus(c)
    <3>1. saw = [saw EXCEPT ![c] = @ \ {}]
      BY DEF LockInv, TypeOK
    <3>2. row' \in [Cases -> Status]
      BY <2>2 DEF OtherUserSetsStatus, LockInv, TypeOK
    <3>3. QED
      BY <2>2, <3>1, <3>2 DEF OtherUserSetsStatus
  <2>3. QED
    BY <2>1, <2>2 DEF Others
<1>2. details' \in [Cases -> Versions] /\ details'[c] # "current" /\ saw' \in [Cases -> SUBSET Fields]
  BY <1>1, AgedVersion DEF OldDetail, LockInv, TypeOK
<1>3. \A d \in Cases \ {c} : details'[d] = details[d] /\ saw'[d] = saw[d]
  BY <1>1 DEF OldDetail, LockInv, TypeOK
<1>4. ASSUME NEW x \in flights' PROVE x \in Flight /\ Sound(x) /\ Paced(x)'
  <2>1. PICK r \in flights : x = Overtaken(r, c, F)
    BY <1>1
  <2>2. r \in Flight /\ Sound(r) /\ Paced(r)
    BY DEF LockInv, TypeOK, FlightsAreSound, SavesKeepPace
  <2>3. x \in Flight /\ Sound(x)
    BY <2>1, <2>2, OvertakenFlight, OvertakenSound
  <2>4. CASE r.case = c
    <3>1. ~Fresh(x)
      BY <2>1, <2>2, <2>4, OvertakenFlight
    <3>2. QED
      BY <2>3, <3>1 DEF Paced, Fresh
  <2>5. CASE r.case # c
    <3>1. x = r /\ r.case \in Cases \ {c}
      BY <2>1, <2>2, <2>5, OvertakenFlight DEF Flight
    <3>2. QED
      BY <1>1, <1>3, <2>2, <3>1, <2>3 DEF Paced, Fresh
  <2>6. QED
    BY <2>3, <2>4, <2>5
<1>5. flights' \in SUBSET Flight /\ FlightsAreSound' /\ SavesKeepPace'
  BY <1>4, FlightByFlight
<1>6. CurrentMeansShown'
  BY <1>1, <1>2, <1>3 DEF LockInv, CurrentMeansShown
<1>7. TypeOK'
  BY <1>1, <1>2, <1>5 DEF LockInv, TypeOK
<1>8. QED
  BY <1>5, <1>6, <1>7 DEF LockInv

\* A save that the lock lets through with an updated_at of its form leaves a form
\* that shows everything.
LEMMA ExecuteLock ==
    ASSUME LockInv, NEW r \in flights, Execute(r)
    PROVE  LockInv'
<1> DEFINE c == r.case
<1>0. r \in Flight /\ r.kind \in Kinds /\ c \in Cases /\ Sound(r) /\ Paced(r) /\ r.pc = "sent"
  BY DEF LockInv, TypeOK, FlightsAreSound, SavesKeepPace, Flight, Execute
<1>1. /\ saw' = [saw EXCEPT ![c] = @ \cup Writes(r.kind)]
      /\ UNCHANGED <<listed, open, loaded, modal, ahead, unread>>
  BY DEF Execute
<1>2. row' \in [Cases -> Status]
  BY <1>0 DEF Execute, Written, Status, LockInv, TypeOK
<1>3. saw' \in [Cases -> SUBSET Fields] /\ \A d \in Cases : saw[d] \subseteq saw'[d]
  BY <1>0, <1>1, WritesFields DEF LockInv, TypeOK
<1>4. ASSUME NEW d \in Cases, saw[d] = Fields PROVE saw'[d] = Fields
  BY <1>3, <1>4
<1>5. Answered(r) \in Flight /\ Sound(Answered(r)) /\ Paced(Answered(r))'
  <2>1. PICK x : x = Answered(r)
    OBVIOUS
  <2>2. /\ x \in Flight /\ Sound(x) /\ x.kind = r.kind /\ x.case = c /\ x.pc = "answered"
        /\ x.crossed = r.crossed /\ x.origin = r.origin
    BY <1>0, <2>1, AnsweredFlight
  <2>3. ASSUME r.kind \in Saves, r.origin # "none", ~r.crossed, loaded[c], ahead[c] = None
        PROVE  saw'[c] = Fields
    <3>1. CASE r.kind = "close"
      <4>1. Writes(r.kind) = Fields
        BY <3>1 DEF Writes
      <4>2. QED
        BY <4>1, <1>0, <1>1, <1>3 DEF LockInv, TypeOK
    <3>2. CASE r.kind \in Locked
      <4>1. r.expected = "current"
        BY <1>0, <2>3, <3>2 DEF Execute, LockHolds, Sound, Flight, Versions
      <4>2. saw[c] = Fields
        BY <1>0, <2>3, <3>2, <4>1 DEF Paced, Fresh
      <4>3. QED
        BY <1>0, <1>4, <4>2
    <3>3. QED
      BY <2>3, <3>1, <3>2 DEF Saves
  <2>4. Paced(x)'
    BY <1>1, <2>2, <2>3 DEF Paced
  <2>5. QED
    BY <2>1, <2>2, <2>4
<1>6. ASSUME NEW x \in flights PROVE x \in Flight /\ Sound(x) /\ Paced(x)'
  <2>1. x \in Flight /\ Sound(x) /\ Paced(x) /\ x.case \in Cases
    BY DEF LockInv, TypeOK, FlightsAreSound, SavesKeepPace, Flight
  <2>2. QED
    BY <1>1, <1>4, <2>1 DEF Paced, Fresh
<1>7. CASE /\ r.kind \notin Reads
           /\ flights' = {Answered(r)} \cup {Overtaken(x, c, {}) : x \in flights \ {r}}
           /\ details' = OldDetail(c)
  <2>1. details' \in [Cases -> Versions] /\ details'[c] # "current"
    BY <1>0, <1>7, AgedVersion DEF OldDetail, LockInv, TypeOK
  <2>2. \A d \in Cases \ {c} : details'[d] = details[d] /\ saw'[d] = saw[d]
    BY <1>0, <1>1, <1>7 DEF OldDetail, LockInv, TypeOK
  <2>3. ASSUME NEW y \in flights' PROVE y \in Flight /\ Sound(y) /\ Paced(y)'
    <3>1. CASE y = Answered(r)
      BY <1>5, <3>1
    <3>2. ASSUME NEW x \in flights, y = Overtaken(x, c, {}) PROVE y \in Flight /\ Sound(y) /\ Paced(y)'
      <4>1. x \in Flight /\ Sound(x) /\ Paced(x)'
        BY <1>6
      <4>2. y \in Flight /\ Sound(y)
        BY <1>0, <3>2, <4>1, OvertakenFlight, OvertakenSound
      <4>3. y = x \/ ~Fresh(y)
        BY <1>0, <3>2, <4>1, OvertakenFlight
      <4>4. ~Fresh(y) => Paced(y)'
        BY DEF Paced, Fresh
      <4>5. QED
        BY <4>1, <4>2, <4>3, <4>4
    <3>3. QED
      BY <1>7, <3>1, <3>2
  <2>4. flights' \in SUBSET Flight /\ FlightsAreSound' /\ SavesKeepPace'
    BY <2>3, FlightByFlight
  <2>5. CurrentMeansShown'
    BY <1>1, <2>1, <2>2 DEF LockInv, CurrentMeansShown
  <2>6. QED
    BY <1>1, <1>2, <1>3, <2>1, <2>4, <2>5 DEF LockInv, TypeOK
<1>8. CASE /\ flights' = {Answered(r)} \cup (flights \ {r})
           /\ UNCHANGED details
  <2>1. ASSUME NEW y \in flights' PROVE y \in Flight /\ Sound(y) /\ Paced(y)'
    BY <1>5, <1>6, <1>8, <2>1
  <2>2. flights' \in SUBSET Flight /\ FlightsAreSound' /\ SavesKeepPace'
    BY <2>1, FlightByFlight
  <2>3. CurrentMeansShown'
    BY <1>1, <1>4, <1>8 DEF LockInv, CurrentMeansShown
  <2>4. QED
    BY <1>1, <1>2, <1>3, <1>8, <2>2, <2>3 DEF LockInv, TypeOK
<1>9. QED
  BY <1>7, <1>8 DEF Execute

\* A step that only takes requests away, and moves neither details nor forms.
LEMMA RemovalLock ==
    ASSUME LockInv, flights' \in SUBSET flights,
           listed' \in [Cases -> Status], modal' \in Cases \cup {None}, unread' \in SUBSET Cases,
           UNCHANGED <<row, open, details, loaded, saw, ahead>>
    PROVE  LockInv'
<1>1. TypeOK' /\ CurrentMeansShown'
  BY DEF LockInv, TypeOK, CurrentMeansShown
<1>2. FlightsAreSound'
  BY DEF LockInv, FlightsAreSound
<1>3. SavesKeepPace'
  BY DEF LockInv, SavesKeepPace, Paced, Fresh
<1>4. QED
  BY <1>1, <1>2, <1>3 DEF LockInv

\* A save that meets another updated_at becomes a conflict.
LEMMA ConflictLock ==
    ASSUME LockInv, NEW r \in flights, Conflict(r)
    PROVE  LockInv'
<1>0. r \in Flight /\ Sound(r)
  BY DEF LockInv, TypeOK, FlightsAreSound
<1>1. PICK x : x = [r EXCEPT !.pc = "conflict"]
  OBVIOUS
<1>2. /\ x \in Flight /\ x.pc = "conflict" /\ x.answer = r.answer
      /\ x.kind = r.kind /\ x.expected = r.expected
  BY <1>0, <1>1 DEF Flight
<1>3. r.kind \in Locked
  BY <1>0 DEF Conflict, LockHolds, Sound
<1>4. Sound(x) /\ Paced(x)'
  BY <1>0, <1>2, <1>3 DEF Sound, Paced, Fresh
<1>5. /\ flights' = (flights \ {r}) \cup {x}
      /\ UNCHANGED <<row, listed, open, details, loaded, modal, saw, ahead, unread>>
  BY <1>1 DEF Conflict
<1>6. ASSUME NEW y \in flights' PROVE y \in Flight /\ Sound(y) /\ Paced(y)'
  BY <1>2, <1>4, <1>5 DEF LockInv, TypeOK, FlightsAreSound, SavesKeepPace, Paced, Fresh
<1>7. flights' \in SUBSET Flight /\ FlightsAreSound' /\ SavesKeepPace'
  BY <1>6, FlightByFlight
<1>8. QED
  BY <1>5, <1>7 DEF LockInv, TypeOK, CurrentMeansShown

\* An answer that fills the form brings what it shows, and parts the saves under
\* way from it.
LEMMA FillFormLock ==
    ASSUME LockInv, NEW r \in flights, FillForm(r)
    PROVE  LockInv'
<1> DEFINE c == r.case
<1>0. /\ c \in Cases /\ r.answer.version \in Versions /\ r.answer.saw \in SUBSET Fields
      /\ r.answer.version = "current" => r.answer.saw = Fields
  BY DEF LockInv, TypeOK, FlightsAreSound, Sound, Flight, Answer
<1>1. /\ details' = [details EXCEPT ![c] = r.answer.version]
      /\ loaded' = [loaded EXCEPT ![c] = TRUE]
      /\ flights' = {Refilled(x, c) : x \in flights \ {r}}
      /\ saw' = [saw EXCEPT ![c] = r.answer.saw]
      /\ ahead' = [ahead EXCEPT ![c] = None]
      /\ unread' = unread \ {c}
      /\ UNCHANGED <<row, listed, open, modal>>
  BY DEF FillForm
<1>2. ASSUME NEW y \in flights' PROVE y \in Flight /\ Sound(y) /\ Paced(y)'
  <2>1. PICK x \in flights : y = Refilled(x, c)
    BY <1>1
  <2>2. x \in Flight /\ Sound(x) /\ Paced(x) /\ x.case \in Cases
    BY DEF LockInv, TypeOK, FlightsAreSound, SavesKeepPace, Flight
  <2>3. CASE x.case = c /\ x.kind \in Saves
    <3>1. y = [x EXCEPT !.crossed = TRUE]
      BY <2>1, <2>3 DEF Refilled
    <3>2. /\ y \in Flight /\ y.crossed = TRUE /\ y.kind = x.kind /\ y.pc = x.pc /\ y.saw = x.saw
          /\ y.origin = x.origin /\ y.expected = x.expected /\ y.answer = x.answer
      BY <2>2, <3>1 DEF Flight
    <3>3. QED
      BY <2>2, <3>2 DEF Sound, Paced
  <2>4. CASE x.kind \notin Saves
    <3>1. y = x
      BY <2>1, <2>4 DEF Refilled
    <3>2. QED
      BY <2>2, <2>4, <3>1 DEF Paced
  <2>5. CASE x.case # c
    <3>1. y = x
      BY <2>1, <2>5 DEF Refilled
    <3>2. /\ loaded'[x.case] = loaded[x.case] /\ ahead'[x.case] = ahead[x.case]
          /\ saw'[x.case] = saw[x.case]
      BY <1>1, <2>2, <2>5 DEF LockInv, TypeOK
    <3>3. QED
      BY <2>2, <3>1, <3>2 DEF Paced, Fresh
  <2>6. QED
    BY <2>3, <2>4, <2>5
<1>3. flights' \in SUBSET Flight /\ FlightsAreSound' /\ SavesKeepPace'
  BY <1>2, FlightByFlight
<1>4. CurrentMeansShown'
  BY <1>0, <1>1 DEF LockInv, TypeOK, CurrentMeansShown
<1>5. TypeOK'
  BY <1>0, <1>1, <1>3 DEF LockInv, TypeOK
<1>6. QED
  BY <1>3, <1>4, <1>5 DEF LockInv

\* The list after the refreshCases of a handler.
LEMMA RefreshType ==
    ASSUME TypeOK, RefreshCases \/ UNCHANGED listed
    PROVE  listed' \in [Cases -> Status]
BY DEF RefreshCases, TypeOK

\* An answer that replaces the detail alone either keeps pace with the form or is
\* known to be ahead of it.
LEMMA ReplaceDetailLock ==
    ASSUME LockInv, NEW r \in flights, ReplaceDetail(r)
    PROVE  LockInv'
<1> DEFINE c == r.case
<1>0. /\ r \in Flight /\ c \in Cases /\ r.answer.version \in Versions
      /\ r.pc = "answered" /\ Paced(r)
  BY DEF LockInv, TypeOK, SavesKeepPace, Flight, Answer, ReplaceDetail
<1>1. /\ details' = [details EXCEPT ![c] = r.answer.version]
      /\ flights' = flights \ {r}
      /\ unread' = unread \ {c}
      /\ UNCHANGED <<row, open, loaded, saw>>
  BY DEF ReplaceDetail
<1>2. \/ KeepsPace(r) /\ ahead' = ahead
      \/ ahead' = [ahead EXCEPT ![c] = "reload"]
      \/ ahead' = [ahead EXCEPT ![c] = "refresh"]
  BY DEF ReplaceDetail
<1>3. listed' \in [Cases -> Status] /\ modal' \in Cases \cup {None}
  BY RefreshType DEF ReplaceDetail, LockInv, TypeOK
<1>4. ahead' \in [Cases -> {None, "reload", "refresh"}]
  BY <1>0, <1>2 DEF LockInv, TypeOK
<1>5. ASSUME NEW d \in Cases, ahead'[d] = None PROVE ahead[d] = None
  BY <1>2, <1>5, CasesAssumption DEF LockInv, TypeOK
<1>6. ASSUME NEW y \in flights' PROVE y \in Flight /\ Sound(y) /\ Paced(y)'
  <2>1. y \in Flight /\ Sound(y) /\ Paced(y) /\ y.case \in Cases
    BY <1>1 DEF LockInv, TypeOK, FlightsAreSound, SavesKeepPace, Flight
  <2>2. QED
    BY <1>1, <1>5, <2>1 DEF Paced, Fresh
<1>7. flights' \in SUBSET Flight /\ FlightsAreSound' /\ SavesKeepPace'
  BY <1>6, FlightByFlight
<1>8. ASSUME NEW d \in Cases, details'[d] = "current", loaded'[d], ahead'[d] = None
      PROVE  saw'[d] = Fields
  <2>1. CASE d # c
    BY <1>0, <1>1, <1>5, <1>8, <2>1 DEF LockInv, TypeOK, CurrentMeansShown
  <2>2. CASE d = c
    <3>1. r.answer.version = "current"
      BY <1>0, <1>1, <1>8, <2>2 DEF LockInv, TypeOK
    <3>2. KeepsPace(r)
      BY <1>0, <1>2, <1>8, <2>2, CasesAssumption DEF LockInv, TypeOK
    <3>3. ahead[c] = None
      BY <1>5, <1>8, <2>2
    <3>4. QED
      BY <1>0, <1>1, <1>8, <2>2, <3>1, <3>2, <3>3 DEF KeepsPace, Paced, Fresh
  <2>3. QED
    BY <2>1, <2>2
<1>9. CurrentMeansShown'
  BY <1>8 DEF CurrentMeansShown
<1>10. TypeOK'
  BY <1>0, <1>1, <1>3, <1>4, <1>7 DEF LockInv, TypeOK
<1>11. QED
  BY <1>7, <1>9, <1>10 DEF LockInv

\* Details that are dropped leave the forms as they are.
LEMMA DropLock ==
    ASSUME LockInv, NEW r \in flights, DropDeleted(r) \/ DropAll(r)
    PROVE  LockInv'
<1>0. r.case \in Cases
  BY DEF LockInv, TypeOK, Flight
<1>1. /\ flights' = flights \ {r} /\ UNCHANGED <<row, loaded, modal, saw, ahead, unread>>
      /\ open' \in SUBSET open
  BY DEF DropDeleted, DropAll
<1>2. listed' \in [Cases -> Status]
  BY RefreshType DEF DropDeleted, DropAll, LockInv
<1>3. details' \in [Cases -> Versions] /\ \A d \in Cases : details'[d] \in {details[d], "none"}
  BY <1>0 DEF DropDeleted, DropAll, LockInv, TypeOK, Versions
<1>4. TypeOK'
  BY <1>1, <1>2, <1>3 DEF LockInv, TypeOK
<1>5. CurrentMeansShown'
  BY <1>1, <1>3 DEF LockInv, CurrentMeansShown
<1>6. FlightsAreSound'
  BY <1>1 DEF LockInv, FlightsAreSound
<1>7. SavesKeepPace'
  BY <1>1 DEF LockInv, SavesKeepPace, Paced, Fresh
<1>8. QED
  BY <1>4, <1>5, <1>6, <1>7 DEF LockInv

\* The screen starts without details and requests.
LEMMA LockInit == Init => LockInv
BY DEF Init, LockInv, TypeOK, CurrentMeansShown, FlightsAreSound, SavesKeepPace, Status, Versions

\* Every step keeps the invariant.
LEMMA LockStep == LockInv /\ [Next]_vars => LockInv'
<1> SUFFICES ASSUME LockInv, [Next]_vars PROVE LockInv'
  OBVIOUS
<1>1. CASE UNCHANGED vars
  BY <1>1, RemovalLock DEF vars, LockInv, TypeOK
<1>2. ASSUME NEW c \in Cases, User(c) PROVE LockInv'
  <2>1. /\ open' \in SUBSET Cases /\ UNCHANGED <<listed, details, loaded, modal>>
        /\ \/ UNCHANGED <<flights, row, saw, ahead, unread>>
           \/ \E kind \in Kinds : Send(kind, c)
    BY <1>2, UserSends DEF LockInv
  <2>2. CASE UNCHANGED <<flights, row, saw, ahead, unread>>
    BY <2>1, <2>2 DEF LockInv, TypeOK, CurrentMeansShown, FlightsAreSound, SavesKeepPace, Paced, Fresh
  <2>3. QED
    BY <2>1, <2>2, SendLock
<1>3. ASSUME NEW c \in Cases, Others(c) PROVE LockInv'
  BY <1>3, OthersLock
<1>4. CASE ReloadConflictedCase
  <2>1. modal \in Cases /\ "reload" \in Kinds /\ open \in SUBSET Cases
    BY <1>4 DEF ReloadConflictedCase, LockInv, TypeOK, Kinds, Reads
  <2>2. QED
    BY <1>4, <2>1, SendLock DEF ReloadConflictedCase
<1>5. CASE CancelConflict
  BY <1>5, RemovalLock DEF CancelConflict, LockInv, TypeOK
<1>6. ASSUME NEW r \in flights, Backend(r) PROVE LockInv'
  BY <1>6, ExecuteLock, ConflictLock DEF Backend
<1>7. ASSUME NEW r \in flights, Fail(r) \/ ShowConflict(r) \/ AppendNote(r) PROVE LockInv'
  <2>1. r.case \in Cases
    BY DEF LockInv, TypeOK, Flight
  <2>2. QED
    BY <1>7, <2>1, RemovalLock DEF Fail, ShowConflict, AppendNote, LockInv, TypeOK
<1>8. ASSUME NEW r \in flights, FillForm(r) \/ ReplaceDetail(r) \/ DropDeleted(r) \/ DropAll(r) PROVE LockInv'
  BY <1>8, FillFormLock, ReplaceDetailLock, DropLock
<1>9. QED
  BY <1>1, <1>2, <1>3, <1>4, <1>5, <1>6, <1>7, <1>8 DEF Next, Answers

\* A current updated_at that a save takes from its form is one whose form has
\* shown what it writes.
LEMMA LockFacts == LockInv => LockProtectsTheForm
<1> SUFFICES ASSUME LockInv, NEW r \in flights, Accepted(r), r.origin = "form"
             PROVE  ~Overwrites(r)
  BY DEF LockProtectsTheForm
<1>1. r.pc = "sent" /\ r.kind \in Locked /\ r.expected \in Versions \ {"old"} /\ Sound(r)
  BY DEF LockInv, TypeOK, Flight, FlightsAreSound, Accepted, LockHolds
<1>2. r.expected = "current"
  BY <1>1 DEF Sound, Versions
<1>3. QED
  BY <1>1, <1>2 DEF Sound, Overwrites

\* The lock invariant holds always.
LEMMA LockInvariant == Spec => []LockInv
BY LockInit, LockStep, PTL DEF Spec

\* The variables keep their types: saving, loading, conflicts and answers in any
\* order leave no card in a state of another kind.
THEOREM TypeCorrect == Spec => []TypeOK
<1>1. LockInv => TypeOK
  BY DEF LockInv
<1>2. QED
  BY <1>1, LockInvariant, PTL

\* The lock of update_case protects what the form has not shown, for any number
\* of cases and requests, not only the copy of updated_at.
THEOREM LockIsSound == Spec => []LockProtectsTheForm
BY LockFacts, LockInvariant, PTL

\* A current copy of updated_at belongs to a form that shows every edit, for any
\* number of cases and requests.
THEOREM CurrentIsShown == Spec => []CurrentMeansShown
<1>1. LockInv => CurrentMeansShown
  BY DEF LockInv
<1>2. QED
  BY <1>1, LockInvariant, PTL

-----------------------------------------------------------------------------
(* Open cards *)

\* An answer that is to bring a detail has it.
AnswersHaveDetail ==
    \A r \in flights : r.pc = "answered" /\ r.kind \notin Ends => r.answer.version # "none"

\* A request that brings the detail of the card.
Loading(c) == Pending("load", c) \/ Pending("peek", c)

\* Requests go on as requests of the same kind for the same case.
GoOn(from, to) == \A r \in from : \E x \in to : x.kind = r.kind /\ x.case = r.case

\* A card for which requests go on is still being loaded.
LEMMA LoadingGoesOn ==
    ASSUME NEW S \in SUBSET flights, GoOn(S, flights'), NEW c,
           \E r \in S : r.kind \in {"load", "peek"} /\ r.case = c
    PROVE  Loading(c)'
BY DEF GoOn, Loading, Pending

\* Sending keeps every request, and a new one of a card that has no detail loads it.
LEMMA SendLoads ==
    ASSUME LockInv, AnswersHaveDetail, OpenCardLoads, NEW kind \in Kinds, NEW c \in Cases, Send(kind, c),
           open' \subseteq open \cup {c}, UNCHANGED details,
           c \in open' => c \in open \/ HasDetail(c) \/ kind \in {"load", "peek"}
    PROVE  AnswersHaveDetail' /\ OpenCardLoads'
<1>1. PICK x : x = Request(kind, c)
  OBVIOUS
<1>2. x.kind = kind /\ x.case = c /\ x.pc = "sent"
  BY <1>1, RequestFlight DEF LockInv
<1>3. flights' = flights \cup {x} /\ unread' = unread
  BY <1>1 DEF Send
<1>4. AnswersHaveDetail'
  BY <1>2, <1>3 DEF AnswersHaveDetail
<1>5. OpenCardLoads'
  BY <1>2, <1>3 DEF OpenCardLoads, HasDetail, Pending
<1>6. QED
  BY <1>4, <1>5

\* What is left of the requests after one answer, which brought no detail, was
\* delivered.
LEMMA DeliveredLoads ==
    ASSUME AnswersHaveDetail, OpenCardLoads, NEW r \in flights, flights' = flights \ {r},
           open' \subseteq open, unread \subseteq unread',
           \A c \in open' : HasDetail(c) => HasDetail(c)',
           r.kind \in {"load", "peek"} => r.case \in unread'
    PROVE  AnswersHaveDetail' /\ OpenCardLoads'
<1>1. AnswersHaveDetail'
  BY DEF AnswersHaveDetail
<1>2. ASSUME NEW c \in open' PROVE HasDetail(c)' \/ Pending("load", c)' \/ Pending("peek", c)' \/ c \in unread'
  BY DEF OpenCardLoads, Pending
<1>3. QED
  BY <1>1, <1>2 DEF OpenCardLoads

\* The handlers of a card open it only with its detail or a request for it.
LEMMA UserLoads ==
    ASSUME LockInv, AnswersHaveDetail, OpenCardLoads, NEW c \in Cases, User(c)
    PROVE  AnswersHaveDetail' /\ OpenCardLoads'
<1>0. "load" \in Kinds /\ "peek" \in Kinds
  BY DEF Kinds, Reads
<1>1. CASE ToggleCase(c) \/ OpenFromLink(c)
  <2>1. open' \subseteq open \cup {c} /\ UNCHANGED details
    BY <1>1 DEF ToggleCase, OpenFromLink
  <2>2. CASE HasDetail(c)
    <3>1. UNCHANGED <<flights, unread>>
      BY <1>1, <2>2 DEF ToggleCase, OpenFromLink
    <3>2. QED
      BY <2>1, <2>2, <3>1 DEF AnswersHaveDetail, OpenCardLoads, HasDetail, Pending
  <2>3. CASE ~HasDetail(c)
    BY <1>0, <1>1, <2>1, <2>3, SendLoads DEF ToggleCase, OpenFromLink
  <2>4. QED
    BY <2>2, <2>3
<1>2. CASE ResumeMailboxSearch(c)
  BY <1>0, <1>2, SendLoads DEF ResumeMailboxSearch
<1>3. CASE UNCHANGED open
  <2>1. UNCHANGED details /\ (UNCHANGED <<flights, unread>> \/ \E kind \in Kinds : Send(kind, c))
    BY UserSends DEF LockInv
  <2>2. QED
    BY <1>3, <2>1, SendLoads DEF AnswersHaveDetail, OpenCardLoads, HasDetail, Pending
<1>4. UNCHANGED open \/ ToggleCase(c) \/ OpenFromLink(c) \/ ResumeMailboxSearch(c)
  BY DEF User, SaveOutcome, SaveFollowUp, SaveAiSummary, CloseCase, ReopenCase, ReopenWithNewMessages,
         RefreshCorrelation, AddMessage, RemoveMessage, BulkExclude, ReassignOwner, AddNote,
         RetraceAttachments, ValidateEvent, Analyze, PollAiAnalysis, DeleteCase, ClearCases
<1>5. QED
  BY <1>1, <1>2, <1>3, <1>4

\* A write, of others or of a request, ages details and requests and ends neither.
LEMMA WritesLoad ==
    ASSUME LockInv, AnswersHaveDetail, OpenCardLoads, UNCHANGED <<open, unread>>,
           \A c \in Cases : HasDetail(c) => HasDetail(c)',
           GoOn(flights, flights'),
           \A x \in flights' : x.pc = "answered" /\ x.kind \notin Ends => x.answer.version # "none"
    PROVE  AnswersHaveDetail' /\ OpenCardLoads'
<1>1. AnswersHaveDetail'
  BY DEF AnswersHaveDetail
<1>2. open \subseteq Cases
  BY DEF LockInv, TypeOK
<1>3. ASSUME NEW c \in open, Pending("load", c) \/ Pending("peek", c) PROVE Pending("load", c)' \/ Pending("peek", c)'
  BY <1>3 DEF GoOn, Pending
<1>4. OpenCardLoads'
  BY <1>2, <1>3 DEF OpenCardLoads
<1>5. QED
  BY <1>1, <1>4

\* A detail that others make old is still one.
LEMMA OldDetailStays ==
    ASSUME LockInv, NEW c \in Cases, details' \in {details, OldDetail(c)}
    PROVE  \A d \in Cases : HasDetail(d) => HasDetail(d)'
BY DEF LockInv, TypeOK, OldDetail, Aged, HasDetail

\* The writes of other users.
LEMMA OthersLoad ==
    ASSUME LockInv, AnswersHaveDetail, OpenCardLoads, NEW c \in Cases, Others(c)
    PROVE  AnswersHaveDetail' /\ OpenCardLoads'
<1>1. PICK F \in SUBSET Fields :
        flights' = {Overtaken(r, c, F) : r \in flights} /\ details' = OldDetail(c) /\ UNCHANGED <<open, unread>>
  <2>1. CASE OtherUserEdits(c)
    <3>1. PICK f \in Fields : flights' = {Overtaken(r, c, {f}) : r \in flights}
      BY <2>1 DEF OtherUserEdits
    <3>2. {f} \in SUBSET Fields
      OBVIOUS
    <3>3. QED
      BY <2>1, <3>1, <3>2 DEF OtherUserEdits
  <2>2. CASE OtherUserSetsStatus(c)
    BY <2>2 DEF OtherUserSetsStatus
  <2>3. QED
    BY <2>1, <2>2 DEF Others
<1>2. flights \subseteq Flight
  BY DEF LockInv, TypeOK
<1>3. GoOn(flights, flights')
  <2>1. ASSUME NEW r \in flights PROVE \E x \in flights' : x.kind = r.kind /\ x.case = r.case
    BY <1>1, <1>2, OvertakenFlight
  <2>2. QED
    BY <2>1 DEF GoOn
<1>4. ASSUME NEW x \in flights', x.pc = "answered", x.kind \notin Ends PROVE x.answer.version # "none"
  <2>1. PICK r \in flights : x = Overtaken(r, c, F)
    BY <1>1
  <2>2. x.pc = r.pc /\ x.kind = r.kind /\ x.answer.version \in {r.answer.version, "old"}
    BY <1>2, <2>1, OvertakenFlight
  <2>3. QED
    BY <1>4, <2>2 DEF AnswersHaveDetail
<1>5. QED
  BY <1>1, <1>3, <1>4, OldDetailStays, WritesLoad

\* The backend answers or refuses, and nothing is forgotten.
LEMMA BackendLoads ==
    ASSUME LockInv, AnswersHaveDetail, OpenCardLoads, NEW r \in flights, Backend(r)
    PROVE  AnswersHaveDetail' /\ OpenCardLoads'
<1>0. r \in Flight /\ r.case \in Cases /\ flights \subseteq Flight
  BY DEF LockInv, TypeOK, Flight
<1>1. PICK a : a = Answered(r)
  OBVIOUS
<1>2. a.kind = r.kind /\ a.case = r.case /\ (r.kind \notin Ends => a.answer.version # "none")
  BY <1>0, <1>1, AnsweredFlight
<1>3. CASE /\ Execute(r) /\ details' = OldDetail(r.case)
           /\ flights' = {a} \cup {Overtaken(x, r.case, {}) : x \in flights \ {r}}
  <2>1. ASSUME NEW y \in flights PROVE \E x \in flights' : x.kind = y.kind /\ x.case = y.case
    BY <1>0, <1>2, <1>3, OvertakenFlight
  <2>2. ASSUME NEW y \in flights', y.pc = "answered", y.kind \notin Ends PROVE y.answer.version # "none"
    <3>1. ASSUME NEW x \in flights, y = Overtaken(x, r.case, {}) PROVE y.answer.version # "none"
      <4>1. y.pc = x.pc /\ y.kind = x.kind /\ y.answer.version \in {x.answer.version, "old"}
        BY <1>0, <3>1, OvertakenFlight
      <4>2. QED
        BY <2>2, <4>1 DEF AnswersHaveDetail
    <3>2. QED
      BY <1>2, <1>3, <2>2, <3>1
  <2>3. GoOn(flights, flights') /\ UNCHANGED <<open, unread>>
    BY <1>3, <2>1 DEF GoOn, Execute
  <2>4. QED
    BY <1>0, <1>3, <2>2, <2>3, OldDetailStays, WritesLoad
<1>4. CASE Execute(r) /\ UNCHANGED details /\ flights' = {a} \cup (flights \ {r})
  <2>1. GoOn(flights, flights') /\ UNCHANGED <<open, unread>>
    BY <1>2, <1>4 DEF GoOn, Execute
  <2>2. ASSUME NEW y \in flights', y.pc = "answered", y.kind \notin Ends PROVE y.answer.version # "none"
    BY <1>2, <1>4, <2>2 DEF AnswersHaveDetail
  <2>3. QED
    BY <1>0, <1>4, <2>1, <2>2, OldDetailStays, WritesLoad
<1>5. CASE Conflict(r)
  <2>1. PICK x : x = [r EXCEPT !.pc = "conflict"]
    OBVIOUS
  <2>2. x.kind = r.kind /\ x.case = r.case /\ x.pc = "conflict"
    BY <1>0, <2>1 DEF Flight
  <2>3. flights' = (flights \ {r}) \cup {x} /\ UNCHANGED <<open, unread, details>>
    BY <1>5, <2>1 DEF Conflict
  <2>4. GoOn(flights, flights')
    BY <2>2, <2>3 DEF GoOn
  <2>5. QED
    BY <1>0, <2>2, <2>3, <2>4, OldDetailStays, WritesLoad DEF AnswersHaveDetail
<1>6. Execute(r) \/ Conflict(r)
  BY DEF Backend
<1>7. QED
  BY <1>1, <1>3, <1>4, <1>5, <1>6 DEF Execute

\* An answer with a detail puts it in the card.
LEMMA FillFormLoads ==
    ASSUME LockInv, AnswersHaveDetail, OpenCardLoads, NEW r \in flights, FillForm(r)
    PROVE  AnswersHaveDetail' /\ OpenCardLoads'
<1>0. r.case \in Cases /\ r.answer.version # "none" /\ flights \subseteq Flight /\ open \subseteq Cases
  BY DEF LockInv, TypeOK, Flight, AnswersHaveDetail, Ends, FillForm
<1>1. /\ details' = [details EXCEPT ![r.case] = r.answer.version]
      /\ flights' = {Refilled(x, r.case) : x \in flights \ {r}}
      /\ unread' = unread \ {r.case} /\ open' = open
  BY DEF FillForm
<1>2. ASSUME NEW x \in flights
      PROVE  LET y == Refilled(x, r.case)
             IN  y.kind = x.kind /\ y.case = x.case /\ y.pc = x.pc /\ y.answer = x.answer
  BY <1>0 DEF Refilled, Flight
<1>3. AnswersHaveDetail'
  BY <1>1, <1>2 DEF AnswersHaveDetail
<1>4. ASSUME NEW c \in open' PROVE HasDetail(c)' \/ Pending("load", c)' \/ Pending("peek", c)' \/ c \in unread'
  <2>1. CASE c = r.case
    BY <1>0, <1>1, <2>1 DEF HasDetail, LockInv, TypeOK
  <2>2. CASE c # r.case
    <3>1. HasDetail(c) => HasDetail(c)'
      BY <1>0, <1>1, <2>2 DEF HasDetail, LockInv, TypeOK
    <3>2. ASSUME NEW kind, Pending(kind, c) PROVE Pending(kind, c)'
      BY <1>1, <1>2, <2>2, <3>2 DEF Pending
    <3>3. QED
      BY <1>1, <2>2, <3>1, <3>2 DEF OpenCardLoads
  <2>3. QED
    BY <2>1, <2>2
<1>5. QED
  BY <1>3, <1>4 DEF OpenCardLoads

\* So does one that replaces the detail alone.
LEMMA ReplaceDetailLoads ==
    ASSUME LockInv, AnswersHaveDetail, OpenCardLoads, NEW r \in flights, ReplaceDetail(r)
    PROVE  AnswersHaveDetail' /\ OpenCardLoads'
<1>0. r.case \in Cases /\ r.answer.version # "none" /\ open \subseteq Cases
  BY DEF LockInv, TypeOK, Flight, AnswersHaveDetail, ReplaceDetail
<1>1. /\ details' = [details EXCEPT ![r.case] = r.answer.version]
      /\ flights' = flights \ {r} /\ unread' = unread \ {r.case} /\ open' = open
  BY DEF ReplaceDetail
<1>2. AnswersHaveDetail'
  BY <1>1 DEF AnswersHaveDetail
<1>3. ASSUME NEW c \in open' PROVE HasDetail(c)' \/ Pending("load", c)' \/ Pending("peek", c)' \/ c \in unread'
  <2>1. CASE c = r.case
    BY <1>0, <1>1, <2>1 DEF HasDetail, LockInv, TypeOK
  <2>2. CASE c # r.case
    BY <1>0, <1>1, <2>2 DEF OpenCardLoads, HasDetail, Pending, LockInv, TypeOK
  <2>3. QED
    BY <2>1, <2>2
<1>4. QED
  BY <1>2, <1>3 DEF OpenCardLoads

\* Every step keeps the cards loading.
LEMMA LoadStep ==
    LockInv /\ AnswersHaveDetail /\ OpenCardLoads /\ [Next]_vars => AnswersHaveDetail' /\ OpenCardLoads'
<1> SUFFICES ASSUME LockInv, AnswersHaveDetail, OpenCardLoads, [Next]_vars
             PROVE  AnswersHaveDetail' /\ OpenCardLoads'
  OBVIOUS
<1>1. CASE UNCHANGED vars
  BY <1>1 DEF vars, AnswersHaveDetail, OpenCardLoads, HasDetail, Pending
<1>2. ASSUME NEW c \in Cases, User(c) \/ Others(c) PROVE AnswersHaveDetail' /\ OpenCardLoads'
  BY <1>2, UserLoads, OthersLoad
<1>3. CASE ReloadConflictedCase
  <2>1. modal \in Cases /\ "reload" \in Kinds
    BY <1>3 DEF ReloadConflictedCase, LockInv, TypeOK, Kinds, Reads
  <2>2. QED
    BY <1>3, <2>1, SendLoads DEF ReloadConflictedCase
<1>4. CASE CancelConflict
  BY <1>4 DEF CancelConflict, AnswersHaveDetail, OpenCardLoads, HasDetail, Pending
<1>5. ASSUME NEW r \in flights, Backend(r) PROVE AnswersHaveDetail' /\ OpenCardLoads'
  BY <1>5, BackendLoads
<1>6. ASSUME NEW r \in flights, Fail(r) PROVE AnswersHaveDetail' /\ OpenCardLoads'
  <2>1. r.kind \in {"load", "peek"} => r.case \in unread'
    BY <1>6 DEF Fail
  <2>2. flights' = flights \ {r} /\ UNCHANGED <<open, details>> /\ unread \subseteq unread'
    BY <1>6 DEF Fail
  <2>3. QED
    BY <2>1, <2>2, DeliveredLoads DEF HasDetail
<1>7. ASSUME NEW r \in flights, ShowConflict(r) PROVE AnswersHaveDetail' /\ OpenCardLoads'
  <2>1. r.kind \in Locked
    BY <1>7 DEF LockInv, FlightsAreSound, Sound, ShowConflict
  <2>2. r.kind \notin {"load", "peek"}
    BY <2>1 DEF Locked
  <2>3. flights' = flights \ {r} /\ UNCHANGED <<open, details, unread>>
    BY <1>7 DEF ShowConflict
  <2>4. QED
    BY <2>2, <2>3, DeliveredLoads DEF HasDetail
<1>8. ASSUME NEW r \in flights, FillForm(r) \/ ReplaceDetail(r) PROVE AnswersHaveDetail' /\ OpenCardLoads'
  BY <1>8, FillFormLoads, ReplaceDetailLoads
<1>9. ASSUME NEW r \in flights, AppendNote(r) \/ DropDeleted(r) \/ DropAll(r)
      PROVE  AnswersHaveDetail' /\ OpenCardLoads'
  <2>1. r.kind \notin {"load", "peek"} /\ flights' = flights \ {r} /\ unread' = unread /\ r.case \in Cases
    BY <1>9 DEF AppendNote, DropDeleted, DropAll, LockInv, TypeOK, Flight
  <2>2. open' \subseteq open /\ \A c \in open' : HasDetail(c) => HasDetail(c)'
    BY <1>9, <2>1 DEF AppendNote, DropDeleted, DropAll, HasDetail, LockInv, TypeOK
  <2>3. QED
    BY <2>1, <2>2, DeliveredLoads
<1>10. QED
  BY <1>1, <1>2, <1>3, <1>4, <1>5, <1>6, <1>7, <1>8, <1>9 DEF Next, Answers

\* An open card has its detail, or a request that brings it, or one that failed,
\* for any number of cases and requests.
THEOREM OpenCardsLoad == Spec => []OpenCardLoads
<1>1. Init => AnswersHaveDetail /\ OpenCardLoads
  BY DEF Init, AnswersHaveDetail, OpenCardLoads
<1>2. QED
  BY <1>1, LoadStep, LockInvariant, PTL DEF Spec
=============================================================================
