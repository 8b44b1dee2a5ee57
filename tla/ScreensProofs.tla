----------------------------- MODULE ScreensProofs -----------------------------
(***************************************************************************)
(* TLAPS proofs about MCScreens for every value of its constants: what     *)
(* DialogProofs and ScreenPartsProofs prove of each component holds of the *)
(* instance that TLC explores, in which the same variables stand for those *)
(* of the component explored.                                              *)
(***************************************************************************)
EXTENDS MCScreens, TLAPS

Parts == INSTANCE ScreenPartsProofs WITH
    askCaseTarget <- x1, history <- x2, storage <- x3, asking <- x4, inFlight <- x5, asked <- x6,
    kept <- x7, over <- x8, mixed <- x9, mail <- x1, form <- x2, suggestion <- x3, preview <- x4,
    pdf <- x5, report <- x6, fields <- x7, mailCalls <- x8, chips <- x1, drag <- x2, wanted <- x3,
    formOpen <- x1, editingId <- x2, type <- x3, dirty <- x4, fetchedModels <- x5, fetching <- x6,
    saving <- x7, fetches <- x8, saves <- x9, formTarget <- x10, deleteImpact <- x11,
    loadingImpact <- x12, deleting <- x13, impacts <- x14, deletes <- x15, rows <- x16,
    lost <- x17, crossed <- x18, born <- x1, listDb <- x2, cases <- x3, selectedCaseIds <- x4,
    mergeModalOpen <- x5, listTarget <- x6, listClearOpen <- x7, listCalls <- x8, listGets <- x9,
    ghosts <- x10, listBehind <- x11, status <- x1, mounted <- x2, jobs <- x3, prevStatuses <- x4,
    queueGets <- x5, queueCalls <- x6, retryingId <- x7, cancelingId <- x8, deletingJob <- x9,
    clearing <- x10, queueTarget <- x11, queueClearOpen <- x12, todo <- x13, stray <- x14,
    owed <- x15, announced <- x16, again <- x17, index <- x1, filters <- x2, messages <- x3,
    total <- x4, pages <- x5, loading <- x6, loadingMore <- x7, expandedId <- x8, detail <- x9,
    details <- x10, clears <- x11, searched <- x12, skewed <- x13, settingList <- x1,
    settingDb <- x2, shown <- x3, settingCalls <- x4, loads <- x5, settingBehind <- x6

screenVars == <<which, x1, x2, x3, From4>>

-----------------------------------------------------------------------------

\* While AskCase is explored, every step is one of it; and no step goes from or
\* to another component.
LEMMA AskAlone ==
    /\ Init /\ which = "ask" => Parts!Ask!Init
    /\ [Next]_screenVars /\ which = "ask" => [Parts!Ask!Next]_(Parts!Ask!askVars) /\ which' = "ask"
    /\ [Next]_screenVars /\ which # "ask" => which' # "ask"
<1>1. Ask!Init => Parts!Ask!Init
  BY DEF Ask!Init, Parts!Ask!Init
<1>2. Ask!Next => Parts!Ask!Next
  BY DEF Ask!Next, Parts!Ask!Next, Ask!Answer, Parts!Ask!Answer, Ask!CloseDialog,
     Parts!Ask!CloseDialog, Ask!HandleClearHistory, Parts!Ask!HandleClearHistory, Ask!HandleSend,
     Parts!Ask!HandleSend, Ask!OpenDialog, Parts!Ask!OpenDialog, Ask!Unmount, Parts!Ask!Unmount,
     Ask!Answered, Parts!Ask!Answered, Ask!LoadHistory, Parts!Ask!LoadHistory
<1>3. ASSUME [Next]_screenVars, which = "ask"
      PROVE  [Parts!Ask!Next]_(Parts!Ask!askVars) /\ which' = "ask"
  BY <1>2, <1>3 DEF Next, screenVars, From4, From7, From9, From10, From12, From14, From18,
     Parts!Ask!askVars
<1>4. [Next]_screenVars /\ which # "ask" => which' # "ask"
  BY DEF Next, screenVars
<1>5. QED
  BY <1>1, <1>3, <1>4 DEF Init

\* The types of AskCase.
LEMMA AskTypesHold == Spec => [](which = "ask" => Ask!TypeOK)
<1> DEFINE shown == which = "ask"
<1>1. Init /\ shown => Parts!Ask!Init
  BY AskAlone
<1>2. [Next]_screenVars /\ shown => [Parts!Ask!Next]_(Parts!Ask!askVars) /\ shown'
  BY AskAlone
<1>3. [Next]_screenVars /\ ~shown => ~shown'
  BY AskAlone
<1>4. Parts!Ask!Spec => []Parts!Ask!TypeOK
  BY ScreensAssumption, Parts!AskTypes DEF ScreensAssumption, Ask!CasesAssumption,
     Parts!Ask!CasesAssumption, Ask!QuestionsAssumption,
     Parts!Ask!QuestionsAssumption
<1>5. (shown => Parts!Ask!TypeOK) => (shown => Ask!TypeOK)
  BY DEF Ask!TypeOK, Parts!Ask!TypeOK, Ask!Conversations, Parts!Ask!Conversations, Ask!Questions,
     Parts!Ask!Questions, Ask!Turn, Parts!Ask!Turn
<1> HIDE DEF shown
<1>6. Spec => [](shown => Ask!TypeOK)
  BY <1>1, <1>2, <1>3, <1>4, <1>5, PTL DEF Spec, Parts!Ask!Spec, screenVars
<1>7. QED
  BY <1>6 DEF shown

\* "Pensando..." is only shown while an answer is on its way to the mounted dialog.
THEOREM NoThinkingForEver == Spec => []ThinkingEnds
<1> DEFINE shown == which = "ask"
<1>1. Init /\ shown => Parts!Ask!Init
  BY AskAlone
<1>2. [Next]_screenVars /\ shown => [Parts!Ask!Next]_(Parts!Ask!askVars) /\ shown'
  BY AskAlone
<1>3. [Next]_screenVars /\ ~shown => ~shown'
  BY AskAlone
<1>4. Parts!Ask!Spec => []Parts!Ask!ThinkingEnds
  BY ScreensAssumption, Parts!ThinkingComesToAnEnd DEF ScreensAssumption, Ask!CasesAssumption,
     Parts!Ask!CasesAssumption, Ask!QuestionsAssumption,
     Parts!Ask!QuestionsAssumption
<1>5. (shown => Parts!Ask!ThinkingEnds) => ThinkingEnds
  BY DEF ThinkingEnds, Ask!ThinkingEnds, Parts!Ask!ThinkingEnds, Ask!Last, Parts!Ask!Last
<1> HIDE DEF shown
<1>6. QED
  BY <1>1, <1>2, <1>3, <1>4, <1>5, PTL DEF Spec, Parts!Ask!Spec, screenVars

\* The conversation kept of a case is of that case, unless a late answer brought
\* another one to the screen and the user went on there.
THEOREM ConversationsOfTheirCase == Spec => []ConversationsStayApart
<1> DEFINE shown == which = "ask"
<1>1. Init /\ shown => Parts!Ask!Init
  BY AskAlone
<1>2. [Next]_screenVars /\ shown => [Parts!Ask!Next]_(Parts!Ask!askVars) /\ shown'
  BY AskAlone
<1>3. [Next]_screenVars /\ ~shown => ~shown'
  BY AskAlone
<1>4. Parts!Ask!Spec => []Parts!Ask!ConversationsStayApart
  BY ScreensAssumption, Parts!ConversationsAreApart DEF ScreensAssumption, Ask!CasesAssumption,
     Parts!Ask!CasesAssumption, Ask!QuestionsAssumption,
     Parts!Ask!QuestionsAssumption
<1>5. (shown => Parts!Ask!ConversationsStayApart) => ConversationsStayApart
  BY DEF ConversationsStayApart, Ask!ConversationsStayApart, Parts!Ask!ConversationsStayApart
<1> HIDE DEF shown
<1>6. QED
  BY <1>1, <1>2, <1>3, <1>4, <1>5, PTL DEF Spec, Parts!Ask!Spec, screenVars

-----------------------------------------------------------------------------

\* While MailDialog is explored, every step is one of it; and no step goes from or
\* to another component.
LEMMA MailAlone ==
    /\ Init /\ which = "mail" => Parts!Mail!Init
    /\ [Next]_screenVars /\ which = "mail" => [Parts!Mail!Next]_(Parts!Mail!mailVars) /\ which' = "mail"
    /\ [Next]_screenVars /\ which # "mail" => which' # "mail"
<1>1. Mail!Init => Parts!Mail!Init
  BY DEF Mail!Init, Parts!Mail!Init, Mail!Idle, Parts!Mail!Idle, Mail!Kinds, Parts!Mail!Kinds
<1>2. Mail!Next => Parts!Mail!Next
  BY DEF Mail!Next, Parts!Mail!Next, Mail!AcceptSuggestion, Parts!Mail!AcceptSuggestion,
     Mail!CloseMail, Parts!Mail!CloseMail, Mail!ClosePreview, Parts!Mail!ClosePreview,
     Mail!CloseReport, Parts!Mail!CloseReport, Mail!EmailSent, Parts!Mail!EmailSent, Mail!Fail,
     Parts!Mail!Fail, Mail!GenerateReport, Parts!Mail!GenerateReport, Mail!Kinds, Parts!Mail!Kinds,
     Mail!OpenCasePdf, Parts!Mail!OpenCasePdf, Mail!OpenMail, Parts!Mail!OpenMail, Mail!OpenReport,
     Parts!Mail!OpenReport, Mail!PdfReady, Parts!Mail!PdfReady, Mail!PreviewEmail,
     Parts!Mail!PreviewEmail, Mail!Previewed, Parts!Mail!Previewed, Mail!RejectSuggestion,
     Parts!Mail!RejectSuggestion, Mail!ReportRendered, Parts!Mail!ReportRendered,
     Mail!SelectReportTemplate, Parts!Mail!SelectReportTemplate, Mail!SendEmail,
     Parts!Mail!SendEmail, Mail!SummarizeBody, Parts!Mail!SummarizeBody, Mail!Summarized,
     Parts!Mail!Summarized, Mail!reportVars, Parts!Mail!reportVars, Mail!Busy, Parts!Mail!Busy,
     Mail!dialogVars, Parts!Mail!dialogVars, Mail!Done, Parts!Mail!Done, Mail!LeaveBehind,
     Parts!Mail!LeaveBehind, Mail!Ask, Parts!Mail!Ask, Mail!Own, Parts!Mail!Own, Mail!Arrived,
     Parts!Mail!Arrived, Mail!Idle, Parts!Mail!Idle, Mail!Strayed, Parts!Mail!Strayed,
     Mail!InFlight, Parts!Mail!InFlight, Mail!Cardinality, Parts!Mail!Cardinality
<1>3. ASSUME [Next]_screenVars, which = "mail"
      PROVE  [Parts!Mail!Next]_(Parts!Mail!mailVars) /\ which' = "mail"
  BY <1>2, <1>3 DEF Next, screenVars, From4, From7, From9, From10, From12, From14, From18,
     Parts!Mail!mailVars, Parts!Mail!dialogVars, Parts!Mail!reportVars
<1>4. [Next]_screenVars /\ which # "mail" => which' # "mail"
  BY DEF Next, screenVars
<1>5. QED
  BY <1>1, <1>3, <1>4 DEF Init

\* The types of MailDialog.
LEMMA MailTypesHold == Spec => [](which = "mail" => Mail!TypeOK)
<1> DEFINE shown == which = "mail"
<1>1. Init /\ shown => Parts!Mail!Init
  BY MailAlone
<1>2. [Next]_screenVars /\ shown => [Parts!Mail!Next]_(Parts!Mail!mailVars) /\ shown'
  BY MailAlone
<1>3. [Next]_screenVars /\ ~shown => ~shown'
  BY MailAlone
<1>4. Parts!Mail!Spec => []Parts!Mail!TypeOK
  BY ScreensAssumption, Parts!MailTypes DEF ScreensAssumption, Mail!CasesAssumption,
     Parts!Mail!CasesAssumption
<1>5. (shown => Parts!Mail!TypeOK) => (shown => Mail!TypeOK)
  BY DEF Mail!TypeOK, Parts!Mail!TypeOK, Mail!Calls, Parts!Mail!Calls, Mail!Idle, Parts!Mail!Idle,
     Mail!Kinds, Parts!Mail!Kinds, Mail!Pieces, Parts!Mail!Pieces, Mail!Targets,
     Parts!Mail!Targets, Mail!Piece, Parts!Mail!Piece
<1> HIDE DEF shown
<1>6. Spec => [](shown => Mail!TypeOK)
  BY <1>1, <1>2, <1>3, <1>4, <1>5, PTL DEF Spec, Parts!Mail!Spec, screenVars
<1>7. QED
  BY <1>6 DEF shown

\* No mail or report mixes two cases: a dialog, what it sends and what it saves are
\* of the case it was opened for, however late the answers come.
THEOREM MailOfItsCase == Spec => []CasesStayApart
<1> DEFINE shown == which = "mail"
<1>1. Init /\ shown => Parts!Mail!Init
  BY MailAlone
<1>2. [Next]_screenVars /\ shown => [Parts!Mail!Next]_(Parts!Mail!mailVars) /\ shown'
  BY MailAlone
<1>3. [Next]_screenVars /\ ~shown => ~shown'
  BY MailAlone
<1>4. Parts!Mail!Spec => []Parts!Mail!CasesStayApart
  BY ScreensAssumption, Parts!DialogsKeepCasesApart DEF ScreensAssumption, Mail!CasesAssumption,
     Parts!Mail!CasesAssumption
<1>5. (shown => Parts!Mail!CasesStayApart) => CasesStayApart
  BY DEF CasesStayApart, Mail!CasesStayApart, Parts!Mail!CasesStayApart, Mail!Busy,
     Parts!Mail!Busy, Mail!OfCase,
     Parts!Mail!OfCase, Mail!Idle, Parts!Mail!Idle
<1> HIDE DEF shown
<1>6. QED
  BY <1>1, <1>2, <1>3, <1>4, <1>5, PTL DEF Spec, Parts!Mail!Spec, screenVars

-----------------------------------------------------------------------------

\* While RecipientInput is explored, every step is one of it; and no step goes from or
\* to another component.
LEMMA ChipsAlone ==
    /\ Init /\ which = "chips" => Parts!Chips!Init
    /\ [Next]_screenVars /\ which = "chips" => [Parts!Chips!Next]_(Parts!Chips!chipVars) /\ which' = "chips"
    /\ [Next]_screenVars /\ which # "chips" => which' # "chips"
<1>1. Chips!Init => Parts!Chips!Init
  BY DEF Chips!Init, Parts!Chips!Init, Chips!Fields, Parts!Chips!Fields, Chips!IsInjective,
     Parts!Chips!IsInjective, Chips!NoDrag, Parts!Chips!NoDrag, Chips!PeopleOf,
     Parts!Chips!PeopleOf, Chips!Values, Parts!Chips!Values, Chips!Addresses, Parts!Chips!Addresses
<1>2. Chips!Next => Parts!Chips!Next
  BY DEF Chips!Next, Parts!Chips!Next, Chips!Addresses, Parts!Chips!Addresses, Chips!ChipDragEnd,
     Parts!Chips!ChipDragEnd, Chips!ChipDragStart, Parts!Chips!ChipDragStart, Chips!Drop,
     Parts!Chips!Drop, Chips!DropOnItself, Parts!Chips!DropOnItself, Chips!Fields,
     Parts!Chips!Fields, Chips!Paste, Parts!Chips!Paste, Chips!Pasted, Parts!Chips!Pasted,
     Chips!RemoveChip, Parts!Chips!RemoveChip, Chips!Type, Parts!Chips!Type, Chips!NoDrag,
     Parts!Chips!NoDrag, Chips!Without, Parts!Chips!Without, Chips!Dropping, Parts!Chips!Dropping,
     Chips!Fits, Parts!Chips!Fits, Chips!Inserted, Parts!Chips!Inserted, Chips!PeopleOf,
     Parts!Chips!PeopleOf, Chips!Merged, Parts!Chips!Merged, Chips!AddChip, Parts!Chips!AddChip,
     Chips!IndexOf, Parts!Chips!IndexOf, Chips!InsertAt, Parts!Chips!InsertAt, Chips!SelectInSeq,
     Parts!Chips!SelectInSeq, Chips!Min, Parts!Chips!Min
<1>3. ASSUME [Next]_screenVars, which = "chips"
      PROVE  [Parts!Chips!Next]_(Parts!Chips!chipVars) /\ which' = "chips"
  BY <1>2, <1>3 DEF Next, screenVars, From4, From7, From9, From10, From12, From14, From18,
     Parts!Chips!chipVars
<1>4. [Next]_screenVars /\ which # "chips" => which' # "chips"
  BY DEF Next, screenVars
<1>5. QED
  BY <1>1, <1>3, <1>4 DEF Init

\* The types of RecipientInput.
LEMMA ChipsTypesHold == Spec => [](which = "chips" => Chips!TypeOK)
<1> DEFINE shown == which = "chips"
<1>1. Init /\ shown => Parts!Chips!Init
  BY ChipsAlone
<1>2. [Next]_screenVars /\ shown => [Parts!Chips!Next]_(Parts!Chips!chipVars) /\ shown'
  BY ChipsAlone
<1>3. [Next]_screenVars /\ ~shown => ~shown'
  BY ChipsAlone
<1>4. Parts!Chips!Spec => []Parts!Chips!TypeOK
  BY ScreensAssumption, Parts!ChipsTypes DEF ScreensAssumption, Chips!ChipsAssumption,
     Parts!Chips!ChipsAssumption
<1>5. (shown => Parts!Chips!TypeOK) => (shown => Chips!TypeOK)
  BY DEF Chips!TypeOK, Parts!Chips!TypeOK, Chips!Drags, Parts!Chips!Drags, Chips!Fields,
     Parts!Chips!Fields, Chips!NoDrag, Parts!Chips!NoDrag, Chips!Values, Parts!Chips!Values,
     Chips!Addresses, Parts!Chips!Addresses
<1> HIDE DEF shown
<1>6. Spec => [](shown => Chips!TypeOK)
  BY <1>1, <1>2, <1>3, <1>4, <1>5, PTL DEF Spec, Parts!Chips!Spec, screenVars
<1>7. QED
  BY <1>6 DEF shown

\* Whoever was put in a field of recipients is in one of them until taken out.
THEOREM NoRecipientLost == Spec => []RecipientsAreKept
<1> DEFINE shown == which = "chips"
<1>1. Init /\ shown => Parts!Chips!Init
  BY ChipsAlone
<1>2. [Next]_screenVars /\ shown => [Parts!Chips!Next]_(Parts!Chips!chipVars) /\ shown'
  BY ChipsAlone
<1>3. [Next]_screenVars /\ ~shown => ~shown'
  BY ChipsAlone
<1>4. Parts!Chips!Spec => []Parts!Chips!RecipientsAreKept
  BY ScreensAssumption, Parts!RecipientsStay DEF ScreensAssumption, Chips!ChipsAssumption,
     Parts!Chips!ChipsAssumption
<1>5. (shown => Parts!Chips!RecipientsAreKept) => RecipientsAreKept
  BY DEF RecipientsAreKept, Chips!RecipientsAreKept, Parts!Chips!RecipientsAreKept,
     Chips!PeopleOf, Parts!Chips!PeopleOf
<1> HIDE DEF shown
<1>6. QED
  BY <1>1, <1>2, <1>3, <1>4, <1>5, PTL DEF Spec, Parts!Chips!Spec, screenVars

-----------------------------------------------------------------------------

\* While SettingsDialogs is explored, every step is one of it; and no step goes from or
\* to another component.
LEMMA FormsAlone ==
    /\ Init /\ which = "forms" => Parts!Forms!Init
    /\ [Next]_screenVars /\ which = "forms" => [Parts!Forms!Next]_(Parts!Forms!settingsDialogsVars) /\ which' = "forms"
    /\ [Next]_screenVars /\ which # "forms" => which' # "forms"
<1>1. Forms!Init => Parts!Forms!Init
  BY DEF Forms!Init, Parts!Forms!Init
<1>2. Forms!Next => Parts!Forms!Next
  BY DEF Forms!Next, Parts!Forms!Next, Forms!CancelDelete, Parts!Forms!CancelDelete,
     Forms!CloseForm,
     Parts!Forms!CloseForm, Forms!DeleteFails, Parts!Forms!DeleteFails, Forms!Deleted,
     Parts!Forms!Deleted, Forms!Editable, Parts!Forms!Editable, Forms!FetchEnds,
     Parts!Forms!FetchEnds, Forms!HandleDelete, Parts!Forms!HandleDelete, Forms!HandleFetchModels,
     Parts!Forms!HandleFetchModels, Forms!HandleSubmit, Parts!Forms!HandleSubmit, Forms!ImpactEnds,
     Parts!Forms!ImpactEnds, Forms!OpenDelete, Parts!Forms!OpenDelete, Forms!OpenForm,
     Parts!Forms!OpenForm, Forms!SaveFails, Parts!Forms!SaveFails, Forms!Saved, Parts!Forms!Saved,
     Forms!SetProviderType, Parts!Forms!SetProviderType, Forms!Type, Parts!Forms!Type,
     Forms!formVars, Parts!Forms!formVars, Forms!deleteVars, Parts!Forms!deleteVars,
     Forms!Cardinality, Parts!Forms!Cardinality
<1>3. ASSUME [Next]_screenVars, which = "forms"
      PROVE  [Parts!Forms!Next]_(Parts!Forms!settingsDialogsVars) /\ which' = "forms"
  BY <1>2, <1>3 DEF Next, screenVars, From4, From7, From9, From10, From12, From14, From18,
     Parts!Forms!settingsDialogsVars, Parts!Forms!deleteVars, Parts!Forms!formVars
<1>4. [Next]_screenVars /\ which # "forms" => which' # "forms"
  BY DEF Next, screenVars
<1>5. QED
  BY <1>1, <1>3, <1>4 DEF Init

\* The types of SettingsDialogs.
LEMMA FormsTypesHold == Spec => [](which = "forms" => Forms!TypeOK)
<1> DEFINE shown == which = "forms"
<1>1. Init /\ shown => Parts!Forms!Init
  BY FormsAlone
<1>2. [Next]_screenVars /\ shown => [Parts!Forms!Next]_(Parts!Forms!settingsDialogsVars) /\ shown'
  BY FormsAlone
<1>3. [Next]_screenVars /\ ~shown => ~shown'
  BY FormsAlone
<1>4. Parts!Forms!Spec => []Parts!Forms!TypeOK
  BY Parts!FormsTypes
<1>5. (shown => Parts!Forms!TypeOK) => (shown => Forms!TypeOK)
  BY DEF Forms!TypeOK, Parts!Forms!TypeOK, Forms!Editable, Parts!Forms!Editable
<1> HIDE DEF shown
<1>6. Spec => [](shown => Forms!TypeOK)
  BY <1>1, <1>2, <1>3, <1>4, <1>5, PTL DEF Spec, Parts!Forms!Spec, screenVars
<1>7. QED
  BY <1>6 DEF shown

\* A dialog of the settings only shows or saves what is of its row.
THEOREM FormsOfTheirRow == Spec => []DialogsFitTheirRow
<1> DEFINE shown == which = "forms"
<1>1. Init /\ shown => Parts!Forms!Init
  BY FormsAlone
<1>2. [Next]_screenVars /\ shown => [Parts!Forms!Next]_(Parts!Forms!settingsDialogsVars) /\ shown'
  BY FormsAlone
<1>3. [Next]_screenVars /\ ~shown => ~shown'
  BY FormsAlone
<1>4. Parts!Forms!Spec => []Parts!Forms!DialogsFitTheirRow
  BY Parts!FormsFitTheirRow
<1>5. (shown => Parts!Forms!DialogsFitTheirRow) => DialogsFitTheirRow
  BY DEF DialogsFitTheirRow, Forms!DialogsFitTheirRow, Parts!Forms!DialogsFitTheirRow
<1> HIDE DEF shown
<1>6. QED
  BY <1>1, <1>2, <1>3, <1>4, <1>5, PTL DEF Spec, Parts!Forms!Spec, screenVars

-----------------------------------------------------------------------------

\* While CaseList is explored, every step is one of it; and no step goes from or
\* to another component.
LEMMA ListAlone ==
    /\ Init /\ which = "list" => Parts!List!Init
    /\ [Next]_screenVars /\ which = "list" => [Parts!List!Next]_(Parts!List!caseListVars) /\ which' = "list"
    /\ [Next]_screenVars /\ which # "list" => which' # "list"
<1>1. List!Init => Parts!List!Init
  BY DEF List!Init, Parts!List!Init
<1>2. List!Next => Parts!List!Next
  BY DEF List!Next, Parts!List!Next, List!Answered, Parts!List!Answered, List!Dialogs,
     Parts!List!Dialogs, List!Execute, Parts!List!Execute, List!Fail, Parts!List!Fail,
     List!HandleAssociateMail, Parts!List!HandleAssociateMail, List!HandleClear,
     Parts!List!HandleClear, List!HandleConfirmMerge, Parts!List!HandleConfirmMerge,
     List!HandleCreate, Parts!List!HandleCreate, List!HandleDeleteCase,
     Parts!List!HandleDeleteCase, List!LoadFails, Parts!List!LoadFails, List!Loaded,
     Parts!List!Loaded, List!OtherChanges, Parts!List!OtherChanges, List!ReadList,
     Parts!List!ReadList, List!RefreshCases, Parts!List!RefreshCases, List!ToggleCaseSelected,
     Parts!List!ToggleCaseSelected, List!Busy, Parts!List!Busy, List!Cardinality,
     Parts!List!Cardinality, List!NoDialog, Parts!List!NoDialog, List!Effect, Parts!List!Effect,
     List!Send, Parts!List!Send, List!RemoveGet, Parts!List!RemoveGet, List!Add, Parts!List!Add,
     List!Gone, Parts!List!Gone, List!Read, Parts!List!Read
<1>3. ASSUME [Next]_screenVars, which = "list"
      PROVE  [Parts!List!Next]_(Parts!List!caseListVars) /\ which' = "list"
  BY <1>2, <1>3 DEF Next, screenVars, From4, From7, From9, From10, From12, From14, From18,
     Parts!List!caseListVars
<1>4. [Next]_screenVars /\ which # "list" => which' # "list"
  BY DEF Next, screenVars
<1>5. QED
  BY <1>1, <1>3, <1>4 DEF Init

\* The types of CaseList.
LEMMA ListTypesHold == Spec => [](which = "list" => List!TypeOK)
<1> DEFINE shown == which = "list"
<1>1. Init /\ shown => Parts!List!Init
  BY ListAlone
<1>2. [Next]_screenVars /\ shown => [Parts!List!Next]_(Parts!List!caseListVars) /\ shown'
  BY ListAlone
<1>3. [Next]_screenVars /\ ~shown => ~shown'
  BY ListAlone
<1>4. Parts!List!Spec => []Parts!List!TypeOK
  BY ScreensAssumption, Parts!ListsTypes DEF ScreensAssumption, List!ListAssumption,
     Parts!List!ListAssumption
<1>5. (shown => Parts!List!TypeOK) => (shown => List!TypeOK)
  BY DEF List!TypeOK, Parts!List!TypeOK, List!Call, Parts!List!Call, List!Get, Parts!List!Get,
     List!Ops, Parts!List!Ops
<1> HIDE DEF shown
<1>6. Spec => [](shown => List!TypeOK)
  BY <1>1, <1>2, <1>3, <1>4, <1>5, PTL DEF Spec, Parts!List!Spec, screenVars
<1>7. QED
  BY <1>6 DEF shown

\* A ticked case is in the database, or known to be gone: a merge is of cases there are.
THEOREM TicksAreOfCases == Spec => []TickedCasesAreListed
<1> DEFINE shown == which = "list"
<1>1. Init /\ shown => Parts!List!Init
  BY ListAlone
<1>2. [Next]_screenVars /\ shown => [Parts!List!Next]_(Parts!List!caseListVars) /\ shown'
  BY ListAlone
<1>3. [Next]_screenVars /\ ~shown => ~shown'
  BY ListAlone
<1>4. Parts!List!Spec => []Parts!List!TickedCasesAreListed
  BY ScreensAssumption, Parts!TicksAreListed DEF ScreensAssumption, List!ListAssumption,
     Parts!List!ListAssumption
<1>5. (shown => Parts!List!TickedCasesAreListed) => TickedCasesAreListed
  BY DEF TickedCasesAreListed, List!TickedCasesAreListed, Parts!List!TickedCasesAreListed
<1> HIDE DEF shown
<1>6. QED
  BY <1>1, <1>2, <1>3, <1>4, <1>5, PTL DEF Spec, Parts!List!Spec, screenVars

-----------------------------------------------------------------------------

\* While JobsScreen is explored, every step is one of it; and no step goes from or
\* to another component.
LEMMA QueueAlone ==
    /\ Init /\ which = "queue" => Parts!Queue!Init
    /\ [Next]_screenVars /\ which = "queue" => [Parts!Queue!Next]_(Parts!Queue!jobsVars) /\ which' = "queue"
    /\ [Next]_screenVars /\ which # "queue" => which' # "queue"
<1>1. Queue!Init => Parts!Queue!Init
  BY DEF Queue!Init, Parts!Queue!Init, Queue!Empty, Parts!Queue!Empty
<1>2. Queue!Next => Parts!Queue!Next
  BY DEF Queue!Next, Parts!Queue!Next, Queue!CallDone, Parts!Queue!CallDone, Queue!CallFails,
     Parts!Queue!CallFails, Queue!Created, Parts!Queue!Created, Queue!CreationFails,
     Parts!Queue!CreationFails, Queue!Dialogs, Parts!Queue!Dialogs, Queue!GetFails,
     Parts!Queue!GetFails, Queue!HandleCancel, Parts!Queue!HandleCancel, Queue!HandleClear,
     Parts!Queue!HandleClear, Queue!HandleDeleteJob, Parts!Queue!HandleDeleteJob,
     Queue!HandleRetry, Parts!Queue!HandleRetry, Queue!HandleSubmit, Parts!Queue!HandleSubmit,
     Queue!JobChanges, Parts!Queue!JobChanges, Queue!Load, Parts!Queue!Load, Queue!LoadAnswered,
     Parts!Queue!LoadAnswered, Queue!Mount, Parts!Queue!Mount, Queue!Poll, Parts!Queue!Poll,
     Queue!PollAnswered, Parts!Queue!PollAnswered, Queue!Unmount, Parts!Queue!Unmount,
     Queue!Effect, Parts!Queue!Effect, Queue!formVars, Parts!Queue!formVars, Queue!screenVars,
     Parts!Queue!screenVars, Queue!Finish, Parts!Queue!Finish, Queue!NewJob, Parts!Queue!NewJob,
     Queue!OpenScreen, Parts!Queue!OpenScreen, Queue!RefreshSignal, Parts!Queue!RefreshSignal,
     Queue!dialogVars, Parts!Queue!dialogVars, Queue!Ended, Parts!Queue!Ended, Queue!NoDialog,
     Parts!Queue!NoDialog, Queue!Offered, Parts!Queue!Offered, Queue!RemoveGet,
     Parts!Queue!RemoveGet, Queue!Send, Parts!Queue!Send, Queue!Become, Parts!Queue!Become,
     Queue!Read, Parts!Queue!Read, Queue!Fresh, Parts!Queue!Fresh, Queue!Cardinality,
     Parts!Queue!Cardinality, Queue!ListNow, Parts!Queue!ListNow, Queue!Empty, Parts!Queue!Empty
<1>3. ASSUME [Next]_screenVars, which = "queue"
      PROVE  [Parts!Queue!Next]_(Parts!Queue!jobsVars) /\ which' = "queue"
  BY <1>2, <1>3 DEF Next, screenVars, From4, From7, From9, From10, From12, From14, From18,
     Parts!Queue!jobsVars, Parts!Queue!dialogVars, Parts!Queue!formVars, Parts!Queue!screenVars
<1>4. [Next]_screenVars /\ which # "queue" => which' # "queue"
  BY DEF Next, screenVars
<1>5. QED
  BY <1>1, <1>3, <1>4 DEF Init

\* The types of JobsScreen.
LEMMA QueueTypesHold == Spec => [](which = "queue" => Queue!TypeOK)
<1> DEFINE shown == which = "queue"
<1>1. Init /\ shown => Parts!Queue!Init
  BY QueueAlone
<1>2. [Next]_screenVars /\ shown => [Parts!Queue!Next]_(Parts!Queue!jobsVars) /\ shown'
  BY QueueAlone
<1>3. [Next]_screenVars /\ ~shown => ~shown'
  BY QueueAlone
<1>4. Parts!Queue!Spec => []Parts!Queue!TypeOK
  BY ScreensAssumption, Parts!QueuesTypes DEF ScreensAssumption, Queue!JobsAssumption,
     Parts!Queue!JobsAssumption, Queue!IsFiniteSet, Parts!Queue!IsFiniteSet
<1>5. (shown => Parts!Queue!TypeOK) => (shown => Queue!TypeOK)
  BY DEF Queue!TypeOK, Parts!Queue!TypeOK, Queue!Call, Parts!Queue!Call, Queue!Get,
     Parts!Queue!Get,
     Queue!List, Parts!Queue!List, Queue!Status, Parts!Queue!Status, Queue!Ended, Parts!Queue!Ended
<1> HIDE DEF shown
<1>6. Spec => [](shown => Queue!TypeOK)
  BY <1>1, <1>2, <1>3, <1>4, <1>5, PTL DEF Spec, Parts!Queue!Spec, screenVars
<1>7. QED
  BY <1>6 DEF shown

\* The end of a job seen active is announced, once.
THEOREM EndsAreToasted == Spec => []EndsAreAnnounced
<1> DEFINE shown == which = "queue"
<1>1. Init /\ shown => Parts!Queue!Init
  BY QueueAlone
<1>2. [Next]_screenVars /\ shown => [Parts!Queue!Next]_(Parts!Queue!jobsVars) /\ shown'
  BY QueueAlone
<1>3. [Next]_screenVars /\ ~shown => ~shown'
  BY QueueAlone
<1>4. Parts!Queue!Spec => []Parts!Queue!EndsAreAnnounced
  BY ScreensAssumption, Parts!EndsGetAnnounced DEF ScreensAssumption, Queue!JobsAssumption,
     Parts!Queue!JobsAssumption, Queue!IsFiniteSet, Parts!Queue!IsFiniteSet
<1>5. (shown => Parts!Queue!EndsAreAnnounced) => EndsAreAnnounced
  BY DEF EndsAreAnnounced, Queue!EndsAreAnnounced, Parts!Queue!EndsAreAnnounced, Queue!Ended,
     Parts!Queue!Ended
<1> HIDE DEF shown
<1>6. QED
  BY <1>1, <1>2, <1>3, <1>4, <1>5, PTL DEF Spec, Parts!Queue!Spec, screenVars

-----------------------------------------------------------------------------

\* While MessagesScreen is explored, every step is one of it; and no step goes from or
\* to another component.
LEMMA SearchAlone ==
    /\ Init /\ which = "search" => Parts!Search!Init
    /\ [Next]_screenVars /\ which = "search" => [Parts!Search!Next]_(Parts!Search!messagesVars) /\ which' = "search"
    /\ [Next]_screenVars /\ which # "search" => which' # "search"
<1>1. Search!Init => Parts!Search!Init
  BY DEF Search!Init, Parts!Search!Init, Search!Messages, Parts!Search!Messages
<1>2. Search!Next => Parts!Search!Next
  BY DEF Search!Next, Parts!Search!Next, Search!ClearFails, Parts!Search!ClearFails,
     Search!Cleared,
     Parts!Search!Cleared, Search!DetailAnswered, Parts!Search!DetailAnswered, Search!EditFilters,
     Parts!Search!EditFilters, Search!Expand, Parts!Search!Expand, Search!HandleClear,
     Parts!Search!HandleClear, Search!IndexChanges, Parts!Search!IndexChanges, Search!LoadMore,
     Parts!Search!LoadMore, Search!Messages, Parts!Search!Messages, Search!MoreAnswered,
     Parts!Search!MoreAnswered, Search!PageFails, Parts!Search!PageFails, Search!ReadPage,
     Parts!Search!ReadPage, Search!RetraceAttachments, Parts!Search!RetraceAttachments,
     Search!RunSearch, Parts!Search!RunSearch, Search!SearchAnswered, Parts!Search!SearchAnswered,
     Search!busyVars, Parts!Search!busyVars, Search!detailVars, Parts!Search!detailVars,
     Search!listVars, Parts!Search!listVars, Search!Cardinality, Parts!Search!Cardinality,
     Search!Ask, Parts!Search!Ask, Search!Least, Parts!Search!Least, Search!Result,
     Parts!Search!Result
<1>3. ASSUME [Next]_screenVars, which = "search"
      PROVE  [Parts!Search!Next]_(Parts!Search!messagesVars) /\ which' = "search"
  BY <1>2, <1>3 DEF Next, screenVars, From4, From7, From9, From10, From12, From14, From18,
     Parts!Search!messagesVars, Parts!Search!busyVars, Parts!Search!detailVars,
     Parts!Search!listVars
<1>4. [Next]_screenVars /\ which # "search" => which' # "search"
  BY DEF Next, screenVars
<1>5. QED
  BY <1>1, <1>3, <1>4 DEF Init

\* The types of MessagesScreen.
LEMMA SearchTypesHold == Spec => [](which = "search" => Search!TypeOK)
<1> DEFINE shown == which = "search"
<1>1. Init /\ shown => Parts!Search!Init
  BY SearchAlone
<1>2. [Next]_screenVars /\ shown => [Parts!Search!Next]_(Parts!Search!messagesVars) /\ shown'
  BY SearchAlone
<1>3. [Next]_screenVars /\ ~shown => ~shown'
  BY SearchAlone
<1>4. Parts!Search!Spec => []Parts!Search!TypeOK
  BY ScreensAssumption, Parts!SearchesTypes DEF ScreensAssumption, Search!MessagesAssumption,
     Parts!Search!MessagesAssumption, Search!Messages,
     Parts!Search!Messages
<1>5. (shown => Parts!Search!TypeOK) => (shown => Search!TypeOK)
  BY DEF Search!TypeOK, Parts!Search!TypeOK, Search!Messages, Parts!Search!Messages, Search!Page,
     Parts!Search!Page
<1> HIDE DEF shown
<1>6. Spec => [](shown => Search!TypeOK)
  BY <1>1, <1>2, <1>3, <1>4, <1>5, PTL DEF Spec, Parts!Search!Spec, screenVars
<1>7. QED
  BY <1>6 DEF shown

\* The pages shown are of one search, in its order, without a message twice.
THEOREM PagesOfOneList == Spec => []PagesFitTogether
<1> DEFINE shown == which = "search"
<1>1. Init /\ shown => Parts!Search!Init
  BY SearchAlone
<1>2. [Next]_screenVars /\ shown => [Parts!Search!Next]_(Parts!Search!messagesVars) /\ shown'
  BY SearchAlone
<1>3. [Next]_screenVars /\ ~shown => ~shown'
  BY SearchAlone
<1>4. Parts!Search!Spec => []Parts!Search!PagesFitTogether
  BY ScreensAssumption, Parts!PagesStayTogether DEF ScreensAssumption,
     Search!MessagesAssumption, Parts!Search!MessagesAssumption, Search!Messages,
     Parts!Search!Messages
<1>5. (shown => Parts!Search!PagesFitTogether) => PagesFitTogether
  BY DEF PagesFitTogether, Search!PagesFitTogether, Parts!Search!PagesFitTogether,
     Search!Result, Parts!Search!Result,
     Search!Cardinality, Parts!Search!Cardinality
<1> HIDE DEF shown
<1>6. QED
  BY <1>1, <1>2, <1>3, <1>4, <1>5, PTL DEF Spec, Parts!Search!Spec, screenVars

-----------------------------------------------------------------------------

\* While SettingsScreen is explored, every step is one of it; and no step goes from or
\* to another component.
LEMMA SettingsAlone ==
    /\ Init /\ which = "settings" => Parts!Settings!Init
    /\ [Next]_screenVars /\ which = "settings" => [Parts!Settings!Next]_(Parts!Settings!settingsVars) /\ which' = "settings"
    /\ [Next]_screenVars /\ which # "settings" => which' # "settings"
<1>1. Settings!Init => Parts!Settings!Init
  BY DEF Settings!Init, Parts!Settings!Init, Settings!Lists, Parts!Settings!Lists
<1>2. Settings!Next => Parts!Settings!Next
  BY DEF Settings!Next, Parts!Settings!Next, Settings!Answered, Parts!Settings!Answered,
     Settings!CallFails, Parts!Settings!CallFails, Settings!Execute, Parts!Settings!Execute,
     Settings!LoadFails, Parts!Settings!LoadFails, Settings!Loaded, Parts!Settings!Loaded,
     Settings!Ops, Parts!Settings!Ops, Settings!OtherChanges, Parts!Settings!OtherChanges,
     Settings!ReadList, Parts!Settings!ReadList, Settings!Refresh, Parts!Settings!Refresh,
     Settings!Send, Parts!Settings!Send, Settings!Put, Parts!Settings!Put, Settings!Reload,
     Parts!Settings!Reload, Settings!Sets, Parts!Settings!Sets, Settings!Change,
     Parts!Settings!Change, Settings!Changes, Parts!Settings!Changes, Settings!LeftBehind,
     Parts!Settings!LeftBehind, Settings!Brings, Parts!Settings!Brings, Settings!StartLoad,
     Parts!Settings!StartLoad, Settings!Cardinality, Parts!Settings!Cardinality, Settings!Concerns,
     Parts!Settings!Concerns, Settings!Reloads, Parts!Settings!Reloads
<1>3. ASSUME [Next]_screenVars, which = "settings"
      PROVE  [Parts!Settings!Next]_(Parts!Settings!settingsVars) /\ which' = "settings"
  BY <1>2, <1>3 DEF Next, screenVars, From4, From7, From9, From10, From12, From14, From18,
     Parts!Settings!settingsVars
<1>4. [Next]_screenVars /\ which # "settings" => which' # "settings"
  BY DEF Next, screenVars
<1>5. QED
  BY <1>1, <1>3, <1>4 DEF Init

\* The types of SettingsScreen.
LEMMA SettingsTypesHold == Spec => [](which = "settings" => Settings!TypeOK)
<1> DEFINE shown == which = "settings"
<1>1. Init /\ shown => Parts!Settings!Init
  BY SettingsAlone
<1>2. [Next]_screenVars /\ shown => [Parts!Settings!Next]_(Parts!Settings!settingsVars) /\ shown'
  BY SettingsAlone
<1>3. [Next]_screenVars /\ ~shown => ~shown'
  BY SettingsAlone
<1>4. Parts!Settings!Spec => []Parts!Settings!TypeOK
  BY ScreensAssumption, Parts!SettingsTypes DEF ScreensAssumption, Settings!SettingsAssumption,
     Parts!Settings!SettingsAssumption
<1>5. (shown => Parts!Settings!TypeOK) => (shown => Settings!TypeOK)
  BY DEF Settings!TypeOK, Parts!Settings!TypeOK, Settings!Call, Parts!Settings!Call,
     Settings!Cardinality, Parts!Settings!Cardinality, Settings!Lists, Parts!Settings!Lists,
     Settings!Load, Parts!Settings!Load, Settings!Versions, Parts!Settings!Versions, Settings!Ops,
     Parts!Settings!Ops
<1> HIDE DEF shown
<1>6. Spec => [](shown => Settings!TypeOK)
  BY <1>1, <1>2, <1>3, <1>4, <1>5, PTL DEF Spec, Parts!Settings!Spec, screenVars
<1>7. QED
  BY <1>6 DEF shown

\* With nothing on its way, the lists of the settings show what is stored.
THEOREM SettledScreens == Spec => []SettledScreenIsCurrent
<1> DEFINE shown == which = "settings"
<1>1. Init /\ shown => Parts!Settings!Init
  BY SettingsAlone
<1>2. [Next]_screenVars /\ shown => [Parts!Settings!Next]_(Parts!Settings!settingsVars) /\ shown'
  BY SettingsAlone
<1>3. [Next]_screenVars /\ ~shown => ~shown'
  BY SettingsAlone
<1>4. Parts!Settings!Spec => []Parts!Settings!SettledScreenIsCurrent
  BY ScreensAssumption, Parts!SettledIsCurrent DEF ScreensAssumption,
     Settings!SettingsAssumption, Parts!Settings!SettingsAssumption
<1>5. (shown => Parts!Settings!SettledScreenIsCurrent) => SettledScreenIsCurrent
  BY DEF SettledScreenIsCurrent, Settings!SettledScreenIsCurrent,
     Parts!Settings!SettledScreenIsCurrent
<1> HIDE DEF shown
<1>6. QED
  BY <1>1, <1>2, <1>3, <1>4, <1>5, PTL DEF Spec, Parts!Settings!Spec, screenVars

-----------------------------------------------------------------------------

\* The types of the component explored, whichever it is.
THEOREM ScreensTypesHold == Spec => []TypeOK
<1> DEFINE one == which \in {"mail", "ask", "chips", "list", "queue", "search", "settings", "forms"}
<1>1. Init => one
  BY DEF Init
<1>2. one /\ [Next]_screenVars => one'
  BY DEF Next, screenVars
<1>3. Spec => [](which = "ask" => Ask!TypeOK)
  BY AskTypesHold
<1>4. Spec => [](which = "mail" => Mail!TypeOK)
  BY MailTypesHold
<1>5. Spec => [](which = "chips" => Chips!TypeOK)
  BY ChipsTypesHold
<1>6. Spec => [](which = "forms" => Forms!TypeOK)
  BY FormsTypesHold
<1>7. Spec => [](which = "list" => List!TypeOK)
  BY ListTypesHold
<1>8. Spec => [](which = "queue" => Queue!TypeOK)
  BY QueueTypesHold
<1>9. Spec => [](which = "search" => Search!TypeOK)
  BY SearchTypesHold
<1>10. Spec => [](which = "settings" => Settings!TypeOK)
  BY SettingsTypesHold
<1>11. (/\ one
        /\ (which = "ask" => Ask!TypeOK)
        /\ (which = "mail" => Mail!TypeOK)
        /\ (which = "chips" => Chips!TypeOK)
        /\ (which = "forms" => Forms!TypeOK)
        /\ (which = "list" => List!TypeOK)
        /\ (which = "queue" => Queue!TypeOK)
        /\ (which = "search" => Search!TypeOK)
        /\ (which = "settings" => Settings!TypeOK))
       => TypeOK
  BY DEF TypeOK
<1> HIDE DEF one
<1>12. QED
  BY <1>1, <1>2, <1>3, <1>4, <1>5, <1>6, <1>7, <1>8, <1>9, <1>10, <1>11, PTL DEF Spec, screenVars
=============================================================================
