-------------------------- MODULE ScreenPartsProofs --------------------------
(***************************************************************************)
(* TLAPS proofs about the screens of the frontend, for every value of the  *)
(* constants: a chapter about each of CaseList, JobsScreen, MessagesScreen *)
(* and SettingsScreen.  They share no variable; the names of a component   *)
(* are those of its instance.  The lemmas about recursion and induction    *)
(* are those of DialogProofs.                                              *)
(***************************************************************************)
EXTENDS DialogProofs, FiniteSetTheorems

CONSTANTS Listed, MaxLists, MaxListCalls, Jobs, Folders, MaxGets, MaxJobCalls,
          Filters, Matches, MaxMessage, PageSize, MaxPages, MaxDetails,
          MaxChanges, MaxSettingCalls, MaxLoads

VARIABLES
    born, listDb, cases, selectedCaseIds, mergeModalOpen, listTarget, listClearOpen, listCalls,
    listGets, ghosts, listBehind,                                                 \* of CaseList
    status, mounted, jobs, prevStatuses, queueGets, queueCalls, retryingId, cancelingId,
    deletingJob, clearing, queueTarget, queueClearOpen, todo, stray, owed, announced,
    again,                                                                        \* of JobsScreen
    index, filters, messages, total, pages, loading, loadingMore, expandedId, detail, details,
    clears, searched, skewed,                                                     \* of MessagesScreen
    settingList, settingDb, shown, settingCalls, loads, settingBehind             \* of SettingsScreen

List == INSTANCE CaseList WITH Cases <- Listed, MaxGets <- MaxLists, MaxCalls <- MaxListCalls,
    db <- listDb, deleteTarget <- listTarget, clearModalOpen <- listClearOpen, calls <- listCalls,
    gets <- listGets, behind <- listBehind
Queue == INSTANCE JobsScreen WITH MaxCalls <- MaxJobCalls, gets <- queueGets, calls <- queueCalls,
    deleteTarget <- queueTarget, clearModalOpen <- queueClearOpen
Search == INSTANCE MessagesScreen
Settings == INSTANCE SettingsScreen WITH MaxCalls <- MaxSettingCalls, list <- settingList,
    db <- settingDb, calls <- settingCalls, behind <- settingBehind

-----------------------------------------------------------------------------
(* The list of cases (CaseList) *)

\* The list that will be on the screen: one is still to be read, the last one on
\* its way is of now and not overtaken, or the screen shows it and the ones on
\* their way are overtaken.
ListComing ==
    \/ \E c \in listCalls : c.pc \in {"done", "read"}
    \/ Len(listGets) > 0 /\ listGets[Len(listGets)].list = listDb /\ ~listGets[Len(listGets)].overtaken
    \/ cases = listDb /\ \A i \in 1..Len(listGets) : listGets[i].overtaken

\* The dialog of a merge stays open until it is answered, so that the cases it
\* sent are the ones ticked.
ListMerging(c) == c.op = "merge" /\ c.pc # "read"
MergesAreOfTheTicks ==
    /\ \A c, d \in listCalls : c.op = d.op => c = d
    /\ \A c \in listCalls : ListMerging(c) => mergeModalOpen /\ c.of = selectedCaseIds

\* A case ticked is there, known to be gone, or merged by a call not yet answered.
TicksAreKnown ==
    (\A c \in listCalls : ListMerging(c) => c.pc = "sent") => selectedCaseIds \subseteq listDb \cup ghosts

ListInv ==
    /\ List!TypeOK
    /\ \A i \in 1..Len(listGets) : listGets[i].list \subseteq born
    /\ MergesAreOfTheTicks
    /\ TicksAreKnown
    /\ listBehind \/ ListComing

\* The types one by one, as the provers need them.
LEMMA ListTypes ==
    ASSUME ListInv
    PROVE  /\ born \subseteq Listed /\ listDb \subseteq born /\ cases \subseteq born
           /\ selectedCaseIds \subseteq born /\ ghosts \subseteq selectedCaseIds
           /\ mergeModalOpen \in BOOLEAN /\ listClearOpen \in BOOLEAN /\ listBehind \in BOOLEAN
           /\ listTarget \subseteq Listed
           /\ listCalls \subseteq List!Call
           /\ listGets \in Seq(List!Get) /\ Len(listGets) \in Nat /\ Len(listGets) <= MaxLists
BY DEF ListInv, List!TypeOK

-----------------------------------------------------------------------------

\* Ticking a case keeps the invariant: it is a listed one.
LEMMA ToggleKeeps ==
    ASSUME List!ListAssumption, ListInv, NEW c \in Listed, List!ToggleCaseSelected(c)
    PROVE  ListInv'
<1>1. List!TypeOK'
  BY ListTypes DEF List!TypeOK, List!ToggleCaseSelected, ListInv
<1>2. MergesAreOfTheTicks'
  BY DEF MergesAreOfTheTicks, ListMerging, List!ToggleCaseSelected, ListInv
<1>3. TicksAreKnown'
  BY DEF TicksAreKnown, ListMerging, List!ToggleCaseSelected, ListInv, MergesAreOfTheTicks
<1>4. QED
  BY <1>1, <1>2, <1>3 DEF ListInv, ListComing, List!ToggleCaseSelected

\* Opening and closing the dialogs of the list keep it.
LEMMA ListDialogsKeep ==
    ASSUME List!ListAssumption, ListInv, List!Dialogs
    PROVE  ListInv'
<1>1. List!TypeOK'
  BY ListTypes DEF List!TypeOK, List!Dialogs
<1>2. MergesAreOfTheTicks'
  BY DEF MergesAreOfTheTicks, ListMerging, List!Dialogs, ListInv, List!Busy, List!NoDialog
<1>3. QED
  BY <1>1, <1>2 DEF ListInv, ListComing, TicksAreKnown, ListMerging, List!Dialogs

\* A request that is sent keeps it; a merge is of the ticked cases.
LEMMA ListSendKeeps ==
    ASSUME List!ListAssumption, ListInv, NEW op \in List!Ops, NEW of \in SUBSET Listed, List!Send(op, of),
           op = "merge" => mergeModalOpen /\ of = selectedCaseIds
    PROVE  ListInv'
<1>1. PICK x : x = [op |-> op, of |-> of, pc |-> "sent"]
  OBVIOUS
<1>2. x \in List!Call /\ x.op = op /\ x.of = of /\ x.pc = "sent"
  BY <1>1 DEF List!Call
<1>3. /\ listCalls' = listCalls \cup {x} /\ \A c \in listCalls : c.op # op
      /\ UNCHANGED <<born, listDb, cases, selectedCaseIds, mergeModalOpen, listTarget,
                     listClearOpen, listGets, ghosts, listBehind>>
  BY <1>1 DEF List!Send, List!Busy
<1>4. List!TypeOK'
  BY <1>2, <1>3 DEF List!TypeOK, ListInv
<1>5. MergesAreOfTheTicks'
  BY <1>2, <1>3 DEF MergesAreOfTheTicks, ListMerging, ListInv
<1>6. TicksAreKnown'
  BY <1>2, <1>3 DEF TicksAreKnown, ListMerging, ListInv
<1>7. QED
  BY <1>2, <1>3, <1>4, <1>5, <1>6 DEF ListInv, ListComing

\* So do the handlers, each of which sends one.
LEMMA HandlersKeep ==
    ASSUME List!ListAssumption, ListInv,
           List!HandleCreate \/ List!HandleAssociateMail \/ List!HandleConfirmMerge \/ List!HandleDeleteCase \/ List!HandleClear
    PROVE  ListInv'
<1>1. selectedCaseIds \in SUBSET Listed /\ listTarget \in SUBSET Listed
  BY ListTypes
<1>2. QED
  BY <1>1, ListSendKeeps
  DEF List!HandleCreate, List!HandleAssociateMail, List!HandleConfirmMerge,
     List!HandleDeleteCase, List!HandleClear, List!Ops

\* The list read is of now, and behind the others.
LEMMA ListReading ==
    ASSUME List!ListAssumption, ListInv, List!Read, UNCHANGED listDb
    PROVE  /\ listGets' \in Seq(List!Get) /\ Len(listGets') <= MaxLists
           /\ \A i \in 1..Len(listGets') : listGets'[i].list \subseteq born
           /\ Len(listGets') > 0 /\ listGets'[Len(listGets')].list = listDb' /\ ~listGets'[Len(listGets')].overtaken
<1>1. PICK g : g = [list |-> listDb, overtaken |-> FALSE]
  OBVIOUS
<1>2. g \in List!Get /\ g.list = listDb /\ ~g.overtaken
  BY <1>1, ListTypes DEF List!Get
<1>3. listGets' = Append(listGets, g) /\ Len(listGets) < MaxLists
  BY <1>1 DEF List!Read
<1>4. /\ listGets' \in Seq(List!Get) /\ Len(listGets') = Len(listGets) + 1 /\ listGets'[Len(listGets) + 1] = g
      /\ \A i \in 1..Len(listGets) : listGets'[i] = listGets[i]
  BY <1>2, <1>3, ListTypes
<1>5. Len(listGets') <= MaxLists
  <2>1. Len(listGets) \in Nat /\ Len(listGets) < MaxLists /\ MaxLists \in Nat
    BY <1>3, ListTypes DEF List!ListAssumption
  <2>2. QED
    BY <1>4, <2>1
<1>6. QED
  BY <1>2, <1>4, <1>5, ListTypes DEF ListInv

\* A reload of the list that is asked for.
LEMMA ListRefreshKeeps ==
    ASSUME List!ListAssumption, ListInv, List!RefreshCases
    PROVE  ListInv'
<1>1. /\ List!Read
      /\ UNCHANGED <<born, listDb, cases, selectedCaseIds, mergeModalOpen, listTarget, listClearOpen,
                     listCalls, ghosts, listBehind>>
  BY DEF List!RefreshCases
<1>2. /\ listGets' \in Seq(List!Get) /\ Len(listGets') <= MaxLists
      /\ \A i \in 1..Len(listGets') : listGets'[i].list \subseteq born
      /\ Len(listGets') > 0 /\ listGets'[Len(listGets')].list = listDb' /\ ~listGets'[Len(listGets')].overtaken
  BY <1>1, ListReading
<1>3. List!TypeOK' /\ ListComing'
  BY <1>1, <1>2 DEF List!TypeOK, ListInv, ListComing
<1>4. MergesAreOfTheTicks' /\ TicksAreKnown'
  BY <1>1 DEF ListInv, MergesAreOfTheTicks, TicksAreKnown, ListMerging
<1>5. QED
  BY <1>1, <1>2, <1>3, <1>4 DEF ListInv

\* What the backend does to the cases, and what of the ticks is then known.
LEMMA Effects ==
    ASSUME List!ListAssumption, ListInv, NEW c \in listCalls, c.pc = "sent", List!Effect(c), UNCHANGED selectedCaseIds
    PROVE  /\ born \subseteq born' /\ born' \subseteq Listed /\ listDb' \subseteq born'
           /\ ghosts \subseteq ghosts' /\ ghosts' \subseteq selectedCaseIds
           /\ c.op # "merge" => listDb \cap selectedCaseIds \subseteq listDb' \cup ghosts'
<1>1. c \in List!Call /\ c.op \in List!Ops
  BY ListTypes DEF List!Call
<1>2. CASE c.op = "create"
  BY <1>2, ListTypes DEF List!Effect, List!Add
<1>3. CASE c.op = "associate"
  BY <1>3, ListTypes DEF List!Effect
<1>4. CASE c.op = "merge"
  BY <1>4, ListTypes DEF List!Effect, List!Add
<1>5. CASE c.op = "delete"
  BY <1>5, ListTypes DEF List!Effect, List!Gone
<1>6. CASE c.op = "clear"
  BY <1>6, ListTypes DEF List!Effect, List!Gone
<1>7. QED
  BY <1>1, <1>2, <1>3, <1>4, <1>5, <1>6 DEF List!Ops

\* What the backend does for a request: the list changes.
LEMMA ListExecuteKeeps ==
    ASSUME List!ListAssumption, ListInv, NEW c \in listCalls, List!Execute(c)
    PROVE  ListInv'
<1>1. PICK d : d = [c EXCEPT !.pc = "done"]
  OBVIOUS
<1>2. c \in List!Call /\ d \in List!Call /\ d.op = c.op /\ d.of = c.of /\ d.pc = "done" /\ c.pc = "sent"
  BY <1>1, ListTypes DEF List!Call, List!Execute
<1>3. /\ listCalls' = (listCalls \ {c}) \cup {d} /\ List!Effect(c)
      /\ UNCHANGED <<cases, selectedCaseIds, mergeModalOpen, listTarget, listClearOpen, listGets, listBehind>>
  BY <1>1 DEF List!Execute
<1>4. /\ born \subseteq born' /\ born' \subseteq Listed /\ listDb' \subseteq born'
      /\ ghosts \subseteq ghosts' /\ ghosts' \subseteq selectedCaseIds
      /\ c.op # "merge" => listDb \cap selectedCaseIds \subseteq listDb' \cup ghosts'
  BY <1>2, <1>3, Effects
<1>5. List!TypeOK'
  BY <1>2, <1>3, <1>4, ListTypes DEF List!TypeOK
<1>6. \A i \in 1..Len(listGets') : listGets'[i].list \subseteq born'
  BY <1>3, <1>4 DEF ListInv
<1>7. MergesAreOfTheTicks'
  BY <1>2, <1>3 DEF MergesAreOfTheTicks, ListMerging, ListInv
<1>8. TicksAreKnown'
  <2>1. CASE c.op = "merge"
    BY <1>2, <1>3, <2>1 DEF TicksAreKnown, ListMerging
  <2>2. CASE c.op # "merge"
    <3>1. ASSUME \A k \in listCalls' : ListMerging(k) => k.pc = "sent"
          PROVE  selectedCaseIds' \subseteq listDb' \cup ghosts'
      <4>1. \A k \in listCalls : ListMerging(k) => k.pc = "sent"
        BY <1>2, <1>3, <3>1 DEF ListMerging
      <4>2. selectedCaseIds \subseteq listDb \cup ghosts
        BY <4>1 DEF TicksAreKnown, ListInv
      <4>3. QED
        BY <1>3, <1>4, <2>2, <4>2
    <3>2. QED
      BY <3>1 DEF TicksAreKnown, ListMerging
  <2>3. QED
    BY <2>1, <2>2
<1>9. ListComing'
  BY <1>2, <1>3 DEF ListComing
<1>10. QED
  BY <1>5, <1>6, <1>7, <1>8, <1>9 DEF ListInv

\* Others change the cases as well.
LEMMA OthersKeep ==
    ASSUME List!ListAssumption, ListInv, List!OtherChanges
    PROVE  ListInv'
<1>1. /\ born \subseteq born' /\ born' \subseteq Listed /\ listDb' \subseteq born'
      /\ ghosts \subseteq ghosts' /\ ghosts' \subseteq selectedCaseIds
      /\ listDb \cap selectedCaseIds \subseteq listDb' \cup ghosts'
  BY ListTypes DEF List!OtherChanges, List!Add, List!Gone
<1>2. /\ listBehind' = TRUE
      /\ UNCHANGED <<cases, selectedCaseIds, mergeModalOpen, listTarget, listClearOpen, listCalls, listGets>>
  BY DEF List!OtherChanges
<1>3. List!TypeOK'
  BY <1>1, <1>2, ListTypes DEF List!TypeOK
<1>4. MergesAreOfTheTicks' /\ TicksAreKnown'
  BY <1>1, <1>2 DEF ListInv, MergesAreOfTheTicks, TicksAreKnown, ListMerging
<1>5. QED
  BY <1>1, <1>2, <1>3, <1>4 DEF ListInv

\* The answer of a request, which asks for a reload.
LEMMA ListAnsweredKeeps ==
    ASSUME List!ListAssumption, ListInv, NEW c \in listCalls, List!Answered(c)
    PROVE  ListInv'
<1>1. PICK d : d = [c EXCEPT !.pc = "read"]
  OBVIOUS
<1>2. c \in List!Call /\ d \in List!Call /\ d.op = c.op /\ d.of = c.of /\ d.pc = "read" /\ c.pc = "done"
  BY <1>1, ListTypes DEF List!Call, List!Answered
<1>3. /\ listCalls' = (listCalls \ {c}) \cup {d}
      /\ selectedCaseIds' = IF c.op = "merge" THEN {} ELSE selectedCaseIds
      /\ ghosts' = ghosts \cap selectedCaseIds'
      /\ mergeModalOpen' = (mergeModalOpen /\ c.op # "merge")
      /\ listTarget' \subseteq listTarget
      /\ listClearOpen' \in BOOLEAN
      /\ UNCHANGED <<born, listDb, cases, listGets, listBehind>>
  BY <1>1, ListTypes DEF List!Answered
<1>4. List!TypeOK'
  BY <1>2, <1>3, ListTypes DEF List!TypeOK
<1>5. MergesAreOfTheTicks'
  BY <1>2, <1>3, ZenonT(30) DEF MergesAreOfTheTicks, ListMerging, ListInv
<1>6. TicksAreKnown'
  BY <1>2, <1>3, ListTypes DEF TicksAreKnown, ListMerging, ListInv
<1>7. ListComing'
  BY <1>2, <1>3 DEF ListComing
<1>8. QED
  BY <1>3, <1>4, <1>5, <1>6, <1>7 DEF ListInv

\* A request that fails on its way back leaves what it did.
LEMMA FailKeeps ==
    ASSUME List!ListAssumption, ListInv, NEW c \in listCalls, List!Fail(c)
    PROVE  ListInv'
<1>1. /\ c \in List!Call /\ c.pc \in {"sent", "done"}
      /\ listCalls' = listCalls \ {c}
      /\ ghosts' = IF c.op = "merge" /\ c.pc = "done" THEN ghosts \cup c.of ELSE ghosts
      /\ listBehind' = (listBehind \/ c.pc = "done")
      /\ UNCHANGED <<born, listDb, cases, selectedCaseIds, mergeModalOpen, listTarget, listClearOpen, listGets>>
  BY ListTypes DEF List!Fail, List!Call
<1>2. c.op = "merge" => c.of = selectedCaseIds
  BY <1>1 DEF ListInv, MergesAreOfTheTicks, ListMerging
<1>3. List!TypeOK'
  BY <1>1, <1>2, ListTypes DEF List!TypeOK
<1>4. MergesAreOfTheTicks'
  BY <1>1 DEF MergesAreOfTheTicks, ListMerging, ListInv
<1>5. TicksAreKnown'
  BY <1>1, <1>2 DEF TicksAreKnown, ListMerging, ListInv
<1>6. listBehind' \/ ListComing'
  BY <1>1 DEF ListComing, ListInv
<1>7. QED
  BY <1>1, <1>3, <1>4, <1>5, <1>6 DEF ListInv

\* The backend reads the list for a load.
LEMMA ListReadListKeeps ==
    ASSUME List!ListAssumption, ListInv, NEW c \in listCalls, List!ReadList(c)
    PROVE  ListInv'
<1>1. /\ List!Read /\ listCalls' = listCalls \ {c} /\ c.pc = "read"
      /\ UNCHANGED <<born, listDb, cases, selectedCaseIds, mergeModalOpen, listTarget, listClearOpen,
                     ghosts, listBehind>>
  BY DEF List!ReadList
<1>2. /\ listGets' \in Seq(List!Get) /\ Len(listGets') <= MaxLists
      /\ \A i \in 1..Len(listGets') : listGets'[i].list \subseteq born
      /\ Len(listGets') > 0 /\ listGets'[Len(listGets')].list = listDb' /\ ~listGets'[Len(listGets')].overtaken
  BY <1>1, ListReading
<1>3. List!TypeOK' /\ ListComing'
  BY <1>1, <1>2, ListTypes DEF List!TypeOK, ListComing
<1>4. MergesAreOfTheTicks' /\ TicksAreKnown'
  BY <1>1 DEF ListInv, MergesAreOfTheTicks, TicksAreKnown, ListMerging
<1>5. QED
  BY <1>1, <1>2, <1>3, <1>4 DEF ListInv

\* A load that arrives prunes the ticks, and overtakes the earlier ones.
LEMMA ListLoadedKeeps ==
    ASSUME List!ListAssumption, ListInv, NEW i \in 1..Len(listGets), List!Loaded(i)
    PROVE  ListInv'
<1>1. PICK n \in Nat : n = Len(listGets)
  BY ListTypes
<1>2. /\ listGets' = [k \in 1..(n - 1) |-> IF k < i THEN [listGets[k] EXCEPT !.overtaken = TRUE] ELSE listGets[k + 1]]
      /\ cases' = listGets[i].list
      /\ listBehind' = (listGets[i].overtaken \/ (listBehind /\ (i < n \/ listGets[i].list # listDb)))
      /\ UNCHANGED <<born, listDb, selectedCaseIds, mergeModalOpen, listTarget, listClearOpen, listCalls, ghosts>>
  BY <1>1 DEF List!Loaded, List!RemoveGet
<1>3. i \in 1..n /\ n >= 1 /\ n - 1 \in Nat
  BY <1>1
<1>4. \A k \in 1..n : listGets[k] \in List!Get /\ listGets[k].list \subseteq born
  BY <1>1, ListTypes DEF ListInv
<1>5. \A k \in 1..(n - 1) : listGets'[k] = IF k < i THEN [listGets[k] EXCEPT !.overtaken = TRUE] ELSE listGets[k + 1]
  BY <1>2
<1>6. \A k \in 1..(n - 1) : listGets'[k] \in List!Get /\ listGets'[k].list \subseteq born
                            /\ (k < i => listGets'[k].overtaken) /\ (k >= i => listGets'[k] = listGets[k + 1])
  <2>1. SUFFICES ASSUME NEW k \in 1..(n - 1)
                 PROVE  listGets'[k] \in List!Get /\ listGets'[k].list \subseteq born
                        /\ (k < i => listGets'[k].overtaken) /\ (k >= i => listGets'[k] = listGets[k + 1])
    OBVIOUS
  <2>2. listGets[k] \in List!Get /\ listGets[k].list \subseteq born /\ listGets[k + 1] \in List!Get /\ listGets[k + 1].list \subseteq born
    BY <1>3, <1>4
  <2>3. CASE k < i
    <3>1. listGets'[k] = [listGets[k] EXCEPT !.overtaken = TRUE]
      BY <1>5, <2>3
    <3>2. QED
      <4>1. listGets[k].list \subseteq Listed /\ listGets[k] = [list |-> listGets[k].list, overtaken |-> listGets[k].overtaken]
        BY <2>2 DEF List!Get
      <4>2. listGets'[k] = [list |-> listGets[k].list, overtaken |-> TRUE]
        BY <3>1, <4>1
      <4>3. ~ (k >= i)
        BY <1>3, <2>3
      <4>4. QED
        BY <2>2, <4>1, <4>2, <4>3 DEF List!Get
  <2>4. CASE k >= i
    <3>1. ~ (k < i)
      BY <1>3, <2>4
    <3>2. QED
      BY <1>5, <2>2, <3>1
  <2>5. QED
    BY <1>3, <2>3, <2>4
<1>7. listGets' \in Seq(List!Get) /\ Len(listGets') = n - 1
  <2>1. listGets' = [k \in 1..(n - 1) |-> listGets'[k]]
    BY <1>2
  <2>2. listGets' \in [1..(n - 1) -> List!Get]
    BY <1>6, <2>1
  <2>3. QED
    BY <1>3, <2>2
<1>8. listBehind' \in BOOLEAN
  BY <1>2, <1>3, <1>4, ListTypes DEF List!Get
<1>9. List!TypeOK'
  <2>1. Len(listGets') <= MaxLists
    BY <1>1, <1>3, <1>7, ListTypes DEF List!ListAssumption
  <2>2. cases' \subseteq born
    BY <1>2, <1>3, <1>4
  <2>3. QED
    BY <1>2, <1>7, <1>8, <2>1, <2>2, ListTypes DEF List!TypeOK
<1>10. MergesAreOfTheTicks' /\ TicksAreKnown'
  BY <1>2 DEF ListInv, MergesAreOfTheTicks, TicksAreKnown, ListMerging
<1>11. ASSUME ~listBehind'
       PROVE  ListComing'
  <2>1. ~listGets[i].overtaken /\ (listBehind => i = n /\ listGets[i].list = listDb)
    <3>1. listGets[i].overtaken \in BOOLEAN /\ listBehind \in BOOLEAN
      BY <1>3, <1>4, ListTypes DEF List!Get
    <3>2. ~listGets[i].overtaken /\ ~(listBehind /\ (i < n \/ listGets[i].list # listDb))
      BY <1>2, <1>11, <3>1
    <3>3. QED
      BY <1>3, <3>2
  <2>2. CASE i = n /\ listGets[i].list = listDb
    <3>1. cases' = listDb' /\ \A k \in 1..Len(listGets') : listGets'[k].overtaken
      BY <1>2, <1>3, <1>6, <1>7, <2>2
    <3>2. QED
      BY <3>1 DEF ListComing
  <2>3. CASE \E c \in listCalls : c.pc \in {"done", "read"}
    BY <1>2, <2>3 DEF ListComing
  <2>4. CASE i # n /\ listGets[n].list = listDb /\ ~listGets[n].overtaken
    <3>1. n - 1 \in 1..(n - 1) /\ n - 1 >= i
      BY <1>3, <2>4
    <3>2. listGets'[n - 1] = listGets[n]
      BY <1>3, <1>6, <3>1
    <3>3. QED
      BY <1>2, <1>7, <2>4, <3>1, <3>2 DEF ListComing
  <2>5. QED
    BY <1>1, <1>3, <2>1, <2>2, <2>3, <2>4 DEF ListInv, ListComing
<1>12. QED
  BY <1>2, <1>6, <1>7, <1>9, <1>10, <1>11 DEF ListInv

\* A load that fails leaves the list as it was.
LEMMA ListLoadFailsKeeps ==
    ASSUME List!ListAssumption, ListInv, NEW i \in 1..Len(listGets), List!LoadFails(i)
    PROVE  ListInv'
<1>1. PICK n \in Nat : n = Len(listGets)
  BY ListTypes
<1>2. /\ listGets' = SubSeq(listGets, 1, i - 1) \o SubSeq(listGets, i + 1, n) /\ listBehind' = TRUE
      /\ UNCHANGED <<born, listDb, cases, selectedCaseIds, mergeModalOpen, listTarget, listClearOpen,
                     listCalls, ghosts>>
  BY <1>1 DEF List!LoadFails
<1>3. n - 1 \in Nat
  BY <1>1
<1>4. listGets \in Seq(List!Get)
  BY ListTypes
<1>5. listGets' \in Seq(List!Get) /\ Len(listGets') = n - 1
  BY <1>1, <1>2, <1>4, RemovedAt
<1>6. \A k \in 1..(n - 1) : listGets'[k] = IF k < i THEN listGets[k] ELSE listGets[k + 1]
  BY <1>1, <1>2, <1>4, RemovedAt
<1>7. \A k \in 1..Len(listGets') : listGets'[k].list \subseteq born
  <2>1. SUFFICES ASSUME NEW k \in 1..(n - 1)
                 PROVE  listGets'[k].list \subseteq born
    BY <1>5
  <2>2. listGets'[k] = listGets[k] \/ listGets'[k] = listGets[k + 1]
    BY <1>6
  <2>3. k \in 1..n /\ k + 1 \in 1..n
    BY <1>1
  <2>4. QED
    BY <1>1, <2>2, <2>3 DEF ListInv
<1>8. List!TypeOK'
  <2>1. Len(listGets') <= MaxLists
    BY <1>1, <1>5, ListTypes DEF List!ListAssumption
  <2>2. QED
    BY <1>2, <1>5, <2>1, ListTypes DEF List!TypeOK
<1>9. MergesAreOfTheTicks' /\ TicksAreKnown'
  BY <1>2 DEF ListInv, MergesAreOfTheTicks, TicksAreKnown, ListMerging
<1>10. QED
  BY <1>2, <1>7, <1>8, <1>9 DEF ListInv

\* Nothing is listed or ticked: the invariant of the list holds.
LEMMA ListStart == List!ListAssumption /\ List!Init => ListInv
<1>. SUFFICES ASSUME List!ListAssumption, List!Init
              PROVE  ListInv
  OBVIOUS
<1>1. PICK g : g = [list |-> listDb, overtaken |-> FALSE]
  OBVIOUS
<1>2. listGets = <<g>> /\ g \in List!Get /\ g.list = listDb /\ ~g.overtaken
  BY <1>1 DEF List!Init, List!Get
<1>3. listGets \in Seq(List!Get) /\ Len(listGets) = 1 /\ listGets[1] = g
  BY <1>2
<1>4. List!TypeOK
  <2>1. /\ born \in SUBSET Listed /\ listDb = born /\ cases = {} /\ selectedCaseIds = {}
        /\ mergeModalOpen = FALSE /\ listTarget = {} /\ listClearOpen = FALSE
        /\ listCalls = {} /\ ghosts = {} /\ listBehind = FALSE
    BY DEF List!Init
  <2>2. Len(listGets) <= MaxLists
    BY <1>3 DEF List!ListAssumption
  <2>3. QED
    BY <1>3, <2>1, <2>2 DEF List!TypeOK
<1>5. ListComing
  BY <1>2, <1>3 DEF ListComing
<1>6. QED
  BY <1>2, <1>3, <1>4, <1>5 DEF ListInv, MergesAreOfTheTicks, TicksAreKnown, List!Init

\* The invariant of the list is inductive.
LEMMA ListSteps ==
    ASSUME List!ListAssumption, ListInv, [List!Next]_List!caseListVars
    PROVE  ListInv'
<1>1. ASSUME UNCHANGED List!caseListVars
      PROVE  ListInv'
  BY <1>1 DEF List!caseListVars, ListInv, List!TypeOK, MergesAreOfTheTicks, TicksAreKnown,
     ListMerging, ListComing
<1>2. QED
  BY <1>1, ToggleKeeps, ListDialogsKeep, HandlersKeep, ListRefreshKeeps, ListExecuteKeeps,
     OthersKeep,
     ListAnsweredKeeps, FailKeeps, ListReadListKeeps, ListLoadedKeeps, ListLoadFailsKeeps
  DEF List!Next

\* Every state of the list of cases is of its type: requests, ticks and loads on their
\* way are of cases there are, and as many as the bounds admit.
THEOREM ListsTypes == ASSUME List!ListAssumption PROVE List!Spec => []List!TypeOK
<1>1. ListInv /\ [List!Next]_List!caseListVars => ListInv'
  BY ListSteps
<1>2. ListInv => List!TypeOK
  BY DEF ListInv
<1>3. QED
  BY <1>1, <1>2, ListStart, PTL DEF List!Spec

\* Once nothing about the list is on its way it is the database's and what is ticked is
\* on it, but for the ticks that handleDeleteCase and handleClear leave behind, and
\* except after a change by others, a failure or a list put over a later one.
THEOREM TicksAreListed == ASSUME List!ListAssumption PROVE List!Spec => []List!TickedCasesAreListed
<1>1. ListInv /\ [List!Next]_List!caseListVars => ListInv'
  BY ListSteps
<1>2. ListInv => List!TickedCasesAreListed
  BY DEF ListInv, List!TickedCasesAreListed, ListComing, TicksAreKnown
<1>3. QED
  BY <1>1, <1>2, ListStart, PTL DEF List!Spec

-----------------------------------------------------------------------------
(* The queue of jobs (JobsScreen) *)

\* What the list shows of a status, and the order in which a job goes through
\* them when it does not come back to life.
States == Queue!Status \cup {"gone"}
Shown(s) == IF s = "gone" THEN "none" ELSE s
Rank(s) == CASE s = "none" -> 0 [] s = "active" -> 1 [] s \in Queue!Ended -> 2 [] s = "gone" -> 3

IsPoll(k) == queueGets[k].op = "poll"

\* The statuses the last poll accepted found, those each poll on its way has
\* found, and those of now are in order; what is remembered of a job is what the
\* last poll has found of it or before.
Follows(past, seen) ==
    /\ \A j \in Jobs : prevStatuses[j] = Shown(past[j]) /\ Rank(past[j]) <= Rank(status[j])
    /\ \A k \in 1..Len(queueGets) : IsPoll(k) =>
          \A j \in Jobs : /\ queueGets[k].list[j] = Shown(seen[k][j])
                          /\ Rank(past[j]) <= Rank(seen[k][j])
                          /\ Rank(seen[k][j]) <= Rank(status[j])
    /\ \A k, m \in 1..Len(queueGets) : k < m /\ IsPoll(k) /\ IsPoll(m) =>
          \A j \in Jobs : Rank(seen[k][j]) <= Rank(seen[m][j])
    /\ \A j \in Jobs : /\ j \in owed => past[j] \in {"active", "gone"}
                       /\ announced[j] <= 1
                       /\ announced[j] = 1 => Rank(past[j]) >= 2 /\ j \notin owed

Pasts == [Jobs -> States]
Followed == \E past \in Pasts : \E seen \in [1..Len(queueGets) -> Pasts] : Follows(past, seen)

\* Nothing is left of a screen that is closed.
OffScreen ==
    ~mounted => /\ queueGets = <<>> /\ queueCalls = {} /\ prevStatuses = Queue!Empty /\ owed = {}
                /\ announced = [j \in Jobs |-> 0]

QueueInv == Queue!TypeOK /\ OffScreen /\ (again \/ Followed)

\* The ranks of the states that a job goes through.
LEMMA QueueRanks ==
    ASSUME NEW s \in States
    PROVE  /\ Rank(s) \in 0..3 /\ Shown(s) \in Queue!Status
           /\ Rank(s) = 0 <=> s = "none"
           /\ Rank(s) = 1 <=> s = "active"
           /\ Rank(s) = 2 <=> s \in Queue!Ended
           /\ Rank(s) = 3 <=> s = "gone"
           /\ Shown(s) = "active" <=> s = "active"
           /\ Shown(s) \in Queue!Ended <=> s \in Queue!Ended
<1>1. s \in {"none", "active", "failed", "done", "gone"}
  BY DEF States, Queue!Status, Queue!Ended
<1>2. QED
  BY <1>1 DEF Rank, Shown, Queue!Status, Queue!Ended

\* What the invariant says of the types.
LEMMA QueueTypes ==
    ASSUME Queue!JobsAssumption, QueueInv
    PROVE  /\ status \in [Jobs -> States]
           /\ mounted \in BOOLEAN /\ jobs \in Queue!List /\ prevStatuses \in Queue!List
           /\ queueGets \in Seq(Queue!Get) /\ Len(queueGets) \in Nat /\ Len(queueGets) <= MaxGets
           /\ queueCalls \in SUBSET Queue!Call
           /\ retryingId \in Jobs \cup {None} /\ cancelingId \in Jobs \cup {None}
           /\ queueTarget \in Jobs \cup {None}
           /\ deletingJob \in BOOLEAN /\ clearing \in BOOLEAN /\ queueClearOpen \in BOOLEAN
           /\ again \in BOOLEAN
           /\ todo \in SUBSET Folders /\ stray \in SUBSET Folders
           /\ owed \in SUBSET Jobs /\ announced \in [Jobs -> 0..2]
BY DEF QueueInv, Queue!TypeOK, States, Queue!Status

\* A screen just opened follows nothing yet.
LEMMA NothingFollowed ==
    ASSUME status \in [Jobs -> States], queueGets = <<>>, prevStatuses = Queue!Empty, owed = {},
           announced = [j \in Jobs |-> 0]
    PROVE  Followed
<1>1. PICK past : past = [j \in Jobs |-> "none"]
  OBVIOUS
<1>2. past \in Pasts /\ \A j \in Jobs : past[j] = "none" /\ Rank(past[j]) = 0 /\ Shown(past[j]) = "none"
  <2>1. "none" \in States /\ Shown("none") = "none"
    BY DEF States, Queue!Status, Shown
  <2>2. Rank("none") = 0
    BY <2>1, QueueRanks
  <2>3. QED
    BY <1>1, <2>1, <2>2 DEF Pasts
<1>3. PICK seen : seen = [k \in 1..Len(queueGets) |-> past]
  OBVIOUS
<1>4. seen \in [1..Len(queueGets) -> Pasts] /\ Len(queueGets) = 0
  BY <1>2, <1>3
<1>5. \A j \in Jobs : Rank(status[j]) \in 0..3
  BY QueueRanks
<1>6. Follows(past, seen)
  BY <1>2, <1>4, <1>5 DEF Follows, Queue!Empty
<1>7. QED
  BY <1>2, <1>4, <1>6 DEF Followed

\* The same of a screen that a step opens.
LEMMA NothingFollowedNext ==
    ASSUME status' \in [Jobs -> States], queueGets' = <<>>, prevStatuses' = Queue!Empty, owed' = {},
           announced' = [j \in Jobs |-> 0]
    PROVE  Followed'
<1>1. PICK past : past = [j \in Jobs |-> "none"]
  OBVIOUS
<1>2. past \in Pasts /\ \A j \in Jobs : past[j] = "none" /\ Rank(past[j]) = 0 /\ Shown(past[j]) = "none"
  <2>1. "none" \in States /\ Shown("none") = "none"
    BY DEF States, Queue!Status, Shown
  <2>2. Rank("none") = 0
    BY <2>1, QueueRanks
  <2>3. QED
    BY <1>1, <2>1, <2>2 DEF Pasts
<1>3. PICK seen : seen = [k \in 1..Len(queueGets') |-> past]
  OBVIOUS
<1>4. seen \in [1..Len(queueGets') -> Pasts] /\ Len(queueGets') = 0
  BY <1>2, <1>3
<1>5. \A j \in Jobs : Rank(status'[j]) \in 0..3
  BY QueueRanks
<1>6. Follows(past, seen)'
  BY <1>2, <1>4, <1>5 DEF Follows, Queue!Empty
<1>7. QED
  BY <1>2, <1>4, <1>6 DEF Followed

\* The statuses that the backend may change to, while no job comes back to life.
Onward == \A j \in Jobs : Rank(status[j]) <= Rank(status'[j])

\* What was followed still is when jobs go on.
LEMMA JobsGoOn ==
    ASSUME Queue!JobsAssumption, QueueInv, status' \in [Jobs -> States], Onward, ~again, ~again',
           UNCHANGED <<prevStatuses, queueGets, owed, announced>>
    PROVE  Followed'
<1>1. PICK past \in Pasts, seen \in [1..Len(queueGets) -> Pasts] : Follows(past, seen)
  BY DEF QueueInv, Followed
<1>2. \A j \in Jobs : /\ Rank(past[j]) \in 0..3 /\ Rank(status[j]) \in 0..3 /\ Rank(status'[j]) \in 0..3
                      /\ \A k \in 1..Len(queueGets) : Rank(seen[k][j]) \in 0..3
  BY QueueRanks, QueueTypes DEF Pasts
<1>3. Follows(past, seen)'
  BY <1>1, <1>2 DEF Follows, Onward, IsPoll
<1>4. QED
  BY <1>1, <1>3 DEF Followed

\* An answer taken from those on their way.
LEMMA Taken ==
    ASSUME Queue!JobsAssumption, QueueInv, NEW i \in 1..Len(queueGets), Queue!RemoveGet(i)
    PROVE  /\ queueGets' \in Seq(Queue!Get) /\ Len(queueGets') = Len(queueGets) - 1 /\ Len(queueGets') <= MaxGets
           /\ \A k \in 1..Len(queueGets') : queueGets'[k] = IF k < i THEN queueGets[k] ELSE queueGets[k + 1]
<1>1. PICK rest : rest = SubSeq(queueGets, 1, i - 1) \o SubSeq(queueGets, i + 1, Len(queueGets))
  OBVIOUS
<1>2. queueGets \in Seq(Queue!Get) /\ Len(queueGets) \in Nat /\ Len(queueGets) <= MaxGets
  BY QueueTypes
<1>3. /\ rest \in Seq(Queue!Get) /\ Len(rest) = Len(queueGets) - 1
      /\ \A k \in 1..(Len(queueGets) - 1) : rest[k] = IF k < i THEN queueGets[k] ELSE queueGets[k + 1]
  BY <1>1, <1>2, RemovedAt
<1>4. queueGets' = rest
  BY <1>1 DEF Queue!RemoveGet
<1>5. QED
  BY <1>2, <1>3, <1>4 DEF Queue!JobsAssumption

\* An answer other than of a poll, or lost, changes nothing to what is followed.
LEMMA OthersFollow ==
    ASSUME Queue!JobsAssumption, QueueInv, ~again, NEW i \in 1..Len(queueGets), Queue!RemoveGet(i),
           UNCHANGED <<status, prevStatuses, owed, announced>>
    PROVE  Followed'
<1>1. PICK past \in Pasts, seen \in [1..Len(queueGets) -> Pasts] : Follows(past, seen)
  BY DEF QueueInv, Followed
<1>2. PICK n \in Nat : n = Len(queueGets) /\ i \in 1..n
  BY QueueTypes
<1>3. Len(queueGets') = n - 1 /\ \A k \in 1..(n - 1) : queueGets'[k] = IF k < i THEN queueGets[k] ELSE queueGets[k + 1]
  BY <1>2, Taken
<1>4. PICK left : left = [k \in 1..(n - 1) |-> IF k < i THEN seen[k] ELSE seen[k + 1]]
  OBVIOUS
<1>5. left \in [1..Len(queueGets') -> Pasts]
  BY <1>2, <1>3, <1>4
<1> DEFINE Old(k) == IF k < i THEN k ELSE k + 1
<1>6. \A k \in 1..(n - 1) : /\ Old(k) \in 1..n /\ queueGets'[k] = queueGets[Old(k)] /\ left[k] = seen[Old(k)]
                            /\ \A m \in 1..(n - 1) : k < m => Old(k) < Old(m)
  BY <1>2, <1>3, <1>4
<1>7. Follows(past, left)'
  <2> HIDE DEF Old
  <2>1. \A k \in 1..(n - 1) : IsPoll(k)' <=> IsPoll(Old(k))
    BY <1>6 DEF IsPoll
  <2>2. \A j \in Jobs : prevStatuses'[j] = Shown(past[j]) /\ Rank(past[j]) <= Rank(status'[j])
    BY <1>1 DEF Follows
  <2>3. \A k \in 1..(n - 1) : IsPoll(k)' =>
          \A j \in Jobs : /\ queueGets'[k].list[j] = Shown(left[k][j])
                          /\ Rank(past[j]) <= Rank(left[k][j])
                          /\ Rank(left[k][j]) <= Rank(status'[j])
    BY <1>1, <1>2, <1>6, <2>1 DEF Follows
  <2>4. \A k, m \in 1..(n - 1) : k < m /\ IsPoll(k)' /\ IsPoll(m)' =>
          \A j \in Jobs : Rank(left[k][j]) <= Rank(left[m][j])
    BY <1>1, <1>2, <1>6, <2>1 DEF Follows
  <2>5. \A j \in Jobs : /\ j \in owed' => past[j] \in {"active", "gone"}
                        /\ announced'[j] <= 1
                        /\ announced'[j] = 1 => Rank(past[j]) >= 2 /\ j \notin owed'
    BY <1>1 DEF Follows
  <2>6. QED
    BY <1>3, <2>2, <2>3, <2>4, <2>5 DEF Follows
<1>8. QED
  BY <1>1, <1>5, <1>7 DEF Followed

\* A list read is of now.
LEMMA ReadFollows ==
    ASSUME Queue!JobsAssumption, QueueInv, ~again, NEW op, Queue!Read(op),
           UNCHANGED <<status, prevStatuses, owed, announced>>
    PROVE  Followed'
<1>1. PICK past \in Pasts, seen \in [1..Len(queueGets) -> Pasts] : Follows(past, seen)
  BY DEF QueueInv, Followed
<1>2. PICK n \in Nat : n = Len(queueGets)
  BY QueueTypes
<1>3. PICK g : g = [op |-> op, list |-> Queue!ListNow]
  OBVIOUS
<1>4. queueGets' = Append(queueGets, g) /\ g.list = Queue!ListNow
  BY <1>3 DEF Queue!Read
<1>5. Len(queueGets') = n + 1 /\ queueGets'[n + 1] = g /\ \A k \in 1..n : queueGets'[k] = queueGets[k]
  BY <1>2, <1>4, QueueTypes
<1>6. PICK more : more = [k \in 1..(n + 1) |-> IF k = n + 1 THEN status ELSE seen[k]]
  OBVIOUS
<1>7. status \in Pasts
  BY QueueTypes DEF Pasts
<1>8. more \in [1..(n + 1) -> Pasts] /\ more[n + 1] = status /\ \A k \in 1..n : more[k] = seen[k]
  BY <1>1, <1>2, <1>6, <1>7
<1>9. \A j \in Jobs : g.list[j] = Shown(status[j]) /\ Rank(status[j]) \in 0..3
  BY <1>4, <1>7, QueueRanks DEF Queue!ListNow, Shown, Pasts
<1>10. \A j \in Jobs : prevStatuses'[j] = Shown(past[j]) /\ Rank(past[j]) <= Rank(status'[j])
  BY <1>1 DEF Follows
<1>11. ASSUME NEW k \in 1..(n + 1), IsPoll(k)', NEW j \in Jobs
       PROVE  /\ queueGets'[k].list[j] = Shown(more[k][j])
              /\ Rank(past[j]) <= Rank(more[k][j]) /\ Rank(more[k][j]) <= Rank(status'[j])
  <2>1. CASE k = n + 1
    BY <1>5, <1>8, <1>9, <1>10, <2>1
  <2>2. CASE k \in 1..n
    BY <1>1, <1>2, <1>5, <1>8, <1>11, <2>2 DEF Follows, IsPoll
  <2>3. QED
    BY <2>1, <2>2
<1>12. ASSUME NEW k \in 1..(n + 1), NEW m \in 1..(n + 1), k < m, IsPoll(k)', IsPoll(m)', NEW j \in Jobs
       PROVE  Rank(more[k][j]) <= Rank(more[m][j])
  <2>1. k \in 1..n
    BY <1>2, <1>12
  <2>2. CASE m = n + 1
    BY <1>8, <1>11, <1>12, <2>1, <2>2
  <2>3. CASE m \in 1..n
    BY <1>1, <1>2, <1>5, <1>8, <1>12, <2>1, <2>3 DEF Follows, IsPoll
  <2>4. QED
    BY <2>2, <2>3
<1>13. \A j \in Jobs : /\ j \in owed' => past[j] \in {"active", "gone"}
                       /\ announced'[j] <= 1
                       /\ announced'[j] = 1 => Rank(past[j]) >= 2 /\ j \notin owed'
  BY <1>1 DEF Follows
<1>14. Follows(past, more)'
  BY <1>5, <1>10, <1>11, <1>12, <1>13 DEF Follows
<1>15. QED
  BY <1>1, <1>5, <1>8, <1>14 DEF Followed

\* A poll in its turn: what it shows is what is compared with from now on.
LEMMA PollFollows ==
    ASSUME Queue!JobsAssumption, QueueInv, NEW i \in 1..Len(queueGets), Queue!PollAnswered(i), ~again'
    PROVE  Followed'
<1>1. ~again /\ \A k \in 1..(i - 1) : ~IsPoll(k)
  BY QueueTypes DEF Queue!PollAnswered, IsPoll
<1>2. PICK past \in Pasts, seen \in [1..Len(queueGets) -> Pasts] : Follows(past, seen)
  BY <1>1 DEF QueueInv, Followed
<1>3. PICK n \in Nat : n = Len(queueGets) /\ i \in 1..n
  BY QueueTypes
<1>4. IsPoll(i) /\ Queue!RemoveGet(i) /\ status' = status
  BY DEF Queue!PollAnswered, IsPoll
<1>5. Len(queueGets') = n - 1 /\ \A k \in 1..(n - 1) : queueGets'[k] = IF k < i THEN queueGets[k] ELSE queueGets[k + 1]
  BY <1>3, <1>4, Taken
<1>6. PICK left : left = [k \in 1..(n - 1) |-> IF k < i THEN seen[k] ELSE seen[k + 1]]
  OBVIOUS
<1>7. left \in [1..Len(queueGets') -> Pasts]
  BY <1>3, <1>5, <1>6
<1>8. PICK now \in Pasts : now = seen[i]
  BY <1>3
<1>9. \A j \in Jobs : /\ queueGets[i].list[j] = Shown(now[j]) /\ prevStatuses[j] = Shown(past[j])
                      /\ Rank(past[j]) <= Rank(now[j]) /\ Rank(now[j]) <= Rank(status[j])
  BY <1>2, <1>3, <1>4, <1>8 DEF Follows
<1>10. PICK list : list = queueGets[i].list
  OBVIOUS
<1> DEFINE toasted == {j \in Jobs : prevStatuses[j] = "active" /\ list[j] \in Queue!Ended}
<1>11. /\ prevStatuses' = list
       /\ owed' = (owed \ toasted) \cup {j \in Jobs : list[j] = "active"}
       /\ announced' = [j \in Jobs |-> IF j \in toasted /\ announced[j] < 2
                                       THEN announced[j] + 1 ELSE announced[j]]
  BY <1>10 DEF Queue!PollAnswered
<1>12. ASSUME NEW k \in 1..(n - 1), IsPoll(k)'
       PROVE  k >= i /\ k + 1 \in 1..n /\ k + 1 > i /\ IsPoll(k + 1)
              /\ queueGets'[k] = queueGets[k + 1] /\ left[k] = seen[k + 1]
  <2>1. k >= i
    BY <1>1, <1>3, <1>5, <1>12 DEF IsPoll
  <2>2. QED
    BY <1>3, <1>5, <1>6, <1>12, <2>1 DEF IsPoll
<1>13. \A j \in Jobs : prevStatuses'[j] = Shown(now[j]) /\ Rank(now[j]) <= Rank(status'[j])
  BY <1>4, <1>9, <1>10, <1>11
<1>14. ASSUME NEW k \in 1..(n - 1), IsPoll(k)', NEW j \in Jobs
       PROVE  /\ queueGets'[k].list[j] = Shown(left[k][j])
              /\ Rank(now[j]) <= Rank(left[k][j]) /\ Rank(left[k][j]) <= Rank(status'[j])
  <2>1. k + 1 \in 1..n /\ k + 1 > i /\ IsPoll(k + 1) /\ queueGets'[k] = queueGets[k + 1] /\ left[k] = seen[k + 1]
    BY <1>12, <1>14
  <2>2. QED
    BY <1>2, <1>3, <1>4, <1>8, <2>1 DEF Follows
<1>15. ASSUME NEW k \in 1..(n - 1), NEW m \in 1..(n - 1), k < m, IsPoll(k)', IsPoll(m)', NEW j \in Jobs
       PROVE  Rank(left[k][j]) <= Rank(left[m][j])
  <2>1. k + 1 \in 1..n /\ IsPoll(k + 1) /\ left[k] = seen[k + 1]
    BY <1>12, <1>15
  <2>2. m + 1 \in 1..n /\ IsPoll(m + 1) /\ left[m] = seen[m + 1] /\ k + 1 < m + 1
    BY <1>12, <1>15
  <2>3. QED
    BY <1>2, <1>3, <2>1, <2>2 DEF Follows
<1>16. ASSUME NEW j \in Jobs
       PROVE  /\ j \in owed' => now[j] \in {"active", "gone"}
              /\ announced'[j] <= 1
              /\ announced'[j] = 1 => Rank(now[j]) >= 2 /\ j \notin owed'
  <2>1. past[j] \in States /\ now[j] \in States
    BY DEF Pasts
  <2>2. /\ list[j] = Shown(now[j]) /\ prevStatuses[j] = Shown(past[j])
        /\ Rank(past[j]) <= Rank(now[j])
    BY <1>9, <1>10
  <2>3. /\ j \in owed => past[j] \in {"active", "gone"}
        /\ announced[j] <= 1 /\ announced[j] \in 0..2
        /\ announced[j] = 1 => Rank(past[j]) >= 2 /\ j \notin owed
    BY <1>2, QueueTypes DEF Follows
  <2>4. /\ Rank(past[j]) \in 0..3 /\ Rank(now[j]) \in 0..3
        /\ Rank(past[j]) = 1 <=> prevStatuses[j] = "active"
        /\ Rank(past[j]) = 1 <=> past[j] = "active"
        /\ Rank(past[j]) = 3 <=> past[j] = "gone"
        /\ Rank(now[j]) = 1 <=> now[j] = "active"
        /\ Rank(now[j]) = 1 <=> list[j] = "active"
        /\ Rank(now[j]) = 2 <=> list[j] \in Queue!Ended
        /\ Rank(now[j]) = 3 <=> now[j] = "gone"
    BY <2>1, <2>2, QueueRanks
  <2>5. j \in toasted <=> Rank(past[j]) = 1 /\ Rank(now[j]) = 2
    BY <2>4
  <2>6. j \in owed' <=> (j \in owed /\ j \notin toasted) \/ Rank(now[j]) = 1
    BY <1>11, <2>4
  <2>7. announced'[j] = IF j \in toasted /\ announced[j] < 2 THEN announced[j] + 1 ELSE announced[j]
    BY <1>11
  <2> HIDE DEF toasted
  <2>8. j \in owed' => Rank(now[j]) = 1 \/ Rank(now[j]) = 3
    BY <2>2, <2>3, <2>4, <2>5, <2>6
  <2>9. j \in owed' => now[j] \in {"active", "gone"}
    BY <2>4, <2>8
  <2>10. announced'[j] <= 1
    BY <2>3, <2>5, <2>7
  <2>11. announced'[j] = 1 => Rank(now[j]) >= 2 /\ j \notin owed'
    BY <2>2, <2>3, <2>4, <2>5, <2>6, <2>7
  <2>12. QED
    BY <2>9, <2>10, <2>11
<1>17. Follows(now, left)'
  BY <1>5, <1>13, <1>14, <1>15, <1>16 DEF Follows
<1>18. QED
  BY <1>7, <1>17 DEF Followed

-----------------------------------------------------------------------------

\* A refreshSignal leaves no poll on its way.
LEMMA Refreshing ==
    ASSUME Queue!JobsAssumption, QueueInv, Queue!RefreshSignal
    PROVE  /\ queueGets' \in Seq(Queue!Get) /\ Len(queueGets') <= MaxGets
           /\ \A k \in 1..Len(queueGets') : queueGets'[k].op # "poll"
<1>1. PICK n \in Nat : n = Len(queueGets) /\ n <= MaxGets /\ \A k \in 1..n : queueGets[k] \in Queue!Get
  BY QueueTypes
<1> DEFINE D == Seq(Queue!Get)
           step == [e \in (1..n) \X D |-> IF queueGets[e[1]].op = "poll" THEN e[2] ELSE Append(e[2], queueGets[e[1]])]
           Kept(g) == g = [k \in 0..n |-> IF k = 0 THEN << >>
                                          ELSE IF queueGets[k].op = "poll" THEN g[k - 1]
                                          ELSE Append(g[k - 1], queueGets[k])]
<1>2. step \in [(1..n) \X D -> D] /\ <<>> \in D
  BY <1>1
<1>3. PICK g : Steps(g, n, D, << >>, step)
  <2> HIDE DEF D, step
  <2>1. QED
    BY <1>2, StepsExist
<1>4. Kept(g)
  <2>1. g \in [0..n -> D] /\ g[0] = <<>>
    BY <1>3 DEF Steps
  <2>2. ASSUME NEW k \in 1..n
        PROVE  g[k] = IF queueGets[k].op = "poll" THEN g[k - 1] ELSE Append(g[k - 1], queueGets[k])
    <3>1. g[k] = step[<<k, g[k - 1]>>]
      BY <1>3 DEF Steps
    <3>2. k - 1 \in 0..n /\ g[k - 1] \in D
      BY <2>1
    <3>3. <<k, g[k - 1]>> \in (1..n) \X D
      BY <3>2
    <3>4. QED
      BY <3>1, <3>3
  <2>3. \A k \in 0..n : g[k] = IF k = 0 THEN << >> ELSE IF queueGets[k].op = "poll" THEN g[k - 1]
                               ELSE Append(g[k - 1], queueGets[k])
    <3> HIDE DEF D
    <3>1. TAKE k \in 0..n
    <3>2. CASE k = 0
      BY <2>1, <3>2
    <3>3. CASE k \in 1..n
      BY <2>2, <3>3
    <3>4. QED
      BY <3>2, <3>3
  <2>4. g = [k \in 0..n |-> g[k]]
    BY <2>1
  <2>5. QED
    BY <2>3, <2>4
<1>5. PICK rest : rest = CHOOSE h : Kept(h)
  OBVIOUS
<1>6. Kept(rest)
  BY <1>4, <1>5
<1>7. queueGets' = rest[n]
  BY <1>1, <1>5 DEF Queue!RefreshSignal
<1> DEFINE Quiet(s) == \A k \in 1..Len(s) : s[k].op # "poll"
           T == {m \in Nat : m <= n => rest[m] \in Seq(Queue!Get) /\ Len(rest[m]) <= m /\ Quiet(rest[m])}
<1>8. 0 \in T
  <2>1. rest[0] = <<>>
    BY <1>6
  <2>2. rest[0] \in Seq(Queue!Get) /\ Len(rest[0]) = 0
    BY <2>1
  <2>3. Quiet(rest[0])
    BY <2>2
  <2>4. QED
    BY <2>2, <2>3
<1>9. ASSUME NEW m \in T
      PROVE  m + 1 \in T
  <2>1. SUFFICES ASSUME m + 1 <= n
                 PROVE  rest[m + 1] \in Seq(Queue!Get) /\ Len(rest[m + 1]) <= m + 1 /\ Quiet(rest[m + 1])
    OBVIOUS
  <2>2. rest[m] \in Seq(Queue!Get) /\ Len(rest[m]) <= m /\ Quiet(rest[m])
    BY <2>1
  <2>3. rest[m + 1] = IF queueGets[m + 1].op = "poll" THEN rest[m] ELSE Append(rest[m], queueGets[m + 1])
    <3>1. m + 1 \in 0..n /\ m + 1 # 0 /\ (m + 1) - 1 = m
      BY <2>1
    <3>2. rest[m + 1] = IF queueGets[m + 1].op = "poll" THEN rest[(m + 1) - 1]
                        ELSE Append(rest[(m + 1) - 1], queueGets[m + 1])
      BY <1>6, <3>1
    <3>3. QED
      BY <3>1, <3>2
  <2>4. CASE queueGets[m + 1].op = "poll"
    BY <2>2, <2>3, <2>4
  <2>5. CASE queueGets[m + 1].op # "poll"
    <3>1. rest[m + 1] = Append(rest[m], queueGets[m + 1]) /\ queueGets[m + 1] \in Queue!Get
      BY <1>1, <2>1, <2>3, <2>5
    <3>2. QED
      BY <2>2, <2>5, <3>1
  <2>6. QED
    BY <2>4, <2>5
<1>10. n \in T
  BY <1>8, <1>9, Induct
<1>11. QED
  BY <1>1, <1>7, <1>10 DEF Queue!JobsAssumption

\* Without polls on their way only the past counts.
LEMMA RefreshFollows ==
    ASSUME Queue!JobsAssumption, QueueInv, ~again, Queue!RefreshSignal, status' \in [Jobs -> States], Onward,
           UNCHANGED <<prevStatuses, owed, announced>>
    PROVE  Followed'
<1>1. PICK past \in Pasts, seen \in [1..Len(queueGets) -> Pasts] : Follows(past, seen)
  BY DEF QueueInv, Followed
<1>2. PICK unseen : unseen = [k \in 1..Len(queueGets') |-> past]
  OBVIOUS
<1>3. unseen \in [1..Len(queueGets') -> Pasts]
  BY <1>1, <1>2
<1>4. \A k \in 1..Len(queueGets') : ~IsPoll(k)'
  BY Refreshing DEF IsPoll
<1>5. \A j \in Jobs : Rank(past[j]) \in 0..3 /\ Rank(status[j]) \in 0..3 /\ Rank(status'[j]) \in 0..3
  BY QueueRanks, QueueTypes DEF Pasts
<1>6. \A j \in Jobs : prevStatuses'[j] = Shown(past[j]) /\ Rank(past[j]) <= Rank(status'[j])
  BY <1>1, <1>5 DEF Follows, Onward
<1>7. \A j \in Jobs : /\ j \in owed' => past[j] \in {"active", "gone"}
                      /\ announced'[j] <= 1
                      /\ announced'[j] = 1 => Rank(past[j]) >= 2 /\ j \notin owed'
  BY <1>1 DEF Follows
<1>8. Follows(past, unseen)'
  BY <1>4, <1>6, <1>7 DEF Follows
<1>9. QED
  BY <1>1, <1>3, <1>8 DEF Followed

-----------------------------------------------------------------------------

\* What a step may do to the row of a job.
LEMMA Becomes ==
    ASSUME Queue!JobsAssumption, QueueInv, NEW j \in Jobs, NEW s \in States, Queue!Become(j, s)
    PROVE  /\ status' \in [Jobs -> Queue!Status \cup {"gone"}] /\ status' \in [Jobs -> States]
           /\ Rank(status[j]) <= Rank(s) => Onward
<1>1. status \in [Jobs -> States] /\ status' = [status EXCEPT ![j] = s]
  BY QueueTypes DEF Queue!Become
<1>2. status' \in [Jobs -> States] /\ \A k \in Jobs : status'[k] = IF k = j THEN s ELSE status[k]
  BY <1>1
<1>3. \A k \in Jobs : Rank(status[k]) \in 0..3
  BY <1>1, QueueRanks
<1>4. QED
  BY <1>2, <1>3 DEF States, Onward

\* Nothing becomes of any.
LEMMA NothingBecomes ==
    ASSUME Queue!JobsAssumption, QueueInv, UNCHANGED status
    PROVE  /\ status' \in [Jobs -> Queue!Status \cup {"gone"}] /\ status' \in [Jobs -> States]
           /\ Onward
<1>1. \A k \in Jobs : Rank(status[k]) \in 0..3
  BY QueueTypes, QueueRanks
<1>2. QED
  BY <1>1, QueueTypes DEF Onward, States

\* A job that is new has been seen by nobody.
LEMMA NewJobGoesOn ==
    ASSUME Queue!JobsAssumption, QueueInv, Queue!NewJob
    PROVE  /\ status' \in [Jobs -> Queue!Status \cup {"gone"}] /\ status' \in [Jobs -> States]
           /\ Onward
<1>1. CASE UNCHANGED status
  BY <1>1, NothingBecomes
<1>2. CASE \E j \in Jobs : status[j] = "none" /\ Queue!Become(j, "active")
  <2>1. PICK j \in Jobs : status[j] = "none" /\ Queue!Become(j, "active")
    BY <1>2
  <2>2. "active" \in States /\ "none" \in States
    BY DEF States, Queue!Status
  <2>3. Rank("none") = 0 /\ Rank("active") = 1
    BY <2>2, QueueRanks
  <2>4. QED
    BY <2>1, <2>2, <2>3, Becomes
<1>3. QED
  BY <1>1, <1>2 DEF Queue!NewJob

\* What a request does to a job takes it onward.
LEMMA EffectGoesOn ==
    ASSUME Queue!JobsAssumption, QueueInv, NEW c \in queueCalls, Queue!Effect(c)
    PROVE  /\ status' \in [Jobs -> Queue!Status \cup {"gone"}] /\ status' \in [Jobs -> States]
           /\ Onward
<1>1. c.op \in {"retry", "cancel", "delete", "clear"} /\ c.job \in Jobs \cup {None}
  BY QueueTypes DEF Queue!Call
<1>2. status \in [Jobs -> States] /\ "done" \in States /\ "gone" \in States
  BY QueueTypes DEF States, Queue!Status, Queue!Ended
<1>3. Rank("done") = 2 /\ Rank("gone") = 3 /\ \A k \in Jobs : Rank(status[k]) \in 0..3
  BY <1>2, QueueRanks DEF Queue!Ended
<1>4. CASE c.op = "retry"
  BY <1>4, NewJobGoesOn DEF Queue!Effect
<1>5. ASSUME NEW s \in {"done", "gone"}, Queue!Become(c.job, s),
             c.job \in Jobs => status[c.job] \in Queue!Ended \cup {"active"},
             s = "done" => status[c.job] = "active"
      PROVE  /\ status' \in [Jobs -> Queue!Status \cup {"gone"}] /\ status' \in [Jobs -> States]
             /\ Onward
  <2>1. CASE c.job \in Jobs
    <3>1. status[c.job] \in States
      BY <1>2, <2>1
    <3>2. Rank(status[c.job]) <= Rank(s)
      BY <1>3, <1>5, <2>1, <3>1, QueueRanks
    <3>3. QED
      BY <1>2, <1>5, <2>1, <3>2, Becomes
  <2>2. CASE c.job \notin Jobs
    <3>1. status' = status
      BY <1>2, <1>5, <2>2 DEF Queue!Become
    <3>2. QED
      BY <3>1, NothingBecomes
  <2>3. QED
    BY <2>1, <2>2
<1>6. CASE c.op = "cancel"
  <2>1. status[c.job] = "active" /\ Queue!Become(c.job, "done")
    BY <1>6 DEF Queue!Effect
  <2>2. QED
    BY <1>5, <2>1
<1>7. CASE c.op = "delete"
  <2>1. status[c.job] \in Queue!Ended /\ Queue!Become(c.job, "gone")
    BY <1>7 DEF Queue!Effect
  <2>2. QED
    BY <1>5, <2>1
<1>8. CASE c.op = "clear"
  <2>1. PICK scope \in {{"failed"}, Queue!Ended} :
             status' = [j \in Jobs |-> IF status[j] \in scope THEN "gone" ELSE status[j]]
    BY <1>8 DEF Queue!Effect
  <2>2. status' \in [Jobs -> States] /\ \A j \in Jobs : status'[j] \in {"gone", status[j]}
    BY <1>2, <2>1
  <2>3. QED
    BY <1>3, <2>2 DEF Onward, States
<1>9. QED
  BY <1>1, <1>4, <1>6, <1>7, <1>8

\* The screen opens, or is gone.
LEMMA FreshStart ==
    ASSUME Queue!JobsAssumption, QueueInv, Queue!Fresh, status' \in [Jobs -> Queue!Status \cup {"gone"}],
           mounted' \in BOOLEAN, queueGets' = <<>>, queueCalls' = {},
           todo' \in SUBSET Folders, stray' \in SUBSET Folders
    PROVE  QueueInv'
<1>1. /\ prevStatuses' = Queue!Empty /\ jobs' = Queue!Empty /\ owed' = {} /\ announced' = [j \in Jobs |-> 0]
      /\ again' = FALSE
  BY DEF Queue!Fresh
<1>2. Queue!Empty \in Queue!List
  BY DEF Queue!Empty, Queue!List, Queue!Status
<1>3. queueGets' \in Seq(Queue!Get) /\ Len(queueGets') <= MaxGets
  BY DEF Queue!JobsAssumption
<1>4. {retryingId, cancelingId, queueTarget}' \subseteq Jobs \cup {None}
  BY DEF Queue!Fresh
<1>5. {deletingJob, clearing, queueClearOpen, again}' \subseteq BOOLEAN
  BY DEF Queue!Fresh
<1>6. Queue!TypeOK'
  BY <1>1, <1>2, <1>3, <1>4, <1>5 DEF Queue!TypeOK
<1>7. status' \in [Jobs -> States]
  BY DEF States
<1>8. Followed'
  BY <1>1, <1>7, NothingFollowedNext
<1>9. QED
  BY <1>1, <1>6, <1>8 DEF QueueInv, OffScreen

\* Opening the screen keeps the invariant.
LEMMA MountKeeps ==
    ASSUME Queue!JobsAssumption, QueueInv, Queue!Mount
    PROVE  QueueInv'
BY FreshStart, QueueTypes, NothingBecomes DEF Queue!Mount, Queue!OpenScreen, Queue!formVars,
   QueueInv, OffScreen

\* So does leaving it, which forgets all it had seen.
LEMMA QueueUnmountKeeps ==
    ASSUME Queue!JobsAssumption, QueueInv, Queue!Unmount
    PROVE  QueueInv'
BY FreshStart, QueueTypes, NothingBecomes DEF Queue!Unmount, Queue!formVars

\* The backend works on the jobs.
LEMMA JobChangesKeeps ==
    ASSUME Queue!JobsAssumption, QueueInv, NEW j \in Jobs, Queue!JobChanges(j)
    PROVE  QueueInv'
<1>1. status \in [Jobs -> States] /\ again \in BOOLEAN /\ mounted \in BOOLEAN
  BY QueueTypes
<1>2. /\ \A s \in Queue!Ended : s \in States
      /\ "active" \in States /\ "gone" \in States /\ "none" \in States /\ "failed" \in States
  BY DEF States, Queue!Status, Queue!Ended
<1>3. /\ \A s \in Queue!Ended : Rank(s) = 2
      /\ Rank("active") = 1 /\ Rank("gone") = 3 /\ Rank("none") = 0 /\ Rank("failed") = 2
  BY <1>2, QueueRanks DEF Queue!Ended
<1>4. PICK s \in States :
         /\ Queue!Become(j, s)
         /\ Rank(status[j]) <= Rank(s) \/ (status[j] = "failed" /\ s = "active")
  <2>1. CASE status[j] \in {"none", "failed"} /\ Queue!Become(j, "active")
    BY <1>2, <1>3, <2>1
  <2>2. CASE status[j] = "active" /\ \E s \in Queue!Ended : Queue!Become(j, s)
    BY <1>2, <1>3, <2>2
  <2>3. CASE status[j] \in Queue!Ended /\ Queue!Become(j, "gone")
    BY <1>2, <1>3, <2>3
  <2>4. QED
    BY <2>1, <2>2, <2>3 DEF Queue!JobChanges
<1>5. status' \in [Jobs -> Queue!Status \cup {"gone"}] /\ status' \in [Jobs -> States] /\ status'[j] = s
  <2>1. status'[j] = s
    BY <1>1, <1>4 DEF Queue!Become
  <2>2. QED
    BY <1>4, <2>1, Becomes
<1>6. again' = (again \/ (mounted /\ status[j] = "failed" /\ status'[j] = "active"))
  BY DEF Queue!JobChanges
<1>7. again' \in BOOLEAN /\ (again => again')
  BY <1>1, <1>6
<1>8. UNCHANGED <<mounted, jobs, prevStatuses, owed, announced, queueGets, queueCalls, Queue!dialogVars, Queue!formVars>>
  BY DEF Queue!JobChanges
<1>9. Queue!TypeOK'
  BY <1>5, <1>7, <1>8 DEF QueueInv, Queue!TypeOK, Queue!dialogVars, Queue!formVars
<1>10. OffScreen'
  BY <1>8 DEF QueueInv, OffScreen
<1>11. ASSUME ~again'
       PROVE  Followed'
  <2>1. ~again
    BY <1>7, <1>11
  <2>2. CASE Rank(status[j]) <= Rank(s)
    <3>1. Onward
      BY <1>4, <2>2, Becomes
    <3>2. QED
      BY <1>5, <1>8, <1>11, <2>1, <3>1, JobsGoOn
  <2>3. CASE status[j] = "failed" /\ s = "active"
    <3>1. ~mounted
      BY <1>5, <1>6, <1>11, <2>3
    <3>2. /\ queueGets' = <<>> /\ prevStatuses' = Queue!Empty /\ owed' = {}
          /\ announced' = [i \in Jobs |-> 0]
      BY <1>8, <3>1 DEF QueueInv, OffScreen
    <3>3. QED
      BY <1>5, <3>2, NothingFollowedNext
  <2>4. QED
    BY <1>4, <2>2, <2>3
<1>12. QED
  BY <1>9, <1>10, <1>11 DEF QueueInv

\* A list read and on its way.
LEMMA QueueReading ==
    ASSUME Queue!JobsAssumption, QueueInv, NEW op \in {"poll", "retry", "cancel", "delete", "clear"}, Queue!Read(op)
    PROVE  queueGets' \in Seq(Queue!Get) /\ Len(queueGets') <= MaxGets
<1>1. Queue!ListNow \in Queue!List
  <2>1. \A j \in Jobs : Queue!ListNow[j] = Shown(status[j])
    BY DEF Queue!ListNow, Shown
  <2>2. QED
    BY <2>1, QueueTypes, QueueRanks DEF Queue!ListNow, Queue!List
<1>2. PICK g : g = [op |-> op, list |-> Queue!ListNow]
  OBVIOUS
<1>3. g \in Queue!Get /\ queueGets' = Append(queueGets, g) /\ Len(queueGets) < MaxGets
  BY <1>1, <1>2 DEF Queue!Get, Queue!Read
<1>4. QED
  BY <1>3, QueueTypes DEF Queue!JobsAssumption

\* The interval asks for the list.
LEMMA PollKeeps ==
    ASSUME Queue!JobsAssumption, QueueInv, Queue!Poll
    PROVE  QueueInv'
<1>1. Queue!Read("poll") /\ mounted /\ UNCHANGED <<status, mounted, Queue!screenVars, queueCalls, Queue!dialogVars, Queue!formVars>>
  BY DEF Queue!Poll
<1>2. queueGets' \in Seq(Queue!Get) /\ Len(queueGets') <= MaxGets
  BY <1>1, QueueReading
<1>3. Queue!TypeOK'
  BY <1>1, <1>2 DEF QueueInv, Queue!TypeOK, Queue!screenVars, Queue!dialogVars, Queue!formVars
<1>4. again \/ Followed'
  BY <1>1, ReadFollows DEF Queue!screenVars
<1>5. QED
  BY <1>1, <1>3, <1>4 DEF QueueInv, OffScreen, Queue!screenVars

\* A load that an action asks for keeps the invariant.
LEMMA LoadKeeps ==
    ASSUME Queue!JobsAssumption, QueueInv, NEW c \in queueCalls, Queue!Load(c)
    PROVE  QueueInv'
<1>1. /\ Queue!Read(c.op) /\ queueCalls' = queueCalls \ {c}
      /\ UNCHANGED <<status, mounted, Queue!screenVars, Queue!dialogVars, Queue!formVars>>
  BY DEF Queue!Load
<1>2. c.op \in {"poll", "retry", "cancel", "delete", "clear"}
  BY QueueTypes DEF Queue!Call
<1>3. queueGets' \in Seq(Queue!Get) /\ Len(queueGets') <= MaxGets
  BY <1>1, <1>2, QueueReading
<1>4. Queue!TypeOK'
  BY <1>1, <1>3 DEF QueueInv, Queue!TypeOK, Queue!screenVars, Queue!dialogVars, Queue!formVars
<1>5. again \/ Followed'
  BY <1>1, ReadFollows DEF Queue!screenVars
<1>6. QED
  BY <1>1, <1>4, <1>5 DEF QueueInv, OffScreen, Queue!screenVars

\* The buttons after an answer.
LEMMA Finishing ==
    ASSUME Queue!JobsAssumption, QueueInv, NEW op, Queue!Finish(op)
    PROVE  /\ {retryingId, cancelingId}' \subseteq Jobs \cup {None}
           /\ {deletingJob, clearing}' \subseteq BOOLEAN
<1>1. deletingJob' \in BOOLEAN
  BY QueueTypes DEF Queue!Finish
<1>2. clearing' \in BOOLEAN
  BY QueueTypes DEF Queue!Finish
<1>3. retryingId' \in Jobs \cup {None} /\ cancelingId' \in Jobs \cup {None}
  BY QueueTypes DEF Queue!Finish
<1>4. QED
  BY <1>1, <1>2, <1>3

\* Every answer is a list of the jobs.
LEMMA ListsInAnswers ==
    ASSUME Queue!JobsAssumption, QueueInv, NEW i \in 1..Len(queueGets)
    PROVE  queueGets[i].list \in Queue!List
<1>1. queueGets[i] \in Queue!Get
  BY QueueTypes
<1>2. QED
  BY <1>1 DEF Queue!Get

\* A closed screen has no answer on its way.
LEMMA MountedWithAnswers ==
    ASSUME QueueInv, NEW i \in 1..Len(queueGets)
    PROVE  mounted
BY DEF QueueInv, OffScreen

\* A poll that arrives is compared with the previous list: ends are announced.
LEMMA PollAnsweredKeeps ==
    ASSUME Queue!JobsAssumption, QueueInv, NEW i \in 1..Len(queueGets), Queue!PollAnswered(i)
    PROVE  QueueInv'
<1>1. mounted /\ UNCHANGED <<status, mounted, queueCalls, Queue!dialogVars, Queue!formVars>> /\ Queue!RemoveGet(i)
  BY MountedWithAnswers DEF Queue!PollAnswered
<1>2. queueGets' \in Seq(Queue!Get) /\ Len(queueGets') <= MaxGets
  BY <1>1, Taken
<1>3. queueGets[i].list \in Queue!List
  BY ListsInAnswers
<1>4. jobs' \in Queue!List /\ prevStatuses' \in Queue!List
  BY <1>3 DEF Queue!PollAnswered
<1>5. again' \in BOOLEAN
  BY QueueTypes DEF Queue!PollAnswered
<1>6. PICK toasted : toasted = {j \in Jobs : prevStatuses[j] = "active" /\ queueGets[i].list[j] \in Queue!Ended}
  OBVIOUS
<1>7. owed' \in SUBSET Jobs
  <2>1. owed' = IF again' THEN {} ELSE (owed \ toasted) \cup {j \in Jobs : queueGets[i].list[j] = "active"}
    BY <1>6 DEF Queue!PollAnswered
  <2>2. QED
    BY <2>1, QueueTypes
<1>8. announced' \in [Jobs -> 0..2]
  <2>1. announced' = [j \in Jobs |-> IF again' THEN 0
                                     ELSE IF j \in toasted /\ announced[j] < 2
                                     THEN announced[j] + 1 ELSE announced[j]]
    BY <1>6 DEF Queue!PollAnswered
  <2>2. \A j \in Jobs : announced[j] \in 0..2
    BY QueueTypes
  <2>3. QED
    BY <2>1, <2>2
<1>9. {deletingJob, clearing, queueClearOpen, again}' \subseteq BOOLEAN
  BY <1>1, <1>5, QueueTypes DEF Queue!dialogVars
<1>10. {retryingId, cancelingId, queueTarget}' \subseteq Jobs \cup {None}
  BY <1>1, QueueTypes DEF Queue!dialogVars
<1>11. Queue!TypeOK'
  BY <1>1, <1>2, <1>4, <1>7, <1>8, <1>9, <1>10 DEF QueueInv, Queue!TypeOK, Queue!dialogVars,
     Queue!formVars
<1>12. again' \/ Followed'
  BY PollFollows
<1>13. QED
  BY <1>1, <1>11, <1>12 DEF QueueInv, OffScreen

\* A load that arrives is not compared, but becomes what the next poll is compared with.
LEMMA LoadAnsweredKeeps ==
    ASSUME Queue!JobsAssumption, QueueInv, NEW i \in 1..Len(queueGets), Queue!LoadAnswered(i)
    PROVE  QueueInv'
<1>1. /\ mounted /\ Queue!RemoveGet(i) /\ Queue!Finish(queueGets[i].op)
      /\ UNCHANGED <<status, mounted, prevStatuses, owed, announced, again, queueCalls,
                     queueTarget, queueClearOpen, Queue!formVars>>
  BY MountedWithAnswers DEF Queue!LoadAnswered
<1>2. queueGets' \in Seq(Queue!Get) /\ Len(queueGets') <= MaxGets
  BY <1>1, Taken
<1>3. jobs' \in Queue!List
  BY ListsInAnswers DEF Queue!LoadAnswered
<1>4. /\ {retryingId, cancelingId}' \subseteq Jobs \cup {None}
      /\ {deletingJob, clearing}' \subseteq BOOLEAN
  BY <1>1, Finishing
<1>5. Queue!TypeOK'
  BY <1>1, <1>2, <1>3, <1>4 DEF QueueInv, Queue!TypeOK, Queue!formVars
<1>6. again \/ Followed'
  BY <1>1, OthersFollow
<1>7. QED
  BY <1>1, <1>5, <1>6 DEF QueueInv, OffScreen

\* A list that does not arrive changes nothing shown.
LEMMA GetFailsKeeps ==
    ASSUME Queue!JobsAssumption, QueueInv, NEW i \in 1..Len(queueGets), Queue!GetFails(i)
    PROVE  QueueInv'
<1>1. /\ mounted /\ Queue!RemoveGet(i) /\ Queue!Finish(queueGets[i].op)
      /\ UNCHANGED <<status, mounted, Queue!screenVars, queueCalls, queueTarget, queueClearOpen, Queue!formVars>>
  BY MountedWithAnswers DEF Queue!GetFails
<1>2. queueGets' \in Seq(Queue!Get) /\ Len(queueGets') <= MaxGets
  BY <1>1, Taken
<1>3. /\ {retryingId, cancelingId}' \subseteq Jobs \cup {None}
      /\ {deletingJob, clearing}' \subseteq BOOLEAN
  BY <1>1, Finishing
<1>4. Queue!TypeOK'
  BY <1>1, <1>2, <1>3 DEF QueueInv, Queue!TypeOK, Queue!screenVars, Queue!formVars
<1>5. again \/ Followed'
  BY <1>1, OthersFollow DEF Queue!screenVars
<1>6. QED
  BY <1>1, <1>4, <1>5 DEF QueueInv, OffScreen, Queue!screenVars

\* A step of the buttons, the dialogs or the form alone.
LEMMA SameFollow ==
    ASSUME Queue!JobsAssumption, QueueInv, UNCHANGED <<status, mounted, Queue!screenVars, queueGets>>,
           queueCalls' \in SUBSET Queue!Call, mounted \/ queueCalls' = queueCalls,
           {retryingId, cancelingId, queueTarget}' \subseteq Jobs \cup {None},
           {deletingJob, clearing, queueClearOpen}' \subseteq BOOLEAN,
           todo' \in SUBSET Folders, stray' \in SUBSET Folders
    PROVE  QueueInv'
<1>1. Queue!TypeOK'
  BY DEF QueueInv, Queue!TypeOK, Queue!screenVars
<1>2. Followed => Followed'
  BY DEF Followed, Follows, IsPoll, Queue!screenVars
<1>3. QED
  BY <1>1, <1>2 DEF QueueInv, OffScreen, Queue!screenVars

\* What sending a request changes.
LEMMA Sending ==
    ASSUME Queue!JobsAssumption, QueueInv, NEW op \in {"retry", "cancel", "delete", "clear"},
           NEW j \in Jobs \cup {None}, Queue!Send(op, j)
    PROVE  queueCalls' \in SUBSET Queue!Call /\ mounted /\ UNCHANGED <<status, mounted, Queue!screenVars, queueGets, todo, stray>>
<1>1. PICK c : c = [op |-> op, job |-> j, pc |-> "sent"]
  OBVIOUS
<1>2. c \in Queue!Call
  BY <1>1 DEF Queue!Call
<1>3. QED
  BY <1>1, <1>2, QueueTypes DEF Queue!Send, Queue!formVars

\* Asking to run a job again keeps the invariant.
LEMMA RetryKeeps ==
    ASSUME Queue!JobsAssumption, QueueInv, NEW j \in Jobs, Queue!HandleRetry(j)
    PROVE  QueueInv'
<1>1. queueCalls' \in SUBSET Queue!Call /\ mounted /\ UNCHANGED <<status, mounted, Queue!screenVars, queueGets, todo, stray>>
  BY Sending DEF Queue!HandleRetry
<1>2. QED
  BY <1>1, SameFollow, QueueTypes DEF Queue!HandleRetry

\* Asking to stop one does.
LEMMA CancelKeeps ==
    ASSUME Queue!JobsAssumption, QueueInv, NEW j \in Jobs, Queue!HandleCancel(j)
    PROVE  QueueInv'
<1>1. queueCalls' \in SUBSET Queue!Call /\ mounted /\ UNCHANGED <<status, mounted, Queue!screenVars, queueGets, todo, stray>>
  BY Sending DEF Queue!HandleCancel
<1>2. QED
  BY <1>1, SameFollow, QueueTypes DEF Queue!HandleCancel

\* Asking to delete one does.
LEMMA DeleteKeeps ==
    ASSUME Queue!JobsAssumption, QueueInv, Queue!HandleDeleteJob
    PROVE  QueueInv'
<1>1. queueCalls' \in SUBSET Queue!Call /\ mounted /\ UNCHANGED <<status, mounted, Queue!screenVars, queueGets, todo, stray>>
  BY Sending, QueueTypes DEF Queue!HandleDeleteJob
<1>2. QED
  BY <1>1, SameFollow, QueueTypes DEF Queue!HandleDeleteJob

\* Asking to clear the history does.
LEMMA QueueClearKeeps ==
    ASSUME Queue!JobsAssumption, QueueInv, Queue!HandleClear
    PROVE  QueueInv'
<1>1. queueCalls' \in SUBSET Queue!Call /\ mounted /\ UNCHANGED <<status, mounted, Queue!screenVars, queueGets, todo, stray>>
  BY Sending DEF Queue!HandleClear
<1>2. QED
  BY <1>1, SameFollow, QueueTypes DEF Queue!HandleClear

\* Opening and closing the dialogs of the queue keep it.
LEMMA QueueDialogsKeep ==
    ASSUME Queue!JobsAssumption, QueueInv, Queue!Dialogs
    PROVE  QueueInv'
<1>1. /\ mounted
      /\ UNCHANGED <<status, mounted, Queue!screenVars, queueGets, queueCalls, retryingId, cancelingId, deletingJob,
                     clearing, Queue!formVars>>
  BY DEF Queue!Dialogs
<1>2. queueTarget' \in Jobs \cup {None} /\ queueClearOpen' \in BOOLEAN
  BY QueueTypes DEF Queue!Dialogs
<1>3. QED
  BY <1>1, <1>2, SameFollow, QueueTypes DEF Queue!formVars

\* The database changes under the screen.
LEMMA BackendKeeps ==
    ASSUME Queue!JobsAssumption, QueueInv, status' \in [Jobs -> Queue!Status \cup {"gone"}], Onward,
           UNCHANGED <<mounted, Queue!screenVars, queueGets>>,
           queueCalls' \in SUBSET Queue!Call, queueCalls = {} => queueCalls' = {},
           {retryingId, cancelingId, queueTarget}' \subseteq Jobs \cup {None},
           {deletingJob, clearing, queueClearOpen}' \subseteq BOOLEAN,
           todo' \in SUBSET Folders, stray' \in SUBSET Folders
    PROVE  QueueInv'
<1>1. Queue!TypeOK'
  BY DEF QueueInv, Queue!TypeOK, Queue!screenVars
<1>2. status' \in [Jobs -> States]
  BY DEF States
<1>3. again \/ Followed'
  BY <1>2, JobsGoOn DEF Queue!screenVars
<1>4. QED
  BY <1>1, <1>3 DEF QueueInv, OffScreen, Queue!screenVars

\* A request that is answered asks for a load.
LEMMA CallDoneKeeps ==
    ASSUME Queue!JobsAssumption, QueueInv, NEW c \in queueCalls, Queue!CallDone(c)
    PROVE  QueueInv'
<1>1. status' \in [Jobs -> Queue!Status \cup {"gone"}] /\ Onward
  BY EffectGoesOn DEF Queue!CallDone
<1>2. PICK d : d = [c EXCEPT !.pc = "load"]
  OBVIOUS
<1>3. c \in Queue!Call /\ d \in Queue!Call
  BY <1>2, QueueTypes DEF Queue!Call
<1>4. queueCalls' \in SUBSET Queue!Call /\ queueCalls # {}
  BY <1>2, <1>3, QueueTypes DEF Queue!CallDone
<1>5. queueTarget' \in Jobs \cup {None}
  BY QueueTypes DEF Queue!CallDone
<1>6. queueClearOpen' \in BOOLEAN
  BY QueueTypes DEF Queue!CallDone
<1>7. UNCHANGED <<mounted, Queue!screenVars, queueGets, retryingId, cancelingId, deletingJob, clearing, Queue!formVars>>
  BY DEF Queue!CallDone
<1>8. QED
  BY <1>1, <1>4, <1>5, <1>6, <1>7, BackendKeeps, QueueTypes DEF Queue!formVars

\* A request that fails keeps the invariant.
LEMMA QueueCallFailsKeeps ==
    ASSUME Queue!JobsAssumption, QueueInv, NEW c \in queueCalls, Queue!CallFails(c)
    PROVE  QueueInv'
<1>1. /\ queueCalls' = queueCalls \ {c} /\ Queue!Finish(c.op)
      /\ UNCHANGED <<status, mounted, Queue!screenVars, queueGets, queueTarget, queueClearOpen, Queue!formVars>>
  BY DEF Queue!CallFails
<1>2. /\ {retryingId, cancelingId}' \subseteq Jobs \cup {None}
      /\ {deletingJob, clearing}' \subseteq BOOLEAN
  BY <1>1, Finishing
<1>3. mounted
  BY QueueTypes DEF QueueInv, OffScreen
<1>4. QED
  BY <1>1, <1>2, <1>3, SameFollow, QueueTypes DEF Queue!formVars

\* Submitting the form for new jobs keeps it.
LEMMA SubmitKeeps ==
    ASSUME Queue!JobsAssumption, QueueInv, Queue!HandleSubmit
    PROVE  QueueInv'
<1>1. /\ todo' \in SUBSET Folders
      /\ UNCHANGED <<status, mounted, Queue!screenVars, queueGets, queueCalls, Queue!dialogVars, stray>>
  BY DEF Queue!HandleSubmit
<1>2. QED
  BY <1>1, SameFollow, QueueTypes DEF Queue!dialogVars

\* A job that is not created keeps it.
LEMMA CreationFailsKeeps ==
    ASSUME Queue!JobsAssumption, QueueInv, NEW f \in Folders, Queue!CreationFails(f)
    PROVE  QueueInv'
<1>1. UNCHANGED <<status, mounted, Queue!screenVars, queueGets, queueCalls, Queue!dialogVars>>
  BY DEF Queue!CreationFails
<1>2. todo' \in SUBSET Folders /\ stray' \in SUBSET Folders
  BY QueueTypes DEF Queue!CreationFails
<1>3. QED
  BY <1>1, <1>2, SameFollow, QueueTypes DEF Queue!dialogVars

\* One that is created is new.
LEMMA CreatedKeeps ==
    ASSUME Queue!JobsAssumption, QueueInv, NEW f \in Folders, Queue!Created(f)
    PROVE  QueueInv'
<1>1. /\ status' \in [Jobs -> Queue!Status \cup {"gone"}] /\ status' \in [Jobs -> States] /\ Onward
      /\ UNCHANGED queueCalls
  BY NewJobGoesOn DEF Queue!Created
<1>2. todo' \in SUBSET Folders /\ stray' \in SUBSET Folders
  BY QueueTypes DEF Queue!Created
<1>3. CASE UNCHANGED <<mounted, queueGets, Queue!screenVars, Queue!dialogVars>>
  BY <1>1, <1>2, <1>3, BackendKeeps, QueueTypes DEF Queue!dialogVars
<1>4. CASE ~mounted /\ Queue!OpenScreen /\ UNCHANGED queueGets
  <2>1. queueGets' = <<>> /\ queueCalls' = {}
    BY <1>1, <1>4 DEF QueueInv, OffScreen
  <2>2. QED
    BY <1>1, <1>2, <1>4, <2>1, FreshStart DEF Queue!OpenScreen
<1>5. CASE mounted /\ Queue!RefreshSignal /\ UNCHANGED <<mounted, Queue!screenVars, Queue!dialogVars>>
  <2>1. queueGets' \in Seq(Queue!Get) /\ Len(queueGets') <= MaxGets
    BY <1>5, Refreshing
  <2>2. Queue!TypeOK'
    BY <1>1, <1>2, <1>5, <2>1 DEF QueueInv, Queue!TypeOK, Queue!screenVars, Queue!dialogVars
  <2>3. again \/ Followed'
    BY <1>1, <1>5, RefreshFollows DEF Queue!screenVars
  <2>4. QED
    BY <1>5, <2>2, <2>3 DEF QueueInv, OffScreen, Queue!screenVars
<1>6. QED
  BY <1>3, <1>4, <1>5 DEF Queue!Created

\* No screen and no job: the invariant of the queue holds.
LEMMA QueueStart ==
    ASSUME Queue!JobsAssumption, Queue!Init
    PROVE  QueueInv
<1>1. status \in [Jobs -> Queue!Status \cup {"gone"}] /\ status \in [Jobs -> States]
  BY DEF Queue!Init, Queue!Status, Queue!Ended, States
<1>2. jobs \in Queue!List /\ prevStatuses \in Queue!List /\ queueGets \in Seq(Queue!Get) /\ Len(queueGets) <= MaxGets
  BY DEF Queue!Init, Queue!Empty, Queue!List, Queue!Status, Queue!JobsAssumption
<1>3. Queue!TypeOK
  <2>1. announced \in [Jobs -> 0..2] /\ owed \in SUBSET Jobs /\ queueCalls \in SUBSET Queue!Call
    BY DEF Queue!Init
  <2>2. /\ {retryingId, cancelingId, queueTarget} \subseteq Jobs \cup {None}
        /\ {deletingJob, clearing, queueClearOpen, again} \subseteq BOOLEAN /\ mounted \in BOOLEAN
        /\ todo \in SUBSET Folders /\ stray \in SUBSET Folders
    BY DEF Queue!Init
  <2>3. QED
    BY <1>1, <1>2, <2>1, <2>2 DEF Queue!TypeOK
<1>4. Followed
  BY <1>1, NothingFollowed DEF Queue!Init
<1>5. QED
  BY <1>3, <1>4 DEF Queue!Init, QueueInv, OffScreen

\* The invariant of the queue is inductive.
LEMMA QueueSteps ==
    ASSUME Queue!JobsAssumption, QueueInv, [Queue!Next]_Queue!jobsVars
    PROVE  QueueInv'
<1>1. CASE UNCHANGED Queue!jobsVars
  BY <1>1, SameFollow, QueueTypes DEF Queue!jobsVars, Queue!dialogVars, Queue!formVars
<1>2. CASE Queue!Next
  BY <1>2, MountKeeps, QueueUnmountKeeps, PollKeeps, QueueDialogsKeep, DeleteKeeps,
     QueueClearKeeps, SubmitKeeps,
     JobChangesKeeps, RetryKeeps, CancelKeeps, CreatedKeeps, CreationFailsKeeps,
     PollAnsweredKeeps, LoadAnsweredKeeps, GetFailsKeeps, CallDoneKeeps, QueueCallFailsKeeps, LoadKeeps
  DEF Queue!Next
<1>3. QED
  BY <1>1, <1>2

\* What it says of the ends.
LEMMA EndsFollow ==
    ASSUME Queue!JobsAssumption, QueueInv
    PROVE  Queue!EndsAreAnnounced
<1>1. SUFFICES ASSUME ~again
               PROVE  /\ \A j \in owed : prevStatuses[j] \notin Queue!Ended
                      /\ \A j \in Jobs : announced[j] <= 1
  BY DEF Queue!EndsAreAnnounced
<1>2. PICK past \in Pasts, seen \in [1..Len(queueGets) -> Pasts] : Follows(past, seen)
  BY <1>1 DEF QueueInv, Followed
<1>3. QED
  BY <1>2, QueueTypes DEF Follows, Shown, Queue!Ended

\* Every state of the jobs screen is of its type: no list, request or row in a dialog is
\* of a job there is not.
THEOREM QueuesTypes ==
    ASSUME Queue!JobsAssumption
    PROVE  Queue!Spec => []Queue!TypeOK
<1>1. QueueInv => Queue!TypeOK
  BY DEF QueueInv
<1>2. QED
  BY <1>1, QueueStart, QueueSteps, PTL DEF Queue!Spec

\* The end of a job that a poll has shown active is announced, and only once, whatever the
\* order of the polls, the loads and their answers, unless a poll overtook another or a
\* job came back to life.
THEOREM EndsGetAnnounced ==
    ASSUME Queue!JobsAssumption
    PROVE  Queue!Spec => []Queue!EndsAreAnnounced
BY EndsFollow, QueueStart, QueueSteps, PTL DEF Queue!Spec

-----------------------------------------------------------------------------
(* The messages found (MessagesScreen) *)

\* The sets of MessagesScreen are counted as those of the theorems are.
LEMMA SearchCounts ==
    \A S : /\ Search!Cardinality(S) = Cardinality(S)
           /\ Search!IsFiniteSet(S) = IsFiniteSet(S)
BY DEF Search!Cardinality, Search!IsFiniteSet, Cardinality, IsFiniteSet

\* What a page read shows of a result.
IsPart(items, r, offset) ==
    \A k \in 1..Len(items) : offset + k <= Len(r) /\ items[k] = r[offset + k]

\* The requests of pages: their sizes, and at most one for more.
PagesInOrder ==
    /\ Len(messages) <= 2 * MaxMessage
    /\ \A p \in pages : Len(p.items) <= MaxMessage /\ (p.op = "search" => p.offset = 0)
    /\ \A p, q \in pages : p.op = "more" /\ q.op = "more" => p = q
    /\ \A p \in pages : p.op = "more" => loadingMore

\* A request that is not off goes on from the list shown, and what was read for
\* it is of the index of now.
PagesFitTheList ==
    \A p \in pages : ~p.off =>
        /\ p.op = "more" => p.filter = searched /\ p.offset = Len(messages)
        /\ p.total # None => /\ p.total = Len(Search!Result(p.filter))
                             /\ IsPart(p.items, Search!Result(p.filter), p.offset)

SearchInv == Search!TypeOK /\ PagesInOrder /\ PagesFitTheList /\ Search!PagesFitTogether

-----------------------------------------------------------------------------
(* The results of a search *)

\* Each rank is taken: there are one, two, ... numbers from some member of a set
\* of numbers on, up to all of them.
LEMMA SearchRanks ==
    ASSUME NEW N \in Nat, NEW H \in SUBSET (1..N), NEW k \in 1..Search!Cardinality(H)
    PROVE  \E m \in H : Search!Cardinality({n \in H : n >= m}) = k
<1> DEFINE From(t) == {n \in H : n >= t}
           T == {u \in Nat : u <= N => Search!Cardinality(From(N + 1 - u)) < k}
<1>1. Search!IsFiniteSet(H) /\ Search!Cardinality(H) \in Nat /\ \A n \in H : n \in Int /\ 1 <= n /\ n <= N
  <2>1. Search!IsFiniteSet(1..N)
    BY SearchCounts, FS_Interval
  <2>2. Search!IsFiniteSet(H)
    BY <2>1, SearchCounts, FS_Subset
  <2>3. QED
    BY <2>2, SearchCounts, FS_CardinalityType
<1>2. \A t : Search!IsFiniteSet(From(t)) /\ Search!Cardinality(From(t)) \in Nat
  BY <1>1, SearchCounts, FS_Subset, FS_CardinalityType
<1>3. 0 \in T
  <2>1. \A n \in H : ~ (n >= N + 1)
    BY <1>1
  <2>2. From(N + 1) = {}
    BY <2>1
  <2>3. Search!Cardinality(From(N + 1 - 0)) = 0
    BY <2>2, SearchCounts, FS_EmptySet
  <2>4. QED
    BY <2>3
<1>4. N \notin T
  <2>1. \A n \in H : n >= N + 1 - N
    BY <1>1
  <2>2. From(N + 1 - N) = H
    BY <2>1
  <2>3. QED
    BY <1>1, <2>2
<1>5. PICK u \in T : u + 1 \notin T
  <2>1. T \in SUBSET Nat /\ T # Nat
    BY <1>4
  <2>2. QED
    BY <1>3, <2>1, Induct
<1>6. PICK m \in Int : m = N - u
  OBVIOUS
<1>7. u \in Nat /\ u + 1 <= N /\ Search!Cardinality(From(m + 1)) < k /\ ~ (Search!Cardinality(From(m)) < k)
  <2> HIDE DEF From
  <2>1. u \in Nat /\ u + 1 \in Nat /\ u + 1 <= N /\ ~ (Search!Cardinality(From(N + 1 - (u + 1))) < k)
    BY <1>5
  <2>2. Search!Cardinality(From(N + 1 - u)) < k
    BY <1>5, <2>1
  <2>3. N + 1 - (u + 1) = m /\ N + 1 - u = m + 1
    BY <1>6, <2>1
  <2>4. QED
    BY <2>1, <2>2, <2>3
<1>8. CASE m \notin H
  <2>1. \A n \in H : n >= m <=> n >= m + 1
    BY <1>1, <1>6, <1>8
  <2>0. From(m) = From(m + 1)
    BY <2>1
  <2> HIDE DEF From
  <2>2. QED
    BY <1>7, <2>0
<1>9. CASE m \in H
  <2>0. \A n \in H : n >= m <=> n = m \/ n >= m + 1
    BY <1>1, <1>6
  <2>00. ~ (m >= m + 1) /\ m >= m
    BY <1>6
  <2>1. From(m) = From(m + 1) \cup {m} /\ m \notin From(m + 1)
    BY <1>9, <2>0, <2>00
  <2>2. Search!Cardinality(From(m)) = Search!Cardinality(From(m + 1)) + 1
    BY <1>2, <2>1, SearchCounts, FS_AddElement, ZenonT(30)
  <2>3. Search!Cardinality(From(m)) = k
    BY <1>2, <1>7, <2>2
  <2>4. QED
    BY <1>9, <2>3
<1>10. QED
  BY <1>8, <1>9

\* The result of a search is a list of messages, of at most all of them.
LEMMA ResultType ==
    ASSUME Search!MessagesAssumption, index \in SUBSET Search!Messages, NEW f \in Filters
    PROVE  /\ Search!Result(f) \in Seq(Search!Messages) /\ Len(Search!Result(f)) \in 0..MaxMessage
<1>1. PICK H : H = index \cap Matches[f]
  OBVIOUS
<1>2. PICK c : c = Search!Cardinality(H)
  OBVIOUS
<1>3. MaxMessage \in Nat /\ H \in SUBSET (1..MaxMessage)
  BY <1>1 DEF Search!MessagesAssumption, Search!Messages
<1>4. c \in Nat /\ c <= MaxMessage
  <2>1. Search!IsFiniteSet(1..MaxMessage) /\ Search!Cardinality(1..MaxMessage) = MaxMessage
    BY <1>3, SearchCounts, FS_Interval
  <2>2. Search!IsFiniteSet(H) /\ Search!Cardinality(H) <= MaxMessage
    BY <1>3, <2>1, SearchCounts, FS_Subset
  <2>3. QED
    BY <1>2, <2>2, SearchCounts, FS_CardinalityType
<1>5. PICK r : r = Search!Result(f)
  OBVIOUS
<1> DEFINE Ranked(k) == CHOOSE m \in H : Search!Cardinality({n \in H : n >= m}) = k
<1>6. r = [k \in 1..c |-> Ranked(k)]
  BY <1>1, <1>2, <1>5 DEF Search!Result
<1>7. \A k \in 1..c : r[k] \in Search!Messages
  <2>1. SUFFICES ASSUME NEW k \in 1..c
                 PROVE  r[k] \in Search!Messages
    OBVIOUS
  <2>2. \E m \in H : Search!Cardinality({n \in H : n >= m}) = k
    BY <1>2, <1>3, SearchRanks
  <2>3. Ranked(k) \in H
    BY <2>2
  <2> HIDE DEF Ranked
  <2>4. r[k] = Ranked(k)
    BY <1>6
  <2>5. QED
    BY <1>3, <2>3, <2>4 DEF Search!Messages
<1>8. r \in [1..c -> Search!Messages]
  <2> HIDE DEF Ranked
  <2>1. r = [k \in 1..c |-> r[k]]
    BY <1>6
  <2>2. QED
    BY <1>7, <2>1
<1>9. r \in Seq(Search!Messages) /\ Len(r) = c
  BY <1>4, <1>8
<1>10. QED
  BY <1>3, <1>4, <1>5, <1>9

\* The result of a filter is the same while the index is.
LEMMA ResultStays ==
    ASSUME UNCHANGED index, NEW f
    PROVE  Search!Result(f)' = Search!Result(f)
BY DEF Search!Result

\* Read of a result from the offset on, as many as a page has.
LEMMA PagePart ==
    ASSUME NEW S, NEW r \in Seq(S), NEW n \in Nat, Len(r) <= n, NEW o \in Nat, NEW s \in Nat
    PROVE  LET items == SubSeq(r, o + 1, Search!Least(o + s, Len(r)))
           IN  items \in Seq(S) /\ Len(items) <= n /\ IsPart(items, r, o)
<1>1. PICK m \in Nat : m = Search!Least(o + s, Len(r))
  BY DEF Search!Least
<1>2. m <= Len(r) /\ Len(r) \in Nat
  BY <1>1 DEF Search!Least
<1>3. PICK items : items = SubSeq(r, o + 1, m)
  OBVIOUS
<1>4. /\ items \in Seq(S) /\ Len(items) = IF o + 1 <= m THEN m - o ELSE 0
      /\ \A k \in 1..Len(items) : items[k] = r[o + k]
  BY <1>2, <1>3
<1>5. Len(items) <= n
  BY <1>2, <1>4
<1>6. IsPart(items, r, o)
  BY <1>2, <1>4 DEF IsPart
<1>7. QED
  BY <1>1, <1>3, <1>4, <1>5, <1>6

\* The types one by one, as the provers need them.
LEMMA SearchTypes ==
    ASSUME Search!MessagesAssumption, SearchInv
    PROVE  /\ MaxMessage \in Nat /\ PageSize \in Nat
           /\ index \in SUBSET Search!Messages /\ filters \in Filters
           /\ messages \in Seq(Search!Messages) /\ Len(messages) \in Nat /\ Len(messages) <= 2 * MaxMessage
           /\ total \in 0..MaxMessage \cup {None}
           /\ pages \subseteq Search!Page
           /\ loading \in BOOLEAN /\ loadingMore \in BOOLEAN
           /\ expandedId \in Search!Messages \cup {None} /\ detail \in Search!Messages \cup {None}
           /\ details \in SUBSET Search!Messages /\ clears \in SUBSET Filters
           /\ searched \in Filters \cup {None} /\ skewed \in BOOLEAN
BY DEF Search!MessagesAssumption, SearchInv, Search!TypeOK, PagesInOrder

-----------------------------------------------------------------------------
(* The steps *)

\* A step that leaves the index, the list and the pages alone.
LEMMA AsideKeeps ==
    ASSUME SearchInv, UNCHANGED <<index, Search!listVars, pages, loadingMore>>, Search!TypeOK'
    PROVE  SearchInv'
<1>1. \A f : Search!Result(f)' = Search!Result(f)
  BY ResultStays
<1>2. PagesInOrder'
  BY DEF SearchInv, PagesInOrder, Search!listVars
<1>3. PagesFitTheList'
  BY <1>1 DEF SearchInv, PagesFitTheList, IsPart, Search!listVars
<1>4. Search!PagesFitTogether'
  BY <1>1 DEF SearchInv, Search!PagesFitTogether, Search!listVars
<1>5. QED
  BY <1>2, <1>3, <1>4 DEF SearchInv

\* The steps that leave the pages alone.
LEMMA AsideSteps ==
    ASSUME Search!MessagesAssumption, SearchInv,
           \/ Search!EditFilters \/ Search!RetraceAttachments \/ Search!HandleClear \/ Search!ClearFails
           \/ \E m \in Search!Messages : Search!Expand(m)
           \/ \E m \in details : Search!DetailAnswered(m)
    PROVE  SearchInv'
<1>1. CASE Search!EditFilters
  <2>1. Search!TypeOK'
    BY <1>1, SearchTypes DEF Search!EditFilters, Search!TypeOK, Search!listVars,
       Search!busyVars, Search!detailVars
  <2>2. QED
    BY <1>1, <2>1, AsideKeeps DEF Search!EditFilters, Search!busyVars
<1>2. CASE Search!RetraceAttachments
  <2>1. Search!TypeOK'
    BY <1>2, SearchTypes DEF Search!RetraceAttachments, Search!TypeOK, Search!listVars,
       Search!busyVars, Search!detailVars
  <2>2. QED
    BY <1>2, <2>1, AsideKeeps DEF Search!RetraceAttachments, Search!busyVars
<1>3. CASE Search!HandleClear
  <2>1. Search!TypeOK'
    BY <1>3, SearchTypes DEF Search!HandleClear, Search!TypeOK, Search!listVars,
       Search!busyVars, Search!detailVars
  <2>2. QED
    BY <1>3, <2>1, AsideKeeps DEF Search!HandleClear, Search!busyVars
<1>4. CASE Search!ClearFails
  <2>1. Search!TypeOK'
    BY <1>4, SearchTypes DEF Search!ClearFails, Search!TypeOK, Search!listVars, Search!busyVars,
       Search!detailVars
  <2>2. QED
    BY <1>4, <2>1, AsideKeeps DEF Search!ClearFails, Search!busyVars
<1>5. ASSUME NEW m \in Search!Messages, Search!Expand(m)
      PROVE  SearchInv'
  <2>1. Search!TypeOK'
    BY <1>5, SearchTypes DEF Search!Expand, Search!TypeOK, Search!listVars, Search!busyVars,
       Search!detailVars
  <2>2. QED
    BY <1>5, <2>1, AsideKeeps DEF Search!Expand, Search!busyVars
<1>6. ASSUME NEW m \in details, Search!DetailAnswered(m)
      PROVE  SearchInv'
  <2>1. Search!TypeOK'
    BY <1>6, SearchTypes DEF Search!DetailAnswered, Search!TypeOK, Search!listVars,
       Search!busyVars, Search!detailVars
  <2>2. QED
    BY <1>6, <2>1, AsideKeeps DEF Search!DetailAnswered, Search!busyVars
<1>7. QED
  BY <1>1, <1>2, <1>3, <1>4, <1>5, <1>6

\* A request of a page, before it is read.
Asked(op, f, offset, off) ==
    [op |-> op, filter |-> f, offset |-> offset, items |-> <<>>, total |-> None, off |-> off]

\* An empty list of messages is one.
LEMMA NoItems == <<>> \in Seq(Search!Messages) /\ Len(<<>>) = 0
OBVIOUS

\* A search that starts empties the list.
LEMMA RunSearchKeeps ==
    ASSUME Search!MessagesAssumption, SearchInv, Search!RunSearch
    PROVE  SearchInv'
<1>1. PICK q : q = Asked("search", filters, 0, FALSE)
  OBVIOUS
<1>2. /\ q \in Search!Page /\ q.op = "search" /\ q.offset = 0 /\ Len(q.items) = 0 /\ q.total = None
  <2>1. filters \in Filters /\ 0 \in 0..(2 * MaxMessage)
    BY SearchTypes
  <2>2. QED
    BY <1>1, <2>1, NoItems DEF Asked, Search!Page
<1>3. /\ pages' = pages \cup {q} /\ loading' = TRUE
      /\ UNCHANGED <<index, filters, messages, total, searched, skewed, loadingMore, expandedId,
                     detail, details, clears>>
  BY <1>1 DEF Search!RunSearch, Search!Ask, Asked, Search!listVars, Search!detailVars
<1>4. \A f : Search!Result(f)' = Search!Result(f)
  BY <1>3, ResultStays
<1>5. Search!TypeOK'
  BY <1>2, <1>3, SearchTypes DEF Search!TypeOK
<1>6. PagesInOrder'
  BY <1>2, <1>3, SearchTypes DEF SearchInv, PagesInOrder
<1>7. PagesFitTheList'
  BY <1>2, <1>3, <1>4 DEF SearchInv, PagesFitTheList, IsPart
<1>8. Search!PagesFitTogether'
  BY <1>3, <1>4 DEF SearchInv, Search!PagesFitTogether
<1>9. QED
  BY <1>5, <1>6, <1>7, <1>8 DEF SearchInv

\* The next page that is asked for.
LEMMA LoadMoreKeeps ==
    ASSUME Search!MessagesAssumption, SearchInv, Search!LoadMore
    PROVE  SearchInv'
<1>1. PICK q : q = Asked("more", filters, Len(messages), filters # searched)
  OBVIOUS
<1>2. /\ q \in Search!Page /\ q.op = "more" /\ q.offset = Len(messages) /\ Len(q.items) = 0 /\ q.total = None
      /\ q.filter = filters /\ (~q.off => filters = searched)
  <2>1. filters \in Filters /\ Len(messages) \in 0..(2 * MaxMessage) /\ (filters # searched) \in BOOLEAN
    BY SearchTypes
  <2>2. q.off = (filters # searched)
    BY <1>1, <2>1, NoItems DEF Asked, Search!Page
  <2>3. QED
    BY <1>1, <2>1, <2>2, NoItems DEF Asked, Search!Page
<1>3. /\ pages' = pages \cup {q} /\ ~loadingMore /\ loadingMore' = TRUE
      /\ UNCHANGED <<index, filters, messages, total, searched, skewed, loading, expandedId,
                     detail, details, clears>>
  BY <1>1 DEF Search!LoadMore, Search!Ask, Asked, Search!listVars, Search!detailVars
<1>4. \A f : Search!Result(f)' = Search!Result(f)
  BY <1>3, ResultStays
<1>5. Search!TypeOK'
  BY <1>2, <1>3, SearchTypes DEF Search!TypeOK
<1>6. PagesInOrder'
  BY <1>2, <1>3, SearchTypes DEF SearchInv, PagesInOrder
<1>7. PagesFitTheList'
  BY <1>2, <1>3, <1>4 DEF SearchInv, PagesFitTheList, IsPart
<1>8. Search!PagesFitTogether'
  BY <1>3, <1>4 DEF SearchInv, Search!PagesFitTogether
<1>9. QED
  BY <1>5, <1>6, <1>7, <1>8 DEF SearchInv

\* The backend reads a page of the result of a filter.
LEMMA ReadPageKeeps ==
    ASSUME Search!MessagesAssumption, SearchInv, NEW p \in pages, Search!ReadPage(p)
    PROVE  SearchInv'
<1>1. PICK r : r = Search!Result(p.filter)
  OBVIOUS
<1>2. PICK items : items = SubSeq(r, p.offset + 1, Search!Least(p.offset + PageSize, Len(r)))
  OBVIOUS
<1>3. PICK q : q = [p EXCEPT !.total = Len(r), !.items = items]
  OBVIOUS
<1>4. p \in Search!Page /\ p.filter \in Filters /\ p.offset \in Nat /\ p.total = None
  BY SearchTypes DEF Search!Page, Search!ReadPage
<1>5. r \in Seq(Search!Messages) /\ Len(r) \in 0..MaxMessage
  BY <1>1, <1>4, ResultType, SearchTypes
<1>6. items \in Seq(Search!Messages) /\ Len(items) <= MaxMessage /\ IsPart(items, r, p.offset)
  BY <1>2, <1>4, <1>5, PagePart, SearchTypes
<1>7. /\ q \in Search!Page /\ q.op = p.op /\ q.filter = p.filter /\ q.offset = p.offset /\ q.items = items
      /\ q.total = Len(r) /\ q.off = p.off
  BY <1>3, <1>4, <1>5, <1>6 DEF Search!Page
<1>8. /\ pages' = (pages \ {p}) \cup {q}
      /\ UNCHANGED <<index, filters, messages, total, searched, skewed, loading, loadingMore,
                     expandedId, detail, details, clears>>
  BY <1>1, <1>2, <1>3 DEF Search!ReadPage, Search!listVars, Search!busyVars, Search!detailVars
<1>9. \A f : Search!Result(f)' = Search!Result(f)
  BY <1>8, ResultStays
<1>10. Search!TypeOK'
  BY <1>7, <1>8, SearchTypes DEF Search!TypeOK
<1>11. PagesInOrder'
  BY <1>6, <1>7, <1>8 DEF SearchInv, PagesInOrder
<1>12. PagesFitTheList'
  <2>1. ASSUME NEW k \in pages', ~k.off
        PROVE  /\ k.op = "more" => k.filter = searched /\ k.offset = Len(messages)
               /\ k.total # None => /\ k.total = Len(Search!Result(k.filter))
                                    /\ IsPart(k.items, Search!Result(k.filter), k.offset)
    BY <1>1, <1>6, <1>7, <1>8, <2>1 DEF SearchInv, PagesFitTheList
  <2>2. QED
    BY <1>8, <1>9, <2>1 DEF PagesFitTheList, IsPart
<1>13. Search!PagesFitTogether'
  BY <1>8, <1>9 DEF SearchInv, Search!PagesFitTogether
<1>14. QED
  BY <1>10, <1>11, <1>12, <1>13 DEF SearchInv

\* A page called off.
LEMMA CallingOff ==
    ASSUME NEW p \in Search!Page, NEW off \in BOOLEAN
    PROVE  LET q == [p EXCEPT !.off = off]
           IN  /\ q \in Search!Page /\ q.op = p.op /\ q.filter = p.filter /\ q.offset = p.offset
               /\ q.items = p.items /\ q.total = p.total /\ q.off = off
BY DEF Search!Page

\* The index has changed: neither the list nor the pages read are of it.
LEMMA IndexMoves ==
    ASSUME Search!MessagesAssumption, SearchInv, skewed' = TRUE, index' \in SUBSET Search!Messages,
           NEW new \in SUBSET Search!Page,
           \A q \in new : q.op = "search" /\ q.offset = 0 /\ Len(q.items) = 0 /\ q.total = None,
           pages' = {IF p.total = None THEN p ELSE [p EXCEPT !.off = TRUE] : p \in pages} \cup new,
           loading' \in BOOLEAN, clears' \in SUBSET Filters,
           UNCHANGED <<filters, messages, total, searched, loadingMore, Search!detailVars>>
    PROVE  SearchInv'
<1> DEFINE After(p) == IF p.total = None THEN p ELSE [p EXCEPT !.off = TRUE]
<1>1. ASSUME NEW p \in pages
      PROVE  /\ After(p) \in Search!Page /\ After(p).op = p.op /\ After(p).filter = p.filter
             /\ After(p).offset = p.offset /\ After(p).items = p.items
             /\ ~After(p).off => After(p).total = None /\ After(p) = p
  <2>1. p \in Search!Page
    BY SearchTypes
  <2>2. CASE p.total = None
    BY <2>1, <2>2
  <2>3. CASE p.total # None
    BY <2>1, <2>3, CallingOff
  <2>4. QED
    BY <2>2, <2>3
<1>2. pages' = {After(p) : p \in pages} \cup new
  OBVIOUS
<1> HIDE DEF After
<1>3. Search!TypeOK'
  BY <1>1, <1>2, SearchTypes DEF Search!TypeOK, Search!detailVars
<1>4. PagesInOrder'
  <2>1. \A k \in pages' : Len(k.items) <= MaxMessage /\ (k.op = "search" => k.offset = 0)
    BY <1>1, <1>2, SearchTypes DEF SearchInv, PagesInOrder
  <2>2. \A k, q \in pages' : k.op = "more" /\ q.op = "more" => k = q
    BY <1>1, <1>2 DEF SearchInv, PagesInOrder
  <2>3. \A k \in pages' : k.op = "more" => loadingMore'
    BY <1>1, <1>2 DEF SearchInv, PagesInOrder
  <2>4. QED
    BY <2>1, <2>2, <2>3, SearchTypes DEF PagesInOrder
<1>5. PagesFitTheList'
  BY <1>1, <1>2 DEF SearchInv, PagesFitTheList
<1>6. Search!PagesFitTogether'
  BY DEF Search!PagesFitTogether
<1>7. QED
  BY <1>3, <1>4, <1>5, <1>6 DEF SearchInv

\* The index changes under the pages: they are no longer of one list.
LEMMA IndexChangesKeep ==
    ASSUME Search!MessagesAssumption, SearchInv, Search!IndexChanges
    PROVE  SearchInv'
<1>1. /\ index' \in SUBSET Search!Messages /\ skewed' = TRUE
      /\ pages' = {IF p.total = None THEN p ELSE [p EXCEPT !.off = TRUE] : p \in pages}
      /\ UNCHANGED <<filters, messages, total, searched, loading, loadingMore, Search!detailVars, clears>>
  BY SearchTypes DEF Search!IndexChanges, Search!busyVars
<1>2. loading' \in BOOLEAN /\ clears' \in SUBSET Filters
  BY <1>1, SearchTypes
<1>3. pages' = {IF p.total = None THEN p ELSE [p EXCEPT !.off = TRUE] : p \in pages} \cup {}
  BY <1>1
<1>4. {} \in SUBSET Search!Page
  OBVIOUS
<1>5. QED
  BY <1>1, <1>2, <1>3, <1>4, IndexMoves

\* The index was emptied by the screen itself.
LEMMA ClearedKeeps ==
    ASSUME Search!MessagesAssumption, SearchInv, NEW f \in clears, Search!Cleared(f)
    PROVE  SearchInv'
<1>1. PICK q : q = Asked("search", f, 0, FALSE)
  OBVIOUS
<1>2. q \in Search!Page /\ q.op = "search" /\ q.offset = 0 /\ Len(q.items) = 0 /\ q.total = None
  <2>1. f \in Filters /\ 0 \in 0..(2 * MaxMessage)
    BY SearchTypes
  <2>2. QED
    BY <1>1, <2>1, NoItems DEF Asked, Search!Page
<1>3. /\ index' \in SUBSET Search!Messages /\ skewed' = TRUE
      /\ pages' = {IF p.total = None THEN p ELSE [p EXCEPT !.off = TRUE] : p \in pages} \cup {q}
      /\ loading' = TRUE /\ clears' = {}
      /\ UNCHANGED <<filters, messages, total, searched, loadingMore, Search!detailVars>>
  BY <1>1, SearchTypes DEF Search!Cleared, Asked
<1>4. {q} \in SUBSET Search!Page /\ loading' \in BOOLEAN /\ clears' \in SUBSET Filters
  BY <1>2, <1>3
<1>5. \A k \in {q} : k.op = "search" /\ k.offset = 0 /\ Len(k.items) = 0 /\ k.total = None
  BY <1>2
<1>6. QED
  BY <1>3, <1>4, <1>5, IndexMoves

\* The page of a search becomes the list, and calls the pages of the old one off.
LEMMA SearchAnsweredKeeps ==
    ASSUME Search!MessagesAssumption, SearchInv, NEW p \in pages, Search!SearchAnswered(p)
    PROVE  SearchInv'
<1> DEFINE After(q) == [q EXCEPT !.off = q.off \/ q.op = "more"]
<1>1. ASSUME NEW q \in pages
      PROVE  /\ After(q) \in Search!Page /\ After(q).op = q.op /\ After(q).filter = q.filter
             /\ After(q).offset = q.offset /\ After(q).items = q.items /\ After(q).total = q.total
             /\ ~After(q).off => ~q.off /\ q.op # "more"
  <2>1. q \in Search!Page /\ (q.off \/ q.op = "more") \in BOOLEAN
    BY SearchTypes DEF Search!Page
  <2>2. QED
    BY <2>1, CallingOff
<1>2. /\ pages' = {After(q) : q \in pages \ {p}}
      /\ messages' = p.items /\ total' = p.total /\ searched' = p.filter /\ skewed' = p.off
      /\ loading' = FALSE /\ p.op = "search" /\ p.total # None
      /\ UNCHANGED <<index, filters, loadingMore, expandedId, detail, details, clears>>
  BY DEF Search!SearchAnswered, Search!detailVars
<1> HIDE DEF After
<1>3. p \in Search!Page /\ Len(p.items) <= MaxMessage /\ p.offset = 0
  BY <1>2, SearchTypes DEF SearchInv, PagesInOrder
<1>4. \A f : Search!Result(f)' = Search!Result(f)
  BY <1>2, ResultStays
<1>5. Search!TypeOK'
  <2>1. /\ p.items \in Seq(Search!Messages) /\ p.total \in 0..MaxMessage \cup {None} /\ p.filter \in Filters
        /\ p.off \in BOOLEAN
    BY <1>3 DEF Search!Page
  <2>2. pages' \subseteq Search!Page
    BY <1>1, <1>2
  <2>3. QED
    BY <1>2, <2>1, <2>2, SearchTypes DEF Search!TypeOK
<1>6. PagesInOrder'
  <2>1. Len(messages') <= 2 * MaxMessage
    <3>1. Len(p.items) \in Nat
      BY <1>3 DEF Search!Page
    <3>2. QED
      BY <1>2, <1>3, <3>1, SearchTypes
  <2>2. \A k \in pages' : Len(k.items) <= MaxMessage /\ (k.op = "search" => k.offset = 0)
    BY <1>1, <1>2 DEF SearchInv, PagesInOrder
  <2>3. \A k, q \in pages' : k.op = "more" /\ q.op = "more" => k = q
    BY <1>1, <1>2 DEF SearchInv, PagesInOrder
  <2>4. \A k \in pages' : k.op = "more" => loadingMore'
    BY <1>1, <1>2 DEF SearchInv, PagesInOrder
  <2>5. QED
    BY <2>1, <2>2, <2>3, <2>4 DEF PagesInOrder
<1>7. PagesFitTheList'
  <2>1. ASSUME NEW k \in pages', ~k.off
        PROVE  /\ k.op # "more"
               /\ k.total # None => /\ k.total = Len(Search!Result(k.filter))
                                    /\ IsPart(k.items, Search!Result(k.filter), k.offset)
    <3>1. PICK q \in pages : k = After(q)
      BY <1>2
    <3>2. ~q.off /\ k.op = q.op /\ k.filter = q.filter /\ k.offset = q.offset /\ k.items = q.items
          /\ k.total = q.total /\ q.op # "more"
      BY <1>1, <2>1, <3>1
    <3>3. QED
      BY <3>2 DEF SearchInv, PagesFitTheList
  <2>2. QED
    BY <1>4, <2>1 DEF PagesFitTheList, IsPart
<1>8. ASSUME ~skewed'
      PROVE  /\ p.total = Len(Search!Result(p.filter)) /\ Len(p.items) <= Len(Search!Result(p.filter))
             /\ \A k \in 1..Len(p.items) : p.items[k] = Search!Result(p.filter)[k]
  <2>1. PICK r : r = Search!Result(p.filter)
    OBVIOUS
  <2>2. p.total = Len(r) /\ IsPart(p.items, r, 0)
    BY <1>2, <1>3, <1>8, <2>1 DEF SearchInv, PagesFitTheList
  <2>3. p.filter \in Filters /\ Len(p.items) \in Nat
    BY <1>3 DEF Search!Page
  <2>4. Len(r) \in Nat
    BY <2>1, <2>3, ResultType, SearchTypes
  <2>5. \A k \in 1..Len(p.items) : k <= Len(r) /\ p.items[k] = r[k]
    BY <2>2, <2>3, <2>4 DEF IsPart
  <2>6. Len(p.items) <= Len(r)
    BY <2>3, <2>4, <2>5
  <2>7. QED
    BY <2>1, <2>2, <2>5, <2>6
<1>9. Search!PagesFitTogether'
  BY <1>2, <1>4, <1>8 DEF Search!PagesFitTogether
<1>10. QED
  BY <1>5, <1>6, <1>7, <1>9 DEF SearchInv

\* A page that goes on from the list is put behind it.
LEMMA MoreAnsweredKeeps ==
    ASSUME Search!MessagesAssumption, SearchInv, NEW p \in pages, Search!MoreAnswered(p)
    PROVE  SearchInv'
<1>1. /\ p.op = "more" /\ p.total # None
      /\ Len(messages) + Len(p.items) <= 2 * MaxMessage
      /\ pages' = pages \ {p}
      /\ messages' = messages \o p.items /\ total' = p.total
      /\ skewed' = (skewed \/ p.off) /\ loadingMore' = FALSE
      /\ UNCHANGED <<index, filters, searched, loading, expandedId, detail, details, clears>>
  BY DEF Search!MoreAnswered, Search!detailVars
<1>2. p \in Search!Page /\ p.items \in Seq(Search!Messages) /\ p.off \in BOOLEAN /\ p.filter \in Filters
      /\ p.total \in 0..MaxMessage \cup {None}
  BY SearchTypes DEF Search!Page
<1>3. \A q \in pages' : q.op # "more"
  BY <1>1 DEF SearchInv, PagesInOrder
<1>4. \A f : Search!Result(f)' = Search!Result(f)
  BY <1>1, ResultStays
<1>5. /\ messages' \in Seq(Search!Messages) /\ Len(messages') = Len(messages) + Len(p.items)
      /\ \A k \in 1..Len(messages) : messages'[k] = messages[k]
      /\ \A k \in 1..Len(p.items) : messages'[Len(messages) + k] = p.items[k]
  BY <1>1, <1>2, SearchTypes
<1>6. Search!TypeOK'
  BY <1>1, <1>2, <1>5, SearchTypes DEF Search!TypeOK
<1>7. PagesInOrder'
  BY <1>1, <1>3, <1>5 DEF SearchInv, PagesInOrder
<1>8. PagesFitTheList'
  BY <1>1, <1>3, <1>4 DEF SearchInv, PagesFitTheList, IsPart
<1>9. ASSUME searched # None, ~skewed'
      PROVE  /\ total' = Len(Search!Result(searched)) /\ Len(messages') <= Len(Search!Result(searched))
             /\ \A k \in 1..Len(messages') : messages'[k] = Search!Result(searched)[k]
  <2>1. ~skewed /\ ~p.off
    BY <1>1, <1>2, <1>9, SearchTypes
  <2>2. PICK r : r = Search!Result(searched)
    OBVIOUS
  <2>3. PICK n \in Nat : n = Len(messages)
    BY SearchTypes
  <2>4. PICK m \in Nat : m = Len(p.items)
    BY <1>2
  <2>5. p.filter = searched /\ p.offset = n /\ p.total = Len(r) /\ IsPart(p.items, r, n)
    BY <1>1, <2>1, <2>2, <2>3 DEF SearchInv, PagesFitTheList
  <2>6. n <= Len(r) /\ \A k \in 1..n : messages[k] = r[k]
    BY <1>9, <2>1, <2>2, <2>3 DEF SearchInv, Search!PagesFitTogether
  <2>7. Len(r) \in Nat
    BY <1>2, <2>2, <2>5, ResultType, SearchTypes
  <2>8. \A k \in 1..m : n + k <= Len(r) /\ p.items[k] = r[n + k]
    BY <2>4, <2>5 DEF IsPart
  <2>9. n + m <= Len(r)
    BY <2>6, <2>7, <2>8
  <2>10. ASSUME NEW k \in 1..(n + m)
         PROVE  messages'[k] = r[k]
    <3>1. CASE k <= n
      BY <1>5, <2>3, <2>6, <3>1
    <3>2. CASE k > n
      <4>1. k - n \in 1..m /\ n + (k - n) = k
        BY <3>2
      <4>2. messages'[k] = p.items[k - n]
        BY <1>5, <2>3, <2>4, <4>1
      <4>3. p.items[k - n] = r[k]
        BY <2>8, <4>1
      <4>4. QED
        BY <4>2, <4>3
    <3>3. QED
      BY <3>1, <3>2
  <2>11. QED
    BY <1>1, <1>5, <2>2, <2>3, <2>4, <2>5, <2>9, <2>10
<1>10. Search!PagesFitTogether'
  BY <1>1, <1>4, <1>9 DEF Search!PagesFitTogether
<1>11. QED
  BY <1>6, <1>7, <1>8, <1>10 DEF SearchInv

\* A page that does not arrive leaves the list as it was.
LEMMA PageFailsKeeps ==
    ASSUME Search!MessagesAssumption, SearchInv, NEW p \in pages, Search!PageFails(p)
    PROVE  SearchInv'
<1>1. /\ pages' = pages \ {p}
      /\ loading' = (loading /\ p.op # "search")
      /\ loadingMore' = (loadingMore /\ p.op # "more")
      /\ UNCHANGED <<index, filters, messages, total, searched, skewed, expandedId, detail, details, clears>>
  BY DEF Search!PageFails, Search!listVars, Search!detailVars
<1>2. \A f : Search!Result(f)' = Search!Result(f)
  BY <1>1, ResultStays
<1>3. Search!TypeOK'
  BY <1>1, SearchTypes DEF Search!TypeOK
<1>4. PagesInOrder'
  BY <1>1, SearchTypes DEF SearchInv, PagesInOrder
<1>5. PagesFitTheList'
  BY <1>1, <1>2 DEF SearchInv, PagesFitTheList, IsPart
<1>6. Search!PagesFitTogether'
  BY <1>1, <1>2 DEF SearchInv, Search!PagesFitTogether
<1>7. QED
  BY <1>3, <1>4, <1>5, <1>6 DEF SearchInv

\* Nothing was searched: the invariant holds.
LEMMA SearchStart == Search!MessagesAssumption /\ Search!Init => SearchInv
<1>. SUFFICES ASSUME Search!MessagesAssumption, Search!Init
              PROVE  SearchInv
  OBVIOUS
<1>1. messages \in Seq(Search!Messages) /\ Len(messages) = 0 /\ MaxMessage \in Nat
  BY DEF Search!Init, Search!MessagesAssumption
<1>2. Search!TypeOK
  BY <1>1 DEF Search!Init, Search!TypeOK
<1>3. PagesInOrder /\ PagesFitTheList /\ Search!PagesFitTogether
  BY <1>1 DEF Search!Init, PagesInOrder, PagesFitTheList, Search!PagesFitTogether
<1>4. QED
  BY <1>2, <1>3 DEF SearchInv

\* The invariant of the search is inductive.
LEMMA SearchSteps ==
    ASSUME Search!MessagesAssumption, SearchInv, [Search!Next]_Search!messagesVars
    PROVE  SearchInv'
<1>1. ASSUME UNCHANGED Search!messagesVars
      PROVE  SearchInv'
  <2>1. Search!TypeOK'
    BY <1>1 DEF SearchInv, Search!TypeOK, Search!messagesVars, Search!listVars, Search!busyVars,
       Search!detailVars
  <2>2. QED
    BY <1>1, <2>1, AsideKeeps DEF Search!messagesVars, Search!busyVars
<1>2. QED
  BY <1>1, AsideSteps, RunSearchKeeps, LoadMoreKeeps, ReadPageKeeps, SearchAnsweredKeeps,
     MoreAnsweredKeeps, PageFailsKeeps, IndexChangesKeep, ClearedKeeps
  DEF Search!Next

\* Every state of the message search is of its type: what pages and details on their way
\* carry are messages, and a count is known only as one there can be.
THEOREM SearchesTypes == ASSUME Search!MessagesAssumption PROVE Search!Spec => []Search!TypeOK
<1>1. SearchInv /\ [Search!Next]_Search!messagesVars => SearchInv'
  BY SearchSteps
<1>2. SearchInv => Search!TypeOK
  BY DEF SearchInv
<1>3. QED
  BY <1>1, <1>2, SearchStart, PTL DEF Search!Spec

\* The pages shown are the beginning of the result of the search, with nothing twice and
\* nothing left out, unless the index changed under them or a page was asked for with
\* filters edited since or across another search.
THEOREM PagesStayTogether == ASSUME Search!MessagesAssumption PROVE Search!Spec => []Search!PagesFitTogether
<1>1. SearchInv /\ [Search!Next]_Search!messagesVars => SearchInv'
  BY SearchSteps
<1>2. SearchInv => Search!PagesFitTogether
  BY DEF SearchInv
<1>3. QED
  BY <1>1, <1>2, SearchStart, PTL DEF Search!Spec

-----------------------------------------------------------------------------
(* The lists of the settings (SettingsScreen) *)

\* The sets of SettingsScreen are counted as those of the theorems are.
LEMMA SettingsCounts ==
    \A S : /\ Settings!Cardinality(S) = Cardinality(S)
           /\ Settings!IsFiniteSet(S) = IsFiniteSet(S)
BY DEF Settings!Cardinality, Settings!IsFiniteSet, Cardinality, IsFiniteSet

\* What will bring the list of now to the screen: a load that has not read an
\* older one, or a call that is answered with it or makes a load follow.
LoadBrings(l) == l.got \in {0, settingDb}
CallBrings(c) ==
    /\ c.pc = "done"
    /\ \/ settingList \in Settings!Sets(c.op) /\ c.answer = settingDb
       \/ \E f \in Settings!Reloads(c.op) : settingList \in Settings!Brings(f)
Coming == (\E l \in loads : LoadBrings(l)) \/ (\E c \in settingCalls : CallBrings(c))

\* No version on its way or on the screen is from the future.
Past ==
    /\ shown <= settingDb
    /\ \A c \in settingCalls : c.answer <= settingDb
    /\ \A l \in loads : l.got <= settingDb

SettingsInv ==
    /\ Settings!TypeOK /\ Settings!IsFiniteSet(settingCalls) /\ Settings!IsFiniteSet(loads)
    /\ Past
    /\ settingBehind \/ shown = settingDb \/ Coming

\* What a handler changes is set from its answer, loaded after it, or left behind.
LEMMA ChangesArrive ==
    ASSUME NEW op \in Settings!Ops, settingList \in Settings!Changes(op), settingList \notin Settings!LeftBehind(op)
    PROVE  settingList \in Settings!Sets(op) \/ \E f \in Settings!Reloads(op) : settingList \in Settings!Brings(f)
BY DEF Settings!Ops, Settings!Changes, Settings!LeftBehind, Settings!Sets, Settings!Reloads,
   Settings!Brings

\* Replacing and removing members of a finite set.
LEMMA Fewer ==
    ASSUME NEW S, Settings!IsFiniteSet(S), NEW n \in Nat, Settings!Cardinality(S) <= n, NEW x \in S
    PROVE  /\ Settings!IsFiniteSet(S \ {x}) /\ Settings!Cardinality(S \ {x}) <= n
           /\ \A y : Settings!IsFiniteSet((S \ {x}) \cup {y}) /\ Settings!Cardinality((S \ {x}) \cup {y}) <= n
<1>1. Settings!IsFiniteSet(S \ {x}) /\ Settings!Cardinality(S \ {x}) = Settings!Cardinality(S) - 1 /\ Settings!Cardinality(S) \in Nat
  BY SettingsCounts, FS_RemoveElement, FS_CardinalityType
<1>2. ASSUME NEW y
      PROVE  Settings!IsFiniteSet((S \ {x}) \cup {y}) /\ Settings!Cardinality((S \ {x}) \cup {y}) <= n
  <2>1. CASE y \in S \ {x}
    <3>1. (S \ {x}) \cup {y} = S \ {x}
      BY <2>1
    <3>2. QED
      BY <1>1, <3>1
  <2>2. CASE y \notin S \ {x}
    <3>1. /\ Settings!IsFiniteSet((S \ {x}) \cup {y})
          /\ Settings!Cardinality((S \ {x}) \cup {y}) = Settings!Cardinality(S \ {x}) + 1
      BY <1>1, <2>2, SettingsCounts, FS_AddElement
    <3>2. QED
      BY <1>1, <3>1
  <2>3. QED
    BY <2>1, <2>2
<1>3. Settings!Cardinality(S \ {x}) <= n
  BY <1>1
<1>4. QED
  BY <1>1, <1>2, <1>3

\* One more member.
LEMMA OneMore ==
    ASSUME NEW S, Settings!IsFiniteSet(S), NEW n \in Nat, Settings!Cardinality(S) < n, NEW x
    PROVE  Settings!IsFiniteSet(S \cup {x}) /\ Settings!Cardinality(S \cup {x}) <= n
<1>1. Settings!Cardinality(S) \in Nat
  BY SettingsCounts, FS_CardinalityType
<1>2. CASE x \in S
  <2>1. S \cup {x} = S
    BY <1>2
  <2>2. QED
    BY <1>1, <2>1
<1>3. CASE x \notin S
  <2>1. Settings!IsFiniteSet(S \cup {x}) /\ Settings!Cardinality(S \cup {x}) = Settings!Cardinality(S) + 1
    BY <1>3, SettingsCounts, FS_AddElement
  <2>2. QED
    BY <1>1, <2>1
<1>4. QED
  BY <1>2, <1>3

\* A version put on the screen is the last, or is followed by another one.
LEMMA Putting ==
    ASSUME Settings!SettingsAssumption, SettingsInv, NEW v \in Settings!Versions \cup {0}, v <= settingDb, Settings!Put(v), UNCHANGED <<settingList, settingDb>>,
           settingBehind \/ shown = settingDb \/ v = settingDb \/ Coming'
    PROVE  /\ shown' \in Settings!Versions \cup {0} /\ shown' <= settingDb' /\ settingBehind' \in BOOLEAN
           /\ settingBehind' \/ shown' = settingDb' \/ Coming'
<1>1. settingDb \in Nat /\ shown \in Nat /\ v \in Nat /\ shown <= settingDb /\ settingBehind \in BOOLEAN
  BY DEF Settings!SettingsAssumption, SettingsInv, Settings!TypeOK, Settings!Versions, Past
<1>2. shown' = v /\ settingDb' = settingDb /\ settingBehind' = (v < shown \/ (settingBehind /\ v # settingDb))
  BY DEF Settings!Put
<1>3. shown' \in Settings!Versions \cup {0} /\ shown' <= settingDb' /\ settingBehind' \in BOOLEAN
  BY <1>1, <1>2
<1>4. ASSUME ~settingBehind'
      PROVE  shown' = settingDb' \/ Coming'
  <2>1. ~ (v < shown) /\ (settingBehind => v = settingDb)
    BY <1>2, <1>4
  <2>2. shown = settingDb => v = settingDb
    BY <1>1, <2>1
  <2>3. QED
    BY <1>2, <2>1, <2>2
<1>5. QED
  BY <1>3, <1>4

\* A load that starts brings the list.
LEMMA Starting ==
    ASSUME Settings!SettingsAssumption, SettingsInv, NEW by \in Settings!Ops \cup {"mount", "focus"}, Settings!StartLoad(by)
    PROVE  /\ loads' \in SUBSET Settings!Load /\ Settings!IsFiniteSet(loads') /\ Settings!Cardinality(loads') <= MaxLoads
           /\ \A l \in loads' : l \in loads \/ l.got = 0
           /\ loads \subseteq loads'
           /\ \E l \in loads' : l.got = 0
<1>1. PICK x : x = [by |-> by, got |-> 0]
  OBVIOUS
<1>2. x \in Settings!Load /\ x.got = 0
  BY <1>1 DEF Settings!Load
<1>3. loads' = loads \cup {x} /\ Settings!Cardinality(loads) < MaxLoads
  BY <1>1 DEF Settings!StartLoad
<1>4. Settings!IsFiniteSet(loads \cup {x}) /\ Settings!Cardinality(loads \cup {x}) <= MaxLoads
  BY <1>3, OneMore DEF SettingsInv, Settings!SettingsAssumption
<1>5. QED
  BY <1>2, <1>3, <1>4 DEF SettingsInv, Settings!TypeOK

\* A handler that reloads the list leaves a load of it on its way.
LEMMA Reloading ==
    ASSUME Settings!SettingsAssumption, SettingsInv, NEW op \in Settings!Ops, Settings!Reload(op)
    PROVE  /\ loads' \in SUBSET Settings!Load /\ Settings!IsFiniteSet(loads') /\ Settings!Cardinality(loads') <= MaxLoads
           /\ \A l \in loads' : l \in loads \/ l.got = 0
           /\ loads \subseteq loads'
           /\ (\E f \in Settings!Reloads(op) : settingList \in Settings!Brings(f)) => \E l \in loads' : l.got = 0
<1>1. CASE \E f \in Settings!Reloads(op) : settingList \in Settings!Brings(f)
  BY <1>1, Starting DEF Settings!Reload
<1>2. CASE ~ \E f \in Settings!Reloads(op) : settingList \in Settings!Brings(f)
  BY <1>2 DEF Settings!Reload, SettingsInv, Settings!TypeOK
<1>3. QED
  BY <1>1, <1>2

-----------------------------------------------------------------------------
(* The steps *)

\* A change by another user: the screen may be behind.
LEMMA OtherChangesKeep ==
    ASSUME Settings!SettingsAssumption, SettingsInv, Settings!OtherChanges
    PROVE  SettingsInv'
<1>1. settingDb \in Nat /\ settingDb' = settingDb + 1 /\ settingDb <= MaxChanges
  BY DEF Settings!SettingsAssumption, SettingsInv, Settings!TypeOK, Settings!Versions,
     Settings!OtherChanges, Settings!Change
<1>2. Settings!TypeOK' /\ Settings!IsFiniteSet(settingCalls)' /\ Settings!IsFiniteSet(loads)'
  BY <1>1 DEF Settings!SettingsAssumption, SettingsInv, Settings!TypeOK, Settings!Versions,
     Settings!OtherChanges
<1>3. Past'
  <2>1. /\ shown \in Nat /\ \A c \in settingCalls : c.answer \in Nat
        /\ \A l \in loads : l.got \in Nat
    BY DEF SettingsInv, Settings!TypeOK, Settings!Call, Settings!Load, Settings!Versions
  <2>2. QED
    BY <1>1, <2>1 DEF SettingsInv, Past, Settings!OtherChanges
<1>4. QED
  BY <1>2, <1>3 DEF SettingsInv, Settings!OtherChanges

\* What the backend does for a request: the setting has a new version.
LEMMA SettingsExecuteKeeps ==
    ASSUME Settings!SettingsAssumption, SettingsInv, NEW c \in settingCalls, Settings!Execute(c)
    PROVE  SettingsInv'
<1>1. PICK d : d = [c EXCEPT !.pc = "done", !.answer = IF settingList \in Settings!Sets(c.op) THEN settingDb' ELSE 0]
  OBVIOUS
<1>2. /\ c \in Settings!Call /\ c.op \in Settings!Ops /\ c.pc = "sent" /\ settingDb \in Nat /\ settingDb \in Settings!Versions /\ shown \in Nat
      /\ \A k \in settingCalls : k.answer \in Nat
      /\ \A l \in loads : l.got \in Nat
  BY DEF SettingsInv, Settings!TypeOK, Settings!Call, Settings!Load, Settings!Versions,
     Settings!Execute
<1>3. /\ settingCalls' = (settingCalls \ {c}) \cup {d}
      /\ settingBehind' = (settingBehind \/ settingList \in Settings!LeftBehind(c.op))
      /\ UNCHANGED <<settingList, shown, loads>>
  BY <1>1 DEF Settings!Execute
<1>4. settingDb' \in Settings!Versions /\ settingDb <= settingDb' /\ (settingList \notin Settings!Changes(c.op) => settingDb' = settingDb)
  BY <1>2 DEF Settings!SettingsAssumption, Settings!Execute, Settings!Change, Settings!Versions
<1>5. /\ d \in Settings!Call /\ d.op = c.op /\ d.pc = "done" /\ d.answer <= settingDb'
      /\ settingList \in Settings!Sets(c.op) => d.answer = settingDb'
  <2>1. PICK a : a = IF settingList \in Settings!Sets(c.op) THEN settingDb' ELSE 0
    OBVIOUS
  <2>2. a \in Settings!Versions \cup {0} /\ a <= settingDb' /\ (settingList \in Settings!Sets(c.op) => a = settingDb')
    BY <1>4, <2>1 DEF Settings!Versions
  <2>3. d = [c EXCEPT !.pc = "done", !.answer = a]
    BY <1>1, <2>1
  <2>4. QED
    BY <1>2, <2>2, <2>3 DEF Settings!Call
<1>6. Settings!TypeOK' /\ Settings!IsFiniteSet(settingCalls)' /\ Settings!IsFiniteSet(loads)'
  <2>1. Settings!IsFiniteSet(settingCalls') /\ Settings!Cardinality(settingCalls') <= MaxSettingCalls
    BY <1>3, Fewer DEF SettingsInv, Settings!TypeOK, Settings!SettingsAssumption
  <2>2. QED
    BY <1>3, <1>4, <1>5, <2>1 DEF SettingsInv, Settings!TypeOK
<1>7. Past'
  BY <1>2, <1>3, <1>4, <1>5 DEF SettingsInv, Past, Settings!Versions
<1>8. ASSUME ~settingBehind'
      PROVE  shown' = settingDb' \/ Coming'
  <2>1. CASE settingList \in Settings!Changes(c.op)
    <3>1. settingList \in Settings!Sets(c.op) \/ \E f \in Settings!Reloads(c.op) : settingList \in Settings!Brings(f)
      BY <1>2, <1>3, <1>8, <2>1, ChangesArrive
    <3>2. CallBrings(d)'
      BY <1>3, <1>5, <3>1 DEF CallBrings
    <3>3. QED
      BY <1>3, <3>2 DEF Coming
  <2>2. CASE settingList \notin Settings!Changes(c.op)
    <3>1. settingDb' = settingDb
      BY <1>4, <2>2
    <3>2. CASE shown = settingDb
      BY <1>3, <3>1, <3>2
    <3>3. ASSUME NEW l \in loads, LoadBrings(l)
          PROVE  Coming'
      BY <1>3, <3>1, <3>3 DEF Coming, LoadBrings
    <3>4. ASSUME NEW k \in settingCalls, CallBrings(k)
          PROVE  Coming'
      BY <1>2, <1>3, <3>1, <3>4 DEF Coming, CallBrings
    <3>5. QED
      BY <1>3, <1>8, <3>2, <3>3, <3>4 DEF SettingsInv, Coming
  <2>3. QED
    BY <2>1, <2>2
<1>9. QED
  BY <1>6, <1>7, <1>8 DEF SettingsInv

\* The backend reads the settings for a load.
LEMMA SettingsReadListKeeps ==
    ASSUME Settings!SettingsAssumption, SettingsInv, NEW l \in loads, Settings!ReadList(l)
    PROVE  SettingsInv'
<1>1. PICK m : m = [l EXCEPT !.got = settingDb]
  OBVIOUS
<1>2. /\ l \in Settings!Load /\ settingDb \in Settings!Versions /\ loads' = (loads \ {l}) \cup {m}
      /\ UNCHANGED <<settingList, settingDb, shown, settingCalls, settingBehind>>
  BY <1>1 DEF SettingsInv, Settings!TypeOK, Settings!ReadList
<1>3. m \in Settings!Load /\ m.got = settingDb
  BY <1>1, <1>2 DEF Settings!Load
<1>4. Settings!IsFiniteSet(loads') /\ Settings!Cardinality(loads') <= MaxLoads
  BY <1>2, Fewer DEF SettingsInv, Settings!TypeOK, Settings!SettingsAssumption
<1>5. Settings!TypeOK' /\ Settings!IsFiniteSet(settingCalls)' /\ Settings!IsFiniteSet(loads)'
  BY <1>2, <1>3, <1>4 DEF SettingsInv, Settings!TypeOK
<1>6. Past'
  BY <1>2, <1>3 DEF SettingsInv, Past, Settings!Versions
<1>7. Coming'
  BY <1>2, <1>3 DEF Coming, LoadBrings
<1>8. QED
  BY <1>5, <1>6, <1>7 DEF SettingsInv

\* A reload that is asked for.
LEMMA SettingsRefreshKeeps ==
    ASSUME Settings!SettingsAssumption, SettingsInv, Settings!Refresh
    PROVE  SettingsInv'
<1>1. Settings!StartLoad("focus") /\ UNCHANGED <<settingList, settingDb, shown, settingCalls, settingBehind>>
  BY DEF Settings!Refresh
<1>2. /\ loads' \in SUBSET Settings!Load /\ Settings!IsFiniteSet(loads') /\ Settings!Cardinality(loads') <= MaxLoads
      /\ \A l \in loads' : l \in loads \/ l.got = 0
      /\ \E l \in loads' : l.got = 0
  BY <1>1, Starting
<1>3. Settings!TypeOK' /\ Settings!IsFiniteSet(settingCalls)' /\ Settings!IsFiniteSet(loads)'
  BY <1>1, <1>2 DEF SettingsInv, Settings!TypeOK
<1>4. Past'
  BY <1>1, <1>2 DEF SettingsInv, Settings!TypeOK, Past, Settings!Versions
<1>5. Coming'
  BY <1>2 DEF Coming, LoadBrings
<1>6. QED
  BY <1>3, <1>4, <1>5 DEF SettingsInv

\* A request that is sent keeps the invariant.
LEMMA SettingsSendKeeps ==
    ASSUME Settings!SettingsAssumption, SettingsInv, NEW op \in Settings!Ops, Settings!Send(op)
    PROVE  SettingsInv'
<1>1. PICK x : x = [op |-> op, pc |-> "sent", answer |-> 0]
  OBVIOUS
<1>2. x \in Settings!Call /\ x.answer = 0
  BY <1>1 DEF Settings!Call
<1>3. /\ settingCalls' = settingCalls \cup {x} /\ Settings!Cardinality(settingCalls) < MaxSettingCalls
      /\ UNCHANGED <<settingList, settingDb, shown, loads, settingBehind>>
  BY <1>1 DEF Settings!Send
<1>4. Settings!IsFiniteSet(settingCalls') /\ Settings!Cardinality(settingCalls') <= MaxSettingCalls
  BY <1>3, OneMore DEF SettingsInv, Settings!SettingsAssumption
<1>5. Settings!TypeOK' /\ Settings!IsFiniteSet(settingCalls)' /\ Settings!IsFiniteSet(loads)'
  BY <1>2, <1>3, <1>4 DEF SettingsInv, Settings!TypeOK
<1>6. Past'
  BY <1>2, <1>3 DEF SettingsInv, Settings!TypeOK, Past, Settings!Versions
<1>7. Coming => Coming'
  BY <1>3 DEF Coming, LoadBrings, CallBrings
<1>8. QED
  BY <1>3, <1>5, <1>6, <1>7 DEF SettingsInv

\* The answer of a request, which asks for a reload.
LEMMA SettingsAnsweredKeeps ==
    ASSUME Settings!SettingsAssumption, SettingsInv, NEW c \in settingCalls, Settings!Answered(c)
    PROVE  SettingsInv'
<1>1. /\ c.op \in Settings!Ops /\ c.pc = "done" /\ c.answer \in Settings!Versions \cup {0} /\ c.answer <= settingDb
      /\ settingCalls' = settingCalls \ {c} /\ Settings!Reload(c.op) /\ UNCHANGED <<settingList, settingDb>>
  BY DEF SettingsInv, Settings!TypeOK, Settings!Call, Past, Settings!Answered
<1>2. /\ loads' \in SUBSET Settings!Load /\ Settings!IsFiniteSet(loads') /\ Settings!Cardinality(loads') <= MaxLoads
      /\ \A l \in loads' : l \in loads \/ l.got = 0
      /\ loads \subseteq loads'
      /\ (\E f \in Settings!Reloads(c.op) : settingList \in Settings!Brings(f)) => \E l \in loads' : l.got = 0
  BY <1>1, Reloading
<1>3. Settings!IsFiniteSet(settingCalls') /\ Settings!Cardinality(settingCalls') <= MaxSettingCalls
  BY <1>1, Fewer DEF SettingsInv, Settings!TypeOK, Settings!SettingsAssumption
<1>4. Coming => Coming' \/ (settingList \in Settings!Sets(c.op) /\ c.answer = settingDb)
  <2>1. ASSUME NEW l \in loads, LoadBrings(l)
        PROVE  Coming'
    BY <1>1, <1>2, <2>1 DEF Coming, LoadBrings
  <2>2. ASSUME NEW k \in settingCalls \ {c}, CallBrings(k)
        PROVE  Coming'
    BY <1>1, <2>2 DEF Coming, CallBrings
  <2>3. ASSUME \E l \in loads' : l.got = 0
        PROVE  Coming'
    BY <2>3 DEF Coming, LoadBrings
  <2>4. QED
    BY <1>1, <1>2, <2>1, <2>2, <2>3 DEF Coming, CallBrings
<1>5. /\ shown' \in Settings!Versions \cup {0} /\ shown' <= settingDb' /\ settingBehind' \in BOOLEAN
      /\ settingBehind' \/ shown' = settingDb' \/ Coming'
  <2>1. CASE settingList \in Settings!Sets(c.op)
    <3>1. Settings!Put(c.answer)
      BY <2>1 DEF Settings!Answered
    <3>2. settingBehind \/ shown = settingDb \/ c.answer = settingDb \/ Coming'
      BY <1>4 DEF SettingsInv
    <3>3. QED
      BY <1>1, <3>1, <3>2, Putting
  <2>2. CASE settingList \notin Settings!Sets(c.op)
    <3>1. UNCHANGED <<shown, settingBehind>>
      BY <2>2 DEF Settings!Answered
    <3>2. QED
      BY <1>1, <1>4, <2>2, <3>1 DEF SettingsInv, Settings!TypeOK, Past
  <2>3. QED
    BY <2>1, <2>2
<1>6. Settings!TypeOK' /\ Settings!IsFiniteSet(settingCalls)' /\ Settings!IsFiniteSet(loads)'
  BY <1>1, <1>2, <1>3, <1>5 DEF SettingsInv, Settings!TypeOK
<1>7. Past'
  BY <1>1, <1>2, <1>5 DEF SettingsInv, Settings!TypeOK, Past, Settings!Versions
<1>8. QED
  BY <1>5, <1>6, <1>7 DEF SettingsInv

\* A request that fails on its way back leaves what it did.
LEMMA SettingsCallFailsKeeps ==
    ASSUME Settings!SettingsAssumption, SettingsInv, NEW c \in settingCalls, Settings!CallFails(c)
    PROVE  SettingsInv'
<1>1. /\ c.op \in Settings!Ops /\ c.pc \in {"sent", "done"}
      /\ settingCalls' = settingCalls \ {c} /\ UNCHANGED <<settingList, settingDb, shown>>
  BY DEF SettingsInv, Settings!TypeOK, Settings!Call, Settings!CallFails
<1>2. /\ loads' \in SUBSET Settings!Load /\ Settings!IsFiniteSet(loads') /\ Settings!Cardinality(loads') <= MaxLoads
      /\ \A l \in loads' : l \in loads \/ l.got = 0
      /\ loads \subseteq loads'
      /\ c.op = "connected" =>
            /\ settingBehind' = settingBehind
            /\ (\E f \in Settings!Reloads(c.op) : settingList \in Settings!Brings(f)) => \E l \in loads' : l.got = 0
      /\ c.op # "connected" => settingBehind' = (settingBehind \/ c.pc = "done")
  <2>1. CASE c.op = "connected"
    BY <1>1, <2>1, Reloading DEF Settings!CallFails
  <2>2. CASE c.op # "connected"
    BY <2>2 DEF Settings!CallFails, SettingsInv, Settings!TypeOK
  <2>3. QED
    BY <2>1, <2>2
<1>3. Settings!IsFiniteSet(settingCalls') /\ Settings!Cardinality(settingCalls') <= MaxSettingCalls
  BY <1>1, Fewer DEF SettingsInv, Settings!TypeOK, Settings!SettingsAssumption
<1>4. Settings!TypeOK' /\ Settings!IsFiniteSet(settingCalls)' /\ Settings!IsFiniteSet(loads)'
  BY <1>1, <1>2, <1>3 DEF SettingsInv, Settings!TypeOK
<1>5. Past'
  BY <1>1, <1>2 DEF SettingsInv, Settings!TypeOK, Past, Settings!Versions
<1>6. Coming => Coming' \/ settingBehind'
  <2>1. ASSUME NEW l \in loads, LoadBrings(l)
        PROVE  Coming'
    BY <1>1, <1>2, <2>1 DEF Coming, LoadBrings
  <2>2. ASSUME NEW k \in settingCalls \ {c}, CallBrings(k)
        PROVE  Coming'
    BY <1>1, <2>2 DEF Coming, CallBrings
  <2>3. ASSUME CallBrings(c), c.op = "connected"
        PROVE  Coming'
    <3>1. \E f \in Settings!Reloads(c.op) : settingList \in Settings!Brings(f)
      BY <2>3 DEF CallBrings, Settings!Sets
    <3>2. QED
      BY <1>2, <2>3, <3>1 DEF Coming, LoadBrings
  <2>4. ASSUME CallBrings(c), c.op # "connected"
        PROVE  settingBehind'
    BY <1>2, <2>4 DEF CallBrings
  <2>5. QED
    BY <2>1, <2>2, <2>3, <2>4 DEF Coming
<1>7. settingBehind => settingBehind'
  BY <1>2
<1>8. QED
  BY <1>1, <1>4, <1>5, <1>6, <1>7 DEF SettingsInv

\* A load that arrives overtakes the earlier ones.
LEMMA SettingsLoadedKeeps ==
    ASSUME Settings!SettingsAssumption, SettingsInv, NEW l \in loads, Settings!Loaded(l)
    PROVE  SettingsInv'
<1>1. /\ l.got \in Settings!Versions \cup {0} /\ l.got # 0 /\ l.got <= settingDb
      /\ loads' = loads \ {l} /\ Settings!Put(l.got) /\ UNCHANGED <<settingList, settingDb, settingCalls>>
  BY DEF SettingsInv, Settings!TypeOK, Settings!Load, Past, Settings!Loaded
<1>2. Settings!IsFiniteSet(loads') /\ Settings!Cardinality(loads') <= MaxLoads
  BY <1>1, Fewer DEF SettingsInv, Settings!TypeOK, Settings!SettingsAssumption
<1>3. Coming => Coming' \/ l.got = settingDb
  <2>1. ASSUME NEW k \in loads, LoadBrings(k), l.got # settingDb
        PROVE  Coming'
    BY <1>1, <2>1 DEF Coming, LoadBrings
  <2>2. ASSUME NEW k \in settingCalls, CallBrings(k)
        PROVE  Coming'
    BY <1>1, <2>2 DEF Coming, CallBrings
  <2>3. QED
    BY <2>1, <2>2 DEF Coming
<1>4. /\ shown' \in Settings!Versions \cup {0} /\ shown' <= settingDb' /\ settingBehind' \in BOOLEAN
      /\ settingBehind' \/ shown' = settingDb' \/ Coming'
  <2>1. settingBehind \/ shown = settingDb \/ l.got = settingDb \/ Coming'
    BY <1>3 DEF SettingsInv
  <2>2. QED
    BY <1>1, <2>1, Putting
<1>5. Settings!TypeOK' /\ Settings!IsFiniteSet(settingCalls)' /\ Settings!IsFiniteSet(loads)'
  BY <1>1, <1>2, <1>4 DEF SettingsInv, Settings!TypeOK
<1>6. Past'
  BY <1>1, <1>4 DEF SettingsInv, Past
<1>7. QED
  BY <1>4, <1>5, <1>6 DEF SettingsInv

\* A load that fails leaves the screen as it was.
LEMMA SettingsLoadFailsKeeps ==
    ASSUME Settings!SettingsAssumption, SettingsInv, NEW l \in loads, Settings!LoadFails(l)
    PROVE  SettingsInv'
<1>1. loads' = loads \ {l} /\ settingBehind' = TRUE /\ shown' \in {0, shown} /\ UNCHANGED <<settingList, settingDb, settingCalls>>
  BY DEF Settings!LoadFails
<1>2. Settings!IsFiniteSet(loads') /\ Settings!Cardinality(loads') <= MaxLoads
  BY <1>1, Fewer DEF SettingsInv, Settings!TypeOK, Settings!SettingsAssumption
<1>3. Settings!TypeOK' /\ Settings!IsFiniteSet(settingCalls)' /\ Settings!IsFiniteSet(loads)'
  BY <1>1, <1>2 DEF SettingsInv, Settings!TypeOK
<1>4. Past'
  BY <1>1 DEF SettingsInv, Settings!TypeOK, Past, Settings!Versions
<1>5. QED
  BY <1>1, <1>3, <1>4 DEF SettingsInv

\* Nothing was loaded: the invariant of the settings holds.
LEMMA SettingsStart == Settings!SettingsAssumption /\ Settings!Init => SettingsInv
<1>. SUFFICES ASSUME Settings!SettingsAssumption, Settings!Init
              PROVE  SettingsInv
  OBVIOUS
<1>1. PICK x : x = [by |-> "mount", got |-> 0]
  OBVIOUS
<1>2. x \in Settings!Load /\ x.got = 0 /\ loads = {x}
  BY <1>1 DEF Settings!Load, Settings!Init
<1>3. Settings!IsFiniteSet(loads) /\ Settings!Cardinality(loads) = 1 /\ Settings!IsFiniteSet(settingCalls) /\ Settings!Cardinality(settingCalls) = 0
  BY <1>2, SettingsCounts, FS_EmptySet, FS_Singleton DEF Settings!Init
<1>4. Settings!TypeOK
  <2>1. /\ settingList \in Settings!Lists /\ settingDb = 1 /\ shown = 0 /\ settingBehind = FALSE /\ settingCalls = {}
    BY DEF Settings!Init
  <2>2. 1 \in Settings!Versions /\ 0 <= MaxSettingCalls /\ 1 <= MaxLoads
    BY DEF Settings!SettingsAssumption, Settings!Versions
  <2>3. settingCalls \in SUBSET Settings!Call /\ loads \in SUBSET Settings!Load
    BY <1>2, <2>1
  <2>4. QED
    BY <1>3, <2>1, <2>2, <2>3 DEF Settings!TypeOK
<1>5. Past /\ Coming
  BY <1>2 DEF Past, Coming, LoadBrings, Settings!Init
<1>6. QED
  BY <1>3, <1>4, <1>5 DEF SettingsInv

\* The invariant of the settings is inductive.
LEMMA SettingsSteps ==
    ASSUME Settings!SettingsAssumption, SettingsInv, [Settings!Next]_Settings!settingsVars
    PROVE  SettingsInv'
<1>1. ASSUME UNCHANGED Settings!settingsVars
      PROVE  SettingsInv'
  BY <1>1 DEF Settings!settingsVars, SettingsInv, Settings!TypeOK, Past, Coming, LoadBrings,
     CallBrings
<1>2. QED
  BY <1>1, SettingsRefreshKeeps, OtherChangesKeep, SettingsSendKeeps, SettingsExecuteKeeps,
     SettingsAnsweredKeeps, SettingsCallFailsKeeps,
     SettingsReadListKeeps, SettingsLoadedKeeps, SettingsLoadFailsKeeps
  DEF Settings!Next

\* Every state of the settings screen is of its type: requests and loads on their way
\* carry versions that there have been.
THEOREM SettingsTypes == ASSUME Settings!SettingsAssumption PROVE Settings!Spec => []Settings!TypeOK
<1>1. SettingsInv /\ [Settings!Next]_Settings!settingsVars => SettingsInv'
  BY SettingsSteps
<1>2. SettingsInv => Settings!TypeOK
  BY DEF SettingsInv
<1>3. QED
  BY <1>1, <1>2, SettingsStart, PTL DEF Settings!Spec

\* Once nothing about a list of the settings is on its way, the screen shows it as it is in
\* the database, except after a change by someone else, a failure, an answer put over a
\* later one, or a change that its handler leaves behind.
THEOREM SettledIsCurrent == ASSUME Settings!SettingsAssumption PROVE Settings!Spec => []Settings!SettledScreenIsCurrent
<1>1. SettingsInv /\ [Settings!Next]_Settings!settingsVars => SettingsInv'
  BY SettingsSteps
<1>2. SettingsInv => Settings!SettledScreenIsCurrent
  BY DEF SettingsInv, Settings!SettledScreenIsCurrent, Coming
<1>3. QED
  BY <1>1, <1>2, SettingsStart, PTL DEF Settings!Spec
=============================================================================
