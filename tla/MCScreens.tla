------------------------------ MODULE MCScreens ------------------------------
(***************************************************************************)
(* Instance of the screens and dialogs of the frontend for TLC.  They      *)
(* share no state, so each is explored alone: `which` says which one, and  *)
(* their state spaces add up instead of multiplying.  The same variables   *)
(* stand for those of the one explored, which keeps the states small; the  *)
(* ones it does not need stay None.                                        *)
(***************************************************************************)
EXTENDS Naturals, Sequences, TLC

CONSTANTS Cases, People, Spellings, None, MaxQuestions, MaxChips, MaxMailCalls,
          Listed, MaxLists, MaxListCalls,
          Jobs, Folders, MaxGets, MaxJobCalls,
          f1, f2, MaxMessage, PageSize, MaxPages, MaxDetails,
          MaxChanges, MaxSettingCalls, MaxLoads, Rows, Types, MaxImpacts

VARIABLES which, x1, x2, x3, x4, x5, x6, x7, x8, x9, x10, x11, x12, x13, x14, x15, x16, x17, x18

\* The last filter is the narrower.
Filters == {f1, f2}
Matches == f1 :> 1..MaxMessage @@ f2 :> 2..MaxMessage

Mail == INSTANCE MailDialog WITH MaxCalls <- MaxMailCalls, mail <- x1, form <- x2,
    suggestion <- x3, preview <- x4, pdf <- x5, report <- x6, fields <- x7, calls <- x8
Ask == INSTANCE AskCase WITH askCaseTarget <- x1, history <- x2, storage <- x3, asking <-
    x4, inFlight <- x5, asked <- x6, kept <- x7, over <- x8, mixed <- x9
Chips == INSTANCE RecipientInput WITH chips <- x1, drag <- x2, wanted <- x3
List == INSTANCE CaseList WITH Cases <- Listed, MaxGets <- MaxLists, MaxCalls <-
    MaxListCalls, born <- x1, db <- x2, cases <- x3, selectedCaseIds <- x4, mergeModalOpen
    <- x5, deleteTarget <- x6, clearModalOpen <- x7, calls <- x8, gets <- x9, ghosts <- x10,
    behind <- x11
Queue == INSTANCE JobsScreen WITH MaxCalls <- MaxJobCalls, status <- x1, mounted <- x2, jobs
    <- x3, prevStatuses <- x4, gets <- x5, calls <- x6, retryingId <- x7, cancelingId <- x8,
    deletingJob <- x9, clearing <- x10, deleteTarget <- x11, clearModalOpen <- x12, todo <-
    x13, stray <- x14, owed <- x15, announced <- x16, again <- x17
Search == INSTANCE MessagesScreen WITH index <- x1, filters <- x2, messages <- x3, total <-
    x4, pages <- x5, loading <- x6, loadingMore <- x7, expandedId <- x8, detail <- x9,
    details <- x10, clears <- x11, searched <- x12, skewed <- x13
Settings == INSTANCE SettingsScreen WITH MaxCalls <- MaxSettingCalls, list <- x1, db <- x2,
    shown <- x3, calls <- x4, loads <- x5, behind <- x6
Forms == INSTANCE SettingsDialogs WITH MaxCalls <- MaxImpacts, formOpen <- x1, editingId <-
    x2, type <- x3, dirty <- x4, fetchedModels <- x5, fetching <- x6, saving <- x7, fetches
    <- x8, saves <- x9, deleteTarget <- x10, deleteImpact <- x11, loadingImpact <- x12,
    deleting <- x13, impacts <- x14, deletes <- x15, rows <- x16, lost <- x17, crossed <-
    x18

ASSUME ScreensAssumption ==
    /\ Mail!CasesAssumption /\ Mail!CallsAssumption
    /\ Ask!CasesAssumption /\ Ask!QuestionsAssumption
    /\ Chips!NoneAssumption /\ Chips!ChipsAssumption
    /\ List!ListAssumption /\ Queue!JobsAssumption /\ Search!MessagesAssumption
    /\ Settings!SettingsAssumption /\ Forms!SettingsDialogsAssumption

\* The variables from one on, and that they are not needed.
From18 == <<x18>>
From14 == <<x14, x15, x16, x17, From18>>
From12 == <<x12, x13, From14>>
From10 == <<x10, x11, From12>>
From9  == <<x9, From10>>
From7  == <<x7, x8, From9>>
From4  == <<x4, x5, x6, From7>>
Idle18 == x18 = None
Idle14 == x14 = None /\ x15 = None /\ x16 = None /\ x17 = None /\ Idle18
Idle12 == x12 = None /\ x13 = None /\ Idle14
Idle10 == x10 = None /\ x11 = None /\ Idle12
Idle9  == x9 = None /\ Idle10
Idle7  == x7 = None /\ x8 = None /\ Idle9
Idle4  == x4 = None /\ x5 = None /\ x6 = None /\ Idle7

Init ==
    \/ which = "mail"     /\ Mail!Init     /\ Idle9
    \/ which = "ask"      /\ Ask!Init      /\ Idle10
    \/ which = "chips"    /\ Chips!Init    /\ Idle4
    \/ which = "list"     /\ List!Init     /\ Idle12
    \/ which = "queue"    /\ Queue!Init    /\ Idle18
    \/ which = "search"   /\ Search!Init   /\ Idle14
    \/ which = "settings" /\ Settings!Init /\ Idle7
    \/ which = "forms"    /\ Forms!Init

Next ==
    /\ UNCHANGED which
    /\ \/ which = "mail"     /\ Mail!Next     /\ UNCHANGED From9
       \/ which = "ask"      /\ Ask!Next      /\ UNCHANGED From10
       \/ which = "chips"    /\ Chips!Next    /\ UNCHANGED From4
       \/ which = "list"     /\ List!Next     /\ UNCHANGED From12
       \/ which = "queue"    /\ Queue!Next    /\ UNCHANGED From18
       \/ which = "search"   /\ Search!Next   /\ UNCHANGED From14
       \/ which = "settings" /\ Settings!Next /\ UNCHANGED From7
       \/ which = "forms"    /\ Forms!Next

Spec == Init /\ [][Next]_<<which, x1, x2, x3, From4>>

TypeOK ==
    CASE which = "mail"     -> Mail!TypeOK
      [] which = "ask"      -> Ask!TypeOK
      [] which = "chips"    -> Chips!TypeOK
      [] which = "list"     -> List!TypeOK
      [] which = "queue"    -> Queue!TypeOK
      [] which = "search"   -> Search!TypeOK
      [] which = "settings" -> Settings!TypeOK
      [] which = "forms"    -> Forms!TypeOK
CasesStayApart          == which = "mail"     => Mail!CasesStayApart
ThinkingEnds            == which = "ask"      => Ask!ThinkingEnds
ConversationsStayApart  == which = "ask"      => Ask!ConversationsStayApart
RecipientsAreKept       == which = "chips"    => Chips!RecipientsAreKept
TickedCasesAreListed    == which = "list"     => List!TickedCasesAreListed
EndsAreAnnounced        == which = "queue"    => Queue!EndsAreAnnounced
PagesFitTogether        == which = "search"   => Search!PagesFitTogether
SettledScreenIsCurrent  == which = "settings" => Settings!SettledScreenIsCurrent
DialogsFitTheirRow      == which = "forms"    => Forms!DialogsFitTheirRow
=============================================================================
