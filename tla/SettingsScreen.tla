---------------------------- MODULE SettingsScreen ----------------------------
(***************************************************************************)
(* The lists of the settings of an administrator (SettingsView.tsx): each  *)
(* is loaded when the screen opens, and again by the handlers that change  *)
(* it, once the backend has answered them.  Other administrators change    *)
(* the same lists, and the screen is not told.                             *)
(*                                                                         *)
(* What happens to one list does not depend on the others, so one of them  *)
(* is followed, whichever, and of it only its version.                     *)
(***************************************************************************)
EXTENDS Naturals, FiniteSets

CONSTANTS MaxChanges,  \* bound: changes made to the list, by all
          MaxCalls,    \* bound: calls in flight; one of each kind at most
          MaxLoads     \* bound: loads in flight

SettingsAssumption == {MaxChanges, MaxCalls} \subseteq Nat /\ MaxLoads \in Nat \ {0}

VARIABLES
    list,    \* the list followed
    db,      \* its version in the database
    shown,   \* its version on the screen, 0 when it is empty
    calls,   \* calls in flight of the handlers that have to do with it
    loads,   \* loads of it in flight
    behind   \* history: it is not expected to follow the database

settingsVars == <<list, db, shown, calls, loads, behind>>

\* health is a probe of the active provider and is not followed.
Lists   == {"providers", "policy", "tenants", "mailboxes", "users", "directory", "sender"}
Loaders == {"loadAll", "loadMailboxes", "loadTenants", "loadUsers", "loadUserDirectory",
            "loadNotificationSender"}
Ops     == {"provider", "policy", "tenant", "deleteTenant", "mailbox", "deleteMailbox",
            "connected", "sender", "user", "deleteUser"}

Brings(f) ==
    CASE f = "loadAll"                -> {"providers", "policy"}
      [] f = "loadMailboxes"          -> {"mailboxes"}
      [] f = "loadTenants"            -> {"tenants"}
      [] f = "loadUsers"              -> {"users"}
      [] f = "loadUserDirectory"      -> {"directory"}
      [] f = "loadNotificationSender" -> {"sender"}

\* What the backend changes: is_notification_sender and the name of the tenant
\* are shown with a mailbox, whose owner and tenant the foreign keys set to null.
Changes(op) ==
    CASE op = "provider"              -> {"providers"}
      [] op = "policy"                -> {"policy"}
      [] op = "tenant"                -> {"tenants"}
      [] op = "deleteTenant"          -> {"tenants", "mailboxes"}
      [] op \in {"mailbox", "connected"} -> {"mailboxes"}
      [] op = "deleteMailbox"         -> {"mailboxes", "sender"}
      [] op = "sender"                -> {"sender", "mailboxes"}
      [] op = "user"                  -> {"users", "directory"}
      [] op = "deleteUser"            -> {"users", "directory", "mailboxes"}

\* Faulty variant: deleting a mailbox is answered with its counts and no load.
ReloadsForgetting(op) ==
    CASE op = "provider" -> {"loadAll"}
      [] op \in {"tenant", "deleteTenant"} -> {"loadTenants"}
      [] op \in {"mailbox", "connected"} -> {"loadMailboxes"}
      [] op \in {"user", "deleteUser"} -> {"loadUsers"}
      [] op \in {"policy", "sender", "deleteMailbox"} -> {}
\* The loader each handler calls when it is answered.
Reloads(op) ==
    CASE op = "provider" -> {"loadAll"}
      [] op \in {"tenant", "deleteTenant"} -> {"loadTenants"}
      [] op \in {"mailbox", "connected", "deleteMailbox"} -> {"loadMailboxes"}
      [] op \in {"user", "deleteUser"} -> {"loadUsers"}
      [] op \in {"policy", "sender"} -> {}

\* The lists set from the answer itself, without a load.
Sets(op) == CASE op = "policy" -> {"policy"} [] op = "sender" -> {"sender"} [] OTHER -> {}

\* Changed with another list and left as it was on the screen, which the user
\* sees after the next focus, or only when the screen is opened again.
LeftBehind(op) ==
    CASE op = "deleteTenant"  -> {"mailboxes"}
      [] op = "deleteMailbox" -> {"sender"}
      [] op = "sender"        -> {"mailboxes"}
      [] op = "user"          -> {"directory"}
      [] op = "deleteUser"    -> {"directory", "mailboxes"}
      [] OTHER -> {}

Concerns(op) == list \in Changes(op) \cup Sets(op) \/ \E f \in Reloads(op) : list \in Brings(f)

Versions == 1..(MaxChanges + 1)
Call == [op : Ops, pc : {"sent", "done"}, answer : Versions \cup {0}]
Load == [by : Ops \cup {"mount", "focus"}, got : Versions \cup {0}]

TypeOK ==
    /\ list \in Lists
    /\ db \in Versions
    /\ shown \in Versions \cup {0}
    /\ calls \in SUBSET Call /\ Cardinality(calls) <= MaxCalls
    /\ loads \in SUBSET Load /\ Cardinality(loads) <= MaxLoads
    /\ behind \in BOOLEAN

\* The screen has been opened, and the first load is on its way.
Init ==
    /\ list \in Lists
    /\ db = 1 /\ shown = 0
    /\ calls = {}
    /\ loads = {[by |-> "mount", got |-> 0]}
    /\ behind = FALSE

-----------------------------------------------------------------------------
(* The backend *)

Change == db <= MaxChanges /\ db' = db + 1

\* Another administrator.
OtherChanges ==
    /\ Change
    /\ behind' = TRUE
    /\ UNCHANGED <<list, shown, calls, loads>>

Execute(c) ==
    /\ c.pc = "sent"
    /\ IF list \in Changes(c.op) THEN Change ELSE UNCHANGED db
    /\ calls' = (calls \ {c}) \cup
         {[c EXCEPT !.pc = "done", !.answer = IF list \in Sets(c.op) THEN db' ELSE 0]}
    /\ behind' = (behind \/ list \in LeftBehind(c.op))
    /\ UNCHANGED <<list, shown, loads>>

ReadList(l) ==
    /\ l.got = 0
    /\ loads' = (loads \ {l}) \cup {[l EXCEPT !.got = db]}
    /\ UNCHANGED <<list, db, shown, calls, behind>>

-----------------------------------------------------------------------------
(* The screen *)

StartLoad(by) ==
    /\ [by |-> by, got |-> 0] \notin loads
    /\ Cardinality(loads) < MaxLoads
    /\ loads' = loads \cup {[by |-> by, got |-> 0]}
Reload(op) == IF \E f \in Reloads(op) : list \in Brings(f) THEN StartLoad(op) ELSE UNCHANGED loads

\* The window gets the focus, or the user presses the button of the mailboxes.
Refresh ==
    /\ list \in Brings("loadMailboxes")
    /\ StartLoad("focus")
    /\ UNCHANGED <<list, db, shown, calls, behind>>

\* The handlers: their buttons wait for the answer.  "connected" is the claim
\* that follows the message of the window where the account was connected.
Send(op) ==
    /\ Concerns(op)
    /\ \A c \in calls : c.op # op
    /\ Cardinality(calls) < MaxCalls
    /\ calls' = calls \cup {[op |-> op, pc |-> "sent", answer |-> 0]}
    /\ UNCHANGED <<list, db, shown, loads, behind>>

\* A version put over a later one stays behind until the next load.
Put(version) ==
    /\ shown' = version
    /\ behind' = (version < shown \/ (behind /\ version # db))

Answered(c) ==
    /\ c.pc = "done"
    /\ calls' = calls \ {c}
    /\ IF list \in Sets(c.op) THEN Put(c.answer) ELSE UNCHANGED <<shown, behind>>
    /\ Reload(c.op)
    /\ UNCHANGED <<list, db>>

\* A refusal, or an answer lost after the change; no load follows, except the
\* one in the finally of the claim.
CallFails(c) ==
    /\ calls' = calls \ {c}
    /\ IF c.op = "connected"
       THEN Reload(c.op) /\ UNCHANGED behind
       ELSE behind' = (behind \/ c.pc = "done") /\ UNCHANGED loads
    /\ UNCHANGED <<list, db, shown>>

Loaded(l) ==
    /\ l.got # 0
    /\ loads' = loads \ {l}
    /\ Put(l.got)
    /\ UNCHANGED <<list, db, calls>>

\* The tenants and the directory become empty, the others stay as they were.
LoadFails(l) ==
    /\ loads' = loads \ {l}
    /\ shown' = IF list \in {"tenants", "directory"} THEN 0 ELSE shown
    /\ behind' = TRUE
    /\ UNCHANGED <<list, db, calls>>

Next ==
    \/ Refresh \/ OtherChanges
    \/ \E op \in Ops : Send(op)
    \/ \E c \in calls : Execute(c) \/ Answered(c) \/ CallFails(c)
    \/ \E l \in loads : ReadList(l) \/ Loaded(l) \/ LoadFails(l)

Spec == Init /\ [][Next]_settingsVars

-----------------------------------------------------------------------------
(* Properties *)

\* Once nothing about a list is on its way, the screen shows it as it is in the
\* database, whatever the order of the calls, the loads and their answers; except
\* after a change by someone else, a failure, an answer put over a later one, or
\* a change that its handler leaves behind, until it is loaded again.
SettledScreenIsCurrent == calls = {} /\ loads = {} /\ ~behind => shown = db
=============================================================================
