--------------------------- MODULE SettingsDialogs ---------------------------
(***************************************************************************)
(* Two kinds of dialogs of the settings (SettingsView.tsx).  The form of a *)
(* provider, of a tenant or of a user is opened for a new row or for an    *)
(* existing one, offers the models that a provider of its type has, and is *)
(* closed when it has been saved.  The deletion of a mailbox or of a user  *)
(* shows what it will take away, computed by the backend when the dialog   *)
(* opens, and its button waits for that.                                   *)
(* Both can be cancelled and opened for another row while a request is on  *)
(* its way.                                                                *)
(***************************************************************************)
EXTENDS Naturals, FiniteSets

CONSTANTS Rows,      \* what there is to edit and delete
          Types,     \* the types of a provider
          None,
          MaxCalls   \* bound: requests in flight, of each kind

SettingsDialogsAssumption == None \notin Rows \cup Types \cup {"new"} /\ MaxCalls \in Nat

VARIABLES
    formOpen, editingId, type,       \* the form: the row it is of, the type chosen
    dirty,                           \* something was entered since it was opened
    fetchedModels, fetching, saving, \* models offered: of which type
    fetches, saves,                  \* requests in flight: the type; the row
    deleteTarget, deleteImpact, loadingImpact, deleting,   \* the dialog of deletion
    impacts, deletes,                \* requests in flight: the row of each
    rows,                            \* in the database
    \* history
    lost,       \* what was entered in a form went away with neither a save nor a cancel
    crossed     \* a request was in flight when its form or dialog was opened again

formVars   == <<formOpen, editingId, type, dirty, fetchedModels, fetching, saving, fetches, saves, lost>>
deleteVars == <<deleteTarget, deleteImpact, loadingImpact, deleting, impacts, deletes>>
settingsDialogsVars == <<formVars, deleteVars, rows, crossed>>

Editable == Rows \cup {"new"}

TypeOK ==
    /\ {formOpen, dirty, fetching, saving, loadingImpact, deleting, lost, crossed} \subseteq BOOLEAN
    /\ editingId \in Editable
    /\ type \in Types /\ fetchedModels \in Types \cup {None}
    /\ fetches \in SUBSET Types
    /\ saves \in SUBSET Editable
    /\ {deleteTarget, deleteImpact} \subseteq Rows \cup {None}
    /\ impacts \in SUBSET Rows /\ deletes \in SUBSET Rows
    /\ rows \in SUBSET Rows

Init ==
    /\ formOpen = FALSE /\ editingId = "new" /\ type \in Types /\ dirty = FALSE
    /\ fetchedModels = None /\ fetching = FALSE /\ saving = FALSE
    /\ fetches = {} /\ saves = {}
    /\ deleteTarget = None /\ deleteImpact = None
    /\ loadingImpact = FALSE /\ deleting = FALSE
    /\ impacts = {} /\ deletes = {}
    /\ rows = Rows
    /\ lost = FALSE /\ crossed = FALSE

-----------------------------------------------------------------------------
(* The form *)

\* Faulty variant: the models of the form before are still offered.
OpenFormOffering(e) ==
    /\ ~formOpen /\ e \in rows \cup {"new"}
    /\ formOpen' = TRUE /\ editingId' = e /\ type' \in Types
    /\ dirty' = FALSE
    /\ crossed' = (crossed \/ saves # {} \/ fetches # {})
    /\ UNCHANGED <<fetchedModels, fetching, saving, fetches, saves, lost, deleteVars, rows>>
OpenForm(e) ==
    /\ ~formOpen /\ e \in rows \cup {"new"}
    /\ formOpen' = TRUE /\ editingId' = e /\ type' \in Types
    /\ dirty' = FALSE
    /\ fetchedModels' = None
    /\ crossed' = (crossed \/ saves # {} \/ fetches # {})
    /\ UNCHANGED <<fetching, saving, fetches, saves, lost, deleteVars, rows>>

CloseForm ==
    /\ formOpen
    /\ formOpen' = FALSE /\ dirty' = FALSE
    /\ fetchedModels' = None
    /\ UNCHANGED <<editingId, type, fetching, saving, fetches, saves, lost, deleteVars, rows, crossed>>

\* Choosing another type drops the models offered; typing another server or key
\* of the same type does not.
SetProviderType ==
    /\ formOpen
    /\ type' \in Types \ {type}
    /\ dirty' = TRUE
    /\ fetchedModels' = None
    /\ crossed' = (crossed \/ fetches # {})
    /\ UNCHANGED <<formOpen, editingId, fetching, saving, fetches, saves, lost, deleteVars, rows>>

Type ==
    /\ formOpen /\ dirty' = TRUE
    /\ UNCHANGED <<formOpen, editingId, type, fetchedModels, fetching, saving, fetches, saves, lost,
                   deleteVars, rows, crossed>>

\* The models, and the models for embeddings, alike.
HandleFetchModels ==
    /\ formOpen /\ ~fetching
    /\ fetching' = TRUE /\ fetchedModels' = None
    /\ fetches' = fetches \cup {type}
    /\ UNCHANGED <<formOpen, editingId, type, dirty, saving, saves, lost, deleteVars, rows, crossed>>

FetchEnds(s) ==
    /\ fetches' = fetches \ {s}
    /\ fetchedModels' \in {s, fetchedModels}
    /\ fetching' = FALSE
    /\ UNCHANGED <<formOpen, editingId, type, dirty, saving, saves, lost, deleteVars, rows, crossed>>

\* A tenant without a secret, or a field missing, is not sent.
HandleSubmit ==
    /\ formOpen /\ ~saving
    /\ saving' = TRUE
    /\ saves' = saves \cup {editingId}
    /\ UNCHANGED <<formOpen, editingId, type, dirty, fetchedModels, fetching, fetches, lost,
                   deleteVars, rows, crossed>>

\* The form that is open closes, whichever it is.
Saved(e) ==
    /\ saves' = saves \ {e}
    /\ saving' = FALSE
    /\ formOpen' = FALSE /\ dirty' = FALSE
    /\ fetchedModels' = None
    /\ lost' = (lost \/ (formOpen /\ dirty /\ editingId # e))
    /\ UNCHANGED <<editingId, type, fetching, fetches, deleteVars, rows, crossed>>

\* A toast; what was entered stays.
SaveFails(e) ==
    /\ saves' = saves \ {e}
    /\ saving' = FALSE
    /\ UNCHANGED <<formOpen, editingId, type, dirty, fetchedModels, fetching, fetches, lost,
                   deleteVars, rows, crossed>>

-----------------------------------------------------------------------------
(* The deletion *)

OpenDelete(r) ==
    /\ deleteTarget = None /\ r \in rows
    /\ Cardinality(impacts) < MaxCalls
    /\ deleteTarget' = r /\ deleteImpact' = None
    /\ loadingImpact' = TRUE
    /\ impacts' = impacts \cup {r}
    /\ crossed' = (crossed \/ impacts # {} \/ deletes # {})
    /\ UNCHANGED <<formVars, deleting, deletes, rows>>

CancelDelete ==
    /\ deleteTarget # None
    /\ deleteTarget' = None /\ deleteImpact' = None
    /\ UNCHANGED <<formVars, loadingImpact, deleting, impacts, deletes, rows, crossed>>

\* The answer is kept and the button set free, whichever row the dialog is of.
ImpactEnds(r) ==
    /\ impacts' = impacts \ {r}
    /\ deleteImpact' \in {r, deleteImpact}
    /\ loadingImpact' = FALSE
    /\ UNCHANGED <<formVars, deleteTarget, deleting, deletes, rows, crossed>>

\* The button is also free after a failure to compute the impact.
HandleDelete ==
    /\ deleteTarget # None /\ ~deleting /\ ~loadingImpact
    /\ deleting' = TRUE
    /\ deletes' = deletes \cup {deleteTarget}
    /\ UNCHANGED <<formVars, deleteTarget, deleteImpact, loadingImpact, impacts, rows, crossed>>

Deleted(r) ==
    /\ deletes' = deletes \ {r}
    /\ rows' = rows \ {r}
    /\ deleting' = FALSE
    /\ deleteTarget' = None /\ deleteImpact' = None
    /\ UNCHANGED <<formVars, loadingImpact, impacts, crossed>>

DeleteFails(r) ==
    /\ deletes' = deletes \ {r}
    /\ deleting' = FALSE
    /\ UNCHANGED <<formVars, deleteTarget, deleteImpact, loadingImpact, impacts, rows, crossed>>

Next ==
    \/ \E e \in Editable : OpenForm(e)
    \/ CloseForm \/ SetProviderType \/ Type \/ HandleFetchModels \/ HandleSubmit
    \/ \E s \in fetches : FetchEnds(s)
    \/ \E e \in saves : Saved(e) \/ SaveFails(e)
    \/ \E r \in Rows : OpenDelete(r)
    \/ CancelDelete \/ HandleDelete
    \/ \E r \in impacts : ImpactEnds(r)
    \/ \E r \in deletes : Deleted(r) \/ DeleteFails(r)

Spec == Init /\ [][Next]_settingsDialogsVars

-----------------------------------------------------------------------------
(* Properties *)

\* A dialog is of one row: the impact shown is that of the row to delete, the
\* models offered are those of the type in the form, and saving a form takes away
\* nothing entered in another; unless a request of an earlier dialog was still
\* on its way when this one was opened.
DialogsFitTheirRow ==
    crossed \/ (/\ deleteTarget # None => deleteImpact \in {None, deleteTarget}
                /\ fetchedModels \in {None, type}
                /\ ~lost)
=============================================================================
