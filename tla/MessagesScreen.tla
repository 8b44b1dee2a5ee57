--------------------------- MODULE MessagesScreen ---------------------------
(***************************************************************************)
(* The search of indexed messages (MessagesView.tsx): a list fetched page  *)
(* by page with the filters of the moment and an offset, over an index     *)
(* that changes; the detail of the row expanded; the clearing of messages, *)
(* which ends in a search.  Messages are ordered as the backend lists      *)
(* them, the latest sent first.                                            *)
(***************************************************************************)
EXTENDS Naturals, Sequences, FiniteSets

CONSTANTS
    MaxMessage,  \* messages are 1..MaxMessage, a later one sent later
    Filters,     \* the settings of the filters
    Matches,     \* Matches[f]: the messages that pass f
    PageSize,
    None,
    MaxPages, MaxDetails  \* bounds: requests in flight

Messages == 1..MaxMessage

MessagesAssumption ==
    /\ MaxMessage \in Nat /\ MaxPages \in Nat /\ MaxDetails \in Nat /\ PageSize \in Nat \ {0}
    /\ Matches \in [Filters -> SUBSET Messages]
    /\ None \notin 0..MaxMessage \cup Filters

VARIABLES
    index,         \* messages in the index
    filters,       \* the inputs of the form
    messages, total,        \* the list shown and the count; total None before the first
    pages,         \* requests of pages in flight
    loading, loadingMore,   \* the two buttons are busy
    expandedId, detail,     \* the row expanded and the detail shown in it
    details,       \* requests of a detail in flight
    clears,        \* requests to clear: the filters of the search to follow
    \* history
    searched,      \* the filters of the search shown, None before the first
    skewed         \* the index changed under the list, or a page was asked for
                   \* with other filters or across a search

listVars   == <<messages, total, searched, skewed>>
busyVars   == <<loading, loadingMore>>
detailVars == <<expandedId, detail, details>>
messagesVars == <<index, filters, listVars, pages, busyVars, detailVars, clears>>

Page == [op : {"search", "more"}, filter : Filters, offset : 0..(2 * MaxMessage),
         items : Seq(Messages), total : 0..MaxMessage \cup {None}, off : BOOLEAN]

TypeOK ==
    /\ index \in SUBSET Messages
    /\ filters \in Filters
    /\ messages \in Seq(Messages)
    /\ total \in 0..MaxMessage \cup {None}
    /\ \A p \in pages : p \in Page
    /\ loading \in BOOLEAN /\ loadingMore \in BOOLEAN
    /\ expandedId \in Messages \cup {None}
    /\ detail \in Messages \cup {None}
    /\ details \in SUBSET Messages
    /\ clears \in SUBSET Filters
    /\ searched \in Filters \cup {None}
    /\ skewed \in BOOLEAN

Init ==
    /\ index \in SUBSET Messages
    /\ filters \in Filters
    /\ messages = <<>> /\ total = None
    /\ pages = {}
    /\ loading = FALSE /\ loadingMore = FALSE
    /\ expandedId = None /\ detail = None /\ details = {}
    /\ clears = {}
    /\ searched = None /\ skewed = FALSE

Result(f) ==
    LET Hits == index \cap Matches[f]
        Rank(m) == Cardinality({n \in Hits : n >= m})
    IN  [k \in 1..Cardinality(Hits) |-> CHOOSE m \in Hits : Rank(m) = k]

Least(a, b) == IF a < b THEN a ELSE b

-----------------------------------------------------------------------------
(* The backend *)

\* Fetch jobs index messages and other users clear them.
IndexChanges ==
    /\ \E m \in Messages : index' = IF m \in index THEN index \ {m} ELSE index \cup {m}
    /\ skewed' = TRUE
    /\ pages' = {IF p.total = None THEN p ELSE [p EXCEPT !.off = TRUE] : p \in pages}
    /\ UNCHANGED <<filters, messages, total, searched, busyVars, detailVars, clears>>

ReadPage(p) ==
    /\ p.total = None
    /\ LET r == Result(p.filter)
       IN  pages' = (pages \ {p}) \cup {[p EXCEPT !.total = Len(r),
                        !.items = SubSeq(r, p.offset + 1, Least(p.offset + PageSize, Len(r)))]}
    /\ UNCHANGED <<index, filters, listVars, busyVars, detailVars, clears>>

-----------------------------------------------------------------------------
(* The list *)

EditFilters ==
    /\ \E f \in Filters : filters' = f
    /\ UNCHANGED <<index, listVars, pages, busyVars, detailVars, clears>>

Ask(op, f, offset, off) ==
    /\ Cardinality(pages) < MaxPages
    /\ pages' = pages \cup {[op |-> op, filter |-> f, offset |-> offset, items |-> <<>>,
                             total |-> None, off |-> off]}

\* The button waits for the search before; the Enter key does not.
RunSearch ==
    /\ Ask("search", filters, 0, FALSE)
    /\ loading' = TRUE
    /\ UNCHANGED <<index, filters, listVars, loadingMore, detailVars, clears>>

\* Faulty variant: the button does not wait for the page before.
LoadMoreTwice ==
    /\ total # None /\ Len(messages) < total
    /\ Ask("more", filters, Len(messages), filters # searched)
    /\ loadingMore' = TRUE
    /\ UNCHANGED <<index, filters, listVars, loading, detailVars, clears>>
\* The filters are those of the form now, not those of the list.
LoadMore ==
    /\ total # None /\ Len(messages) < total /\ ~loadingMore
    /\ Ask("more", filters, Len(messages), filters # searched)
    /\ loadingMore' = TRUE
    /\ UNCHANGED <<index, filters, listVars, loading, detailVars, clears>>

\* The pages still on their way were asked for another list.
SearchAnswered(p) ==
    /\ p.op = "search" /\ p.total # None
    /\ pages' = {[q EXCEPT !.off = q.off \/ q.op = "more"] : q \in pages \ {p}}
    /\ messages' = p.items /\ total' = p.total
    /\ searched' = p.filter /\ skewed' = p.off
    /\ loading' = FALSE
    /\ UNCHANGED <<index, filters, loadingMore, detailVars, clears>>

MoreAnswered(p) ==
    /\ p.op = "more" /\ p.total # None
    /\ Len(messages) + Len(p.items) <= 2 * MaxMessage   \* bound
    /\ pages' = pages \ {p}
    /\ messages' = messages \o p.items /\ total' = p.total
    /\ skewed' = (skewed \/ p.off)
    /\ loadingMore' = FALSE
    /\ UNCHANGED <<index, filters, searched, loading, detailVars, clears>>

PageFails(p) ==
    /\ pages' = pages \ {p}
    /\ loading' = (loading /\ p.op # "search")
    /\ loadingMore' = (loadingMore /\ p.op # "more")
    /\ UNCHANGED <<index, filters, listVars, detailVars, clears>>

-----------------------------------------------------------------------------
(* The row expanded *)

\* toggleExpand asks for the detail each time a row opens.
Expand(m) ==
    /\ \E k \in 1..Len(messages) : messages[k] = m
    /\ detail' = None
    /\ IF expandedId = m THEN expandedId' = None /\ UNCHANGED details
       ELSE /\ Cardinality(details) < MaxDetails
            /\ expandedId' = m /\ details' = details \cup {m}
    /\ UNCHANGED <<index, filters, listVars, pages, busyVars, clears>>

\* Recovering the attachments of the message in the detail asks for it again.
RetraceAttachments ==
    /\ expandedId # None /\ detail # None /\ Cardinality(details) < MaxDetails
    /\ details' = details \cup {detail}
    /\ UNCHANGED <<index, filters, listVars, pages, busyVars, expandedId, detail, clears>>

\* The answer is shown in whichever row is expanded by now; an error is not.
DetailAnswered(m) ==
    /\ details' = details \ {m}
    /\ detail' \in (IF m \in index THEN {m, detail} ELSE {detail})
    /\ UNCHANGED <<index, filters, listVars, pages, busyVars, expandedId, clears>>

-----------------------------------------------------------------------------
(* Clearing *)

\* The search that follows has the filters of the moment of the click.
HandleClear ==
    /\ clears = {}
    /\ clears' = {filters}
    /\ UNCHANGED <<index, filters, listVars, pages, busyVars, detailVars>>

\* Answers of ReadPage are now about another index, like the list.
Cleared(f) ==
    /\ \E gone \in SUBSET index : index' = index \ gone
    /\ skewed' = TRUE
    /\ Cardinality(pages) < MaxPages
    /\ pages' = {IF p.total = None THEN p ELSE [p EXCEPT !.off = TRUE] : p \in pages}
                \cup {[op |-> "search", filter |-> f, offset |-> 0, items |-> <<>>, total |-> None, off |-> FALSE]}
    /\ loading' = TRUE
    /\ clears' = {}
    /\ UNCHANGED <<filters, messages, total, searched, loadingMore, detailVars>>
ClearFails == clears # {} /\ clears' = {}
    /\ UNCHANGED <<index, filters, listVars, pages, busyVars, detailVars>>

Next ==
    \/ IndexChanges \/ EditFilters \/ RunSearch \/ LoadMore
    \/ \E p \in pages : ReadPage(p) \/ SearchAnswered(p) \/ MoreAnswered(p) \/ PageFails(p)
    \/ \E m \in Messages : Expand(m)
    \/ RetraceAttachments
    \/ \E m \in details : DetailAnswered(m)
    \/ HandleClear \/ ClearFails \/ \E f \in clears : Cleared(f)

Spec == Init /\ [][Next]_messagesVars

-----------------------------------------------------------------------------
(* Properties *)

\* The pages fit together: what is shown is the beginning of the result of the
\* search, with nothing twice and nothing left out, and the count is its length;
\* unless the index has changed under it, or a page was asked for with filters
\* edited since or across another search.
PagesFitTogether ==
    searched # None /\ ~skewed =>
        LET r == Result(searched)
        IN  /\ total = Len(r)
            /\ Len(messages) <= Len(r)
            /\ \A k \in 1..Len(messages) : messages[k] = r[k]
=============================================================================
