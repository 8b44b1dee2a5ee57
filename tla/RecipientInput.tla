--------------------------- MODULE RecipientInput ---------------------------
(***************************************************************************)
(* The fields "Para" and "CC" of SendEmailModal: two instances of          *)
(* RecipientInput.tsx, lists of chips edited by typing, pasting, removing  *)
(* and dragging.  The instances share no state: a chip dragged from one to *)
(* the other is inserted by the drop and removed by the dragend of its     *)
(* source, which tells by a ref of its own and by dropEffect whether it    *)
(* has to.                                                                 *)
(* An address is a person and a spelling: chips are compared without case. *)
(* The suggestions are left out: every address can be offered.             *)
(***************************************************************************)
EXTENDS Naturals, Sequences, SequencesExt

CONSTANTS People, Spellings, None,
          MaxChips   \* bound: chips of a field

NoneAssumption == None \notin People
ChipsAssumption == MaxChips \in Nat \ {0}

VARIABLES
    chips,     \* chips[f]: parseChips of the value of field f
    drag,      \* the chip being dragged
    wanted     \* history: people put in a field and not taken out by the user

chipVars == <<chips, drag, wanted>>

Fields    == {"to", "cc"}
Addresses == [person : People, spelling : Spellings]
Values    == UNION {[1..n -> Addresses] : n \in 0..MaxChips}
NoDrag    == [chip |-> None]
\* reordered: selfReorderedRef of the source; move: dropEffect at the dragend.
Drags == [chip : Addresses, source : Fields, dropped : BOOLEAN, reordered : BOOLEAN, move : BOOLEAN]

TypeOK ==
    /\ chips \in [Fields -> Values]
    /\ drag \in Drags \cup {NoDrag}
    /\ wanted \in SUBSET People

PeopleOf(s)  == {s[i].person : i \in DOMAIN s}
Without(s, person) ==
    LET kept[n \in 0..Len(s)] == IF n = 0 THEN << >>
                                 ELSE IF s[n].person = person THEN kept[n - 1]
                                 ELSE Append(kept[n - 1], s[n])
    IN  kept[Len(s)]
\* The first chip of the person, or 0.
IndexOf(s, person) == SelectInSeq(s, LAMBDA a : a.person = person)

\* openSendEmailModal fills the fields from a Set of strings: the same address
\* in two spellings is there twice.
Init ==
    /\ \E to \in Values :
          /\ Len(to) <= 2 /\ IsInjective(to)
          /\ chips = [f \in Fields |-> IF f = "to" THEN to ELSE << >>]
    /\ drag = NoDrag
    /\ wanted = PeopleOf(chips["to"])

AddChip(s, a) == IF a.person \in PeopleOf(s) THEN s ELSE Append(s, a)
Merged(s, emails) ==
    LET merged[n \in 0..Len(emails)] == IF n = 0 THEN s ELSE AddChip(merged[n - 1], emails[n])
    IN  merged[Len(emails)]

Fits(f) == Len(chips[f]) <= MaxChips   \* bound

\* Enter, comma, Tab, blur or a click on a suggestion.
Type(f, a) ==
    /\ drag = NoDrag
    /\ chips' = [chips EXCEPT ![f] = AddChip(@, a)]
    /\ Fits(f)'
    /\ wanted' = wanted \cup {a.person}
    /\ UNCHANGED drag

Paste(f, addresses) ==
    /\ drag = NoDrag
    /\ chips' = [chips EXCEPT ![f] = Merged(@, addresses)]
    /\ Fits(f)'
    /\ wanted' = wanted \cup PeopleOf(addresses)
    /\ UNCHANGED drag

\* The cross of a chip; Backspace in the empty input removes the last.
RemoveChip(f, person) ==
    /\ drag = NoDrag
    /\ person \in PeopleOf(chips[f])
    /\ chips' = [chips EXCEPT ![f] = Without(@, person)]
    /\ wanted' = {p \in wanted : p # person \/ \E g \in Fields \ {f} : p \in PeopleOf(chips[g])}
    /\ UNCHANGED drag

ChipDragStart(f, i) ==
    /\ drag = NoDrag
    /\ i \in DOMAIN chips[f]
    /\ drag' = [chip |-> chips[f][i], source |-> f, dropped |-> FALSE, reordered |-> FALSE, move |-> FALSE]
    /\ UNCHANGED <<chips, wanted>>

Dropping(g) == drag # NoDrag /\ ~drag.dropped

\* On a chip of field g: before it; on the empty area: at the end.
Inserted(s, person) ==
    LET rest == Without(s, drag.chip.person)
        at   == IF person = None THEN 0 ELSE IndexOf(rest, person)
    IN  IF at = 0 THEN Append(rest, drag.chip) ELSE InsertAt(rest, at, drag.chip)
\* Faulty variant: the reordering forgets to tell the dragend.
DropUntold(g, person) ==
    /\ Dropping(g)
    /\ person \in (PeopleOf(chips[g]) \cup {None}) \ {drag.chip.person}
    /\ chips' = [chips EXCEPT ![g] = Inserted(@, person)]
    /\ Fits(g)'
    /\ drag' = [drag EXCEPT !.dropped = TRUE, !.move = TRUE]
    /\ UNCHANGED wanted
Drop(g, person) ==
    /\ Dropping(g)
    /\ person \in (PeopleOf(chips[g]) \cup {None}) \ {drag.chip.person}
    /\ chips' = [chips EXCEPT ![g] = Inserted(@, person)]
    /\ Fits(g)'
    /\ drag' = [drag EXCEPT !.dropped = TRUE, !.move = TRUE, !.reordered = (g = drag.source)]
    /\ UNCHANGED wanted

\* On itself, or on the chip of the same person in the other field: the handler
\* returns early, after dragover has set dropEffect to move.
DropOnItself(g) ==
    /\ Dropping(g)
    /\ drag.chip.person \in PeopleOf(chips[g])
    /\ drag' = [drag EXCEPT !.dropped = TRUE, !.move = TRUE]
    /\ wanted' = IF g = drag.source
                   /\ \A f \in Fields \ {g} : drag.chip.person \notin PeopleOf(chips[f])
                 THEN wanted \ {drag.chip.person} ELSE wanted
    /\ UNCHANGED chips

\* After a drop, or when the drag is given up outside the fields.
ChipDragEnd ==
    /\ drag # NoDrag
    /\ drag' = NoDrag
    /\ chips' = IF ~drag.reordered /\ drag.move
                THEN [chips EXCEPT ![drag.source] = Without(@, drag.chip.person)]
                ELSE chips
    /\ UNCHANGED wanted

Pasted == UNION {[1..n -> Addresses] : n \in 1..2}
Next ==
    \/ \E f \in Fields :
          \/ \E a \in Addresses : Type(f, a)
          \/ \E s \in Pasted : Paste(f, s)
          \/ \E p \in People : RemoveChip(f, p)
          \/ \E i \in 1..MaxChips : ChipDragStart(f, i)
          \/ \E p \in People \cup {None} : Drop(f, p)
          \/ DropOnItself(f)
    \/ ChipDragEnd

Spec == Init /\ [][Next]_chipVars

-----------------------------------------------------------------------------
(* Property *)

\* No recipient gets lost: whoever was put in a field is in one of them until
\* the user takes the chip out, or drops it on itself, which removes it too.
\* A chip moved between the fields is never in neither.
RecipientsAreKept == wanted \subseteq PeopleOf(chips["to"]) \cup PeopleOf(chips["cc"])
=============================================================================
