---------------------------- MODULE MCBackground ----------------------------
(***************************************************************************)
(* Instance for TLC of background tasks of the backend that others get in  *)
(* the way of: two index runs that race to start, with one folder, and a   *)
(* batch of cases whose cases users close, delete and share.  They share   *)
(* no variable, and `which' says which one is explored, the other at rest. *)
(* Codes are alike, so a case of before may as well have a given one.       *)
(***************************************************************************)
EXTENDS MCMailboxIndex

CONSTANTS Batches, Codes, MaxItems

VARIABLES which, run, items, task, cases, harmed

Batch == INSTANCE CaseBatch
ASSUME BatchAssumption == Batch!ItemsAssumption

batchVars == <<run, items, task, cases, harmed>>
bothVars  == <<which, vars, batchVars>>

BothInit ==
    /\ which \in {"index", "batch"}
    /\ Init /\ Batch!Init
    /\ which = "index" => cases = << >>
    /\ cases # << >> => cases[1].code = CHOOSE k \in Codes : TRUE

BothNext ==
    /\ UNCHANGED which
    /\ \/ which = "index" /\ Next /\ UNCHANGED batchVars
       \/ which = "batch" /\ Batch!Next /\ UNCHANGED vars

\* At rest, the batch has no step that fairness is about.
BothSpec == BothInit /\ [][BothNext]_bothVars /\ Batch!Fairness

BothTypesOK  == IF which = "index" THEN TypeOK ELSE Batch!TypeOK
ResultsAddUp == Batch!ResultsAddUp
BatchEnds    == Batch!BatchEnds
=============================================================================
