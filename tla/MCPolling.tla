------------------------------ MODULE MCPolling ------------------------------
(***************************************************************************)
(* Instance for TLC of what has to come to an end in the frontend: the     *)
(* polls, with two instances of the screen, the second opened while        *)
(* answers to the first are on their way, and two runs; and the dialog of  *)
(* sharing.  They share no variable, and `which' says which one is         *)
(* explored, the other at rest.                                            *)
(***************************************************************************)
EXTENDS Polling

CONSTANTS Targets, Users, None, MaxLists

VARIABLES which, granted, shareTarget, shares, listOf, adds, removes, saving, confirm, lists,
          staged, stray, stuck

Share == INSTANCE ShareDialog
ASSUME ShareAssumption == Share!TargetsAssumption /\ Share!ListsAssumption

shareVars == <<granted, shareTarget, shares, listOf, adds, removes, saving, confirm, lists,
               staged, stray, stuck>>
bothVars  == <<which, pollVars, shareVars>>

BothInit ==
    /\ which \in {"polls", "share"}
    /\ Init /\ Share!Init
    /\ which = "polls" => \A t \in Targets : granted[t] = {}
    /\ which = "share" => kind = "index"

BothNext ==
    /\ UNCHANGED which
    /\ \/ which = "polls" /\ Next /\ UNCHANGED shareVars
       \/ which = "share" /\ Share!Next /\ UNCHANGED pollVars

\* At rest, neither has a step that fairness is about.
BothSpec == BothInit /\ [][BothNext]_bothVars /\ Fairness /\ Share!Fairness

DialogIsOfTarget == Share!DialogIsOfTarget
SavingEnds       == Share!SavingEnds
=============================================================================
