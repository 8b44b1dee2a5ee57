---------------------------- MODULE MCCasesView ----------------------------
(***************************************************************************)
(* Instance of CasesView for TLC: one case, whose requests overlap in      *)
(* pairs, is enough for the lock; the cards are independent of each other. *)
(***************************************************************************)
EXTENDS CasesView
=============================================================================
