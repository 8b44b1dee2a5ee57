--------------------------- MODULE MCMailboxIndex ---------------------------
(* Instance of MailboxIndex for TLC: the history is two smallest windows long; *)
(* folder f1 has a first unit beyond n8n's cap and a second below it, folder   *)
(* f2 fits in one window.                                                      *)
EXTENDS MailboxIndex

CONSTANTS m1, m2, f1, f2

OneMailbox == [f \in Folders |-> m1]
TwoMailboxes == (f1 :> m1) @@ (f2 :> m2)

Single == [f \in Folders |-> (0 :> 0 @@ 1 :> 1)]
SparseAndDense == (f1 :> (0 :> 0 @@ 1 :> 4 @@ 2 :> 5)) @@ (f2 :> (0 :> 0 @@ 1 :> 1 @@ 2 :> 1))
=============================================================================
