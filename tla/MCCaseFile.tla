----------------------------- MODULE MCCaseFile -----------------------------
(***************************************************************************)
(* TLC instances of CaseFile.  Messages, sessions, requests and analyses   *)
(* are model values; the kinds of request each run makes are chosen here.  *)
(***************************************************************************)
EXTENDS CaseFile

EveryKind == AllKinds
NotesOnly == {"note"}
ReuseOnly == {"reuse"}
=============================================================================
