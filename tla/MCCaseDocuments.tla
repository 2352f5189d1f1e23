---------------------------- MODULE MCCaseDocuments -----------------------------
(***************************************************************************)
(* CaseDocuments with two documents, of which the first is infected.       *)
(***************************************************************************)
EXTENDS CaseDocuments

MCDocuments == 1..2
MCInfected == {1}

================================================================================
