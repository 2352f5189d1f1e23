----------------------------- MODULE MCAuditOutbox ------------------------------
(***************************************************************************)
(* The dispatcher with the chain it builds, with as many failures to give  *)
(* a row up as the code counts.                                            *)
(***************************************************************************)
EXTENDS AuditChain

MCRows == 1..3

================================================================================
