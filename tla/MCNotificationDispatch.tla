------------------------ MODULE MCNotificationDispatch --------------------------
(***************************************************************************)
(* NotificationDispatch with two in-app events of one subject, by two      *)
(* transactions, and the e-mail of the second.                             *)
(***************************************************************************)
EXTENDS NotificationDispatch

MCEvents == 1..3
MCMails == {3}
MCOrigins == 1..2
MCOriginOf == <<1, 2, 2>>
MCSubjectOf == [e \in MCEvents |-> "transition"]

================================================================================
