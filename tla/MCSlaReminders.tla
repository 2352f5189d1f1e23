---------------------------- MODULE MCSlaReminders -----------------------------
(***************************************************************************)
(* SlaReminders with a task of a user and a task of a role, and a calendar *)
(* with half a working day before a closure of three weeks.                *)
(***************************************************************************)
EXTENDS SlaReminders, TLC

MCTasks == 1..2
MCAssigneeOf == (1 :> "user") @@ (2 :> Unassigned)
MCPolicies == {[unit |-> "BUSINESS_DAYS", duration |-> 14],
               [unit |-> "CALENDAR_HOURS", duration |-> 24]}
MCCalendars == {(2 :> "HALF_DAY") @@ [d \in 3..23 \cup {30} |-> "HOLIDAY"]}

================================================================================
