------------------------------ MODULE WorkflowMap ------------------------------
(***************************************************************************)
(* The static tables of the case workflow: the states of a case, the map   *)
(* of allowed transitions with the guard of each, the catalog of tasks a   *)
(* transition creates, and the command that completing a task executes.    *)
(* Every command of TRANSITION_MAP leaves exactly one state, so the map is *)
(* a function of the command.                                              *)
(***************************************************************************)
EXTENDS Naturals

States ==
    {"report_submitted", "secretariat_review", "pre_research", "chair_gate",
     "not_on_agenda_closed", "agenda_ready", "rapporteur_assigned",
     "rapporteur_report_submitted", "member_approval", "decision_draft",
     "board_chair_review", "board_approved", "implementation_letter_prepared",
     "action_assigned", "action_response_pending", "follow_up_decision",
     "closed_archived"}

Roles ==
    {"council_secretary", "council_chair", "council_member", "board_chair",
     "rapporteur", "action_owner"}

\* A transition whose role list is absent asks for no role.
AnyRole == "any_role"

Edge(from, to, role) == [from |-> from, to |-> to, role |-> role]

TransitionMap ==
  [acknowledge_report |->
      Edge("report_submitted", "secretariat_review", "council_secretary"),
   start_pre_research |->
      Edge("secretariat_review", "pre_research", "council_secretary"),
   submit_to_chair_gate |->
      Edge("pre_research", "chair_gate", "council_secretary"),
   approve_agenda |->
      Edge("chair_gate", "agenda_ready", "council_chair"),
   close_not_on_agenda |->
      Edge("chair_gate", "not_on_agenda_closed", "council_chair"),
   assign_rapporteur |->
      Edge("agenda_ready", "rapporteur_assigned", "council_secretary"),
   submit_to_member_approval |->
      Edge("agenda_ready", "member_approval", "council_secretary"),
   submit_follow_up_review |->
      Edge("agenda_ready", "follow_up_decision", "council_secretary"),
   submit_rapporteur_report |->
      Edge("rapporteur_assigned", "rapporteur_report_submitted", AnyRole),
   return_to_agenda |->
      Edge("rapporteur_report_submitted", "agenda_ready", "council_secretary"),
   create_decision_draft |->
      Edge("member_approval", "decision_draft", "council_secretary"),
   member_objection |->
      Edge("member_approval", "member_approval", "council_member"),
   submit_to_board_review |->
      Edge("decision_draft", "board_chair_review", "council_secretary"),
   board_approve |->
      Edge("board_chair_review", "board_approved", "board_chair"),
   board_veto |->
      Edge("board_chair_review", "agenda_ready", "board_chair"),
   prepare_implementation_letter |->
      Edge("board_approved", "implementation_letter_prepared", "council_secretary"),
   assign_action |->
      Edge("implementation_letter_prepared", "action_assigned", "council_secretary"),
   begin_action_response |->
      Edge("action_assigned", "action_response_pending", AnyRole),
   submit_action_response |->
      Edge("action_response_pending", "agenda_ready", AnyRole),
   follow_up_close |->
      Edge("follow_up_decision", "closed_archived", "council_secretary"),
   follow_up_reassign |->
      Edge("follow_up_decision", "action_assigned", "council_secretary")]

Commands == DOMAIN TransitionMap

\* The remaining attributes of a TransitionDefinition, as sets of commands.
SystemCommands == {"begin_action_response"}           \* isSystemCommand
SystemAllowed  == {"create_decision_draft"}           \* systemAllowed
ClosingCommands == {"close_not_on_agenda", "follow_up_close"}
RapporteurOnly == {"submit_rapporteur_report"}        \* requiresAssignment
OwnerOnly      == {"submit_action_response"}          \* requiresAssignment
ReasonCommands == {"close_not_on_agenda", "board_veto"}

\* What validatePreconditions asks of the metadata of a request.
AssignRapporteur == {"assign_rapporteur"}
AssignOwner      == {"assign_action", "follow_up_reassign"}
DocumentCommands == {"submit_rapporteur_report", "submit_to_board_review",
                     "member_objection"}
MetadataCommands == AssignRapporteur \cup AssignOwner \cup DocumentCommands

ClosedStates == {TransitionMap[cmd].to : cmd \in ClosingCommands}

(***************************************************************************)
(* Tasks.                                                                  *)
(***************************************************************************)
StateTask ==
  [secretariat_review  |-> "secretariat_review_task",
   pre_research        |-> "pre_research_task",
   chair_gate          |-> "chair_gate_task",
   rapporteur_assigned |-> "rapporteur_report_task",
   member_approval     |-> "member_approval_task",
   decision_draft      |-> "decision_draft_task",
   board_chair_review  |-> "board_review_task",
   board_approved      |-> "implementation_letter_task",
   action_assigned     |-> "action_response_task",
   follow_up_decision  |-> "follow_up_review_task"]

CompletionCommand ==
  [secretariat_review_task    |-> "start_pre_research",
   pre_research_task          |-> "submit_to_chair_gate",
   chair_gate_task            |-> "approve_agenda",
   rapporteur_assign_task     |-> "assign_rapporteur",
   rapporteur_report_task     |-> "submit_rapporteur_report",
   decision_draft_task        |-> "submit_to_board_review",
   board_review_task          |-> "board_approve",
   implementation_letter_task |-> "prepare_implementation_letter",
   action_response_task       |-> "submit_action_response",
   follow_up_review_task      |-> "follow_up_close"]

CompletableTasks == DOMAIN CompletionCommand
TaskTypes == CompletableTasks \cup {"member_approval_task"}

TaskRole(type) ==
    CASE type = "chair_gate_task"        -> "council_chair"
      [] type = "rapporteur_report_task" -> "rapporteur"
      [] type = "member_approval_task"   -> "council_member"
      [] type = "board_review_task"      -> "board_chair"
      [] type = "action_response_task"   -> "action_owner"
      [] OTHER                           -> "council_secretary"

\* The types of task that entering a state by this command creates.
TasksOf(cmd) ==
    LET to == TransitionMap[cmd].to
    IN  IF to = "agenda_ready"
        THEN IF cmd \in {"return_to_agenda", "board_veto"}
             THEN {"rapporteur_assign_task"} ELSE {}
        ELSE IF to \in DOMAIN StateTask THEN {StateTask[to]} ELSE {}

================================================================================
