--------------------------- MODULE MCCaseWorkflow ------------------------------
(***************************************************************************)
(* Instances of CaseWorkflow for TLC: a small council, each user with the  *)
(* role that the name says.                                                *)
(***************************************************************************)
EXTENDS CaseWorkflow, TLC

\* Requests in flight differ only by what they ask.
Symmetry == Permutations(Slots)

RoleOfName ==
    [sec |-> "council_secretary", sec2 |-> "council_secretary",
     chair |-> "council_chair", member |-> "council_member",
     member2 |-> "council_member", board |-> "board_chair", rap |-> "rapporteur",
     rap2 |-> "rapporteur", owner |-> "action_owner", owner2 |-> "action_owner"]

MCRolesOf == [u \in Users |-> {RoleOfName[u]}]

\* The secretaries and the chair are cleared for both levels, the others for
\* the lower one only.
MCClearanceOf == [u \in Users |-> IF u \in {"sec", "sec2", "chair"} THEN 1 ELSE 0]
MCActive == Users
MCMembers == SelectSeq(<<"member", "member2">>, LAMBDA u : u \in Users)
MCReportLevel == [c \in Cases |-> 0]

AllCommands == Commands

\* The commands that lead to the assignment of a rapporteur and back.
ToRapporteur == {"acknowledge_report", "start_pre_research", "submit_to_chair_gate",
                 "approve_agenda", "assign_rapporteur", "submit_rapporteur_report",
                 "return_to_agenda"}

\* The same, and those that lead to the council and its decision.
ToCouncil == ToRapporteur \cup {"submit_to_member_approval", "create_decision_draft"}

================================================================================
