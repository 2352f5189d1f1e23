------------------------------ MODULE CouncilVote ------------------------------
(***************************************************************************)
(* What the vote of the council on a case promises its readers, whatever   *)
(* the requests, the runs of the job and their crashes do: ballots come in *)
(* all at once with what follows from them. A member answers a round once; *)
(* an objection opens a new round in the step that records it; and the     *)
(* case goes to the decision draft, for good, in a step after which the    *)
(* members who are then active have all accepted in the last round.        *)
(*                                                                         *)
(* It does not promise that ballots are of the last round, nor that none   *)
(* comes in after the decision.                                            *)
(***************************************************************************)
EXTENDS Naturals

VARIABLES stage,     \* "member_approval" until the council has decided
          round,     \* the last round
          seated,    \* the active members
          ballots    \* the recorded votes

Accepting == {"APPROVE", "SILENT_ACCEPTANCE"}

Init == /\ stage = "member_approval"
        /\ round = 1
        /\ ballots = {}

\* The step records votes of these types, each the only one of its member and round.
Records(types) ==
    /\ ballots \subseteq ballots'
    /\ \A v \in ballots' \ ballots :
          /\ v.round \in 1..round /\ v.type \in types
          /\ \A w \in ballots' : w.round = v.round /\ w.voter = v.voter => w = v

Accept == Records(Accepting) /\ UNCHANGED <<stage, round, seated>>

Conclude ==
    /\ stage = "member_approval" /\ stage' = "decision_draft"
    /\ Records(Accepting)
    /\ \A m \in seated : \E v \in ballots' :
          v.voter = m /\ v.round = round /\ v.type \in Accepting
    /\ UNCHANGED <<round, seated>>

\* An objection, by a vote or by the command.
Reopen ==
    /\ stage = "member_approval"
    /\ Records({"REJECT"})
    /\ round' = round + 1
    /\ UNCHANGED <<stage, seated>>

Leave == seated' \subseteq seated /\ UNCHANGED <<stage, round, ballots>>

Next == Accept \/ Conclude \/ Reopen \/ Leave

Spec == Init /\ [][Next]_<<stage, round, seated, ballots>>

================================================================================
