--------------------------- MODULE MCDecisionRound -----------------------------
(***************************************************************************)
(* DecisionRound with two or three members whose order does not matter.    *)
(***************************************************************************)
EXTENDS DecisionRound, TLC

CONSTANT Uncleared    \* the members whose clearance is below the case's level

MCVoters == Members \ Uncleared
Symmetry == Permutations(Casts) \cup Permutations(MCVoters)

\* The transactions at work on votes.
InFlight == {s \in Casts : cast[s].phase # "idle"}
               \cup (IF job.phase # "idle" THEN {"job"} ELSE {})

\* A bound: once a task changes hands, every member stays, and beside the delegation one
\* such transaction at a time is at work.
OneBeside ==
    handing # NotHanding \/ Delegated # {}
        => eligible = Members /\ Cardinality(InFlight) <= 1

================================================================================
