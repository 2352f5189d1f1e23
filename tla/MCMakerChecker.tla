----------------------------- MODULE MCMakerChecker -----------------------------
(***************************************************************************)
(* MakerChecker with an item of every kind, two settings and two KVKK      *)
(* texts, an administrator, one who is secretary as well, and the chair.   *)
(***************************************************************************)
EXTENDS MakerChecker, TLC

CONSTANTS u1, u2, u3, q1, q2

MCUsers == {u1, u2, u3}
MCRank == [COUNCIL_CHAIR |-> 70, COUNCIL_SECRETARY |-> 80, ADMIN |-> 100]
MCRolesOf == (u1 :> {"ADMIN"}) @@ (u2 :> {"ADMIN", "COUNCIL_SECRETARY"})
          @@ (u3 :> {"COUNCIL_SECRETARY", "COUNCIL_CHAIR"})

MCKindOf == [retention |-> "setting", lockout |-> "setting", cell |-> "visibility",
             entry |-> "matrix", review |-> "sla", assigned |-> "template",
             v1 |-> "text", v2 |-> "text", secretary |-> "role", level |-> "clearance"]
MCItems == DOMAIN MCKindOf
MCEntryOf == [entry |-> "setting"]
MCGrantOf == [secretary |-> <<u1, "COUNCIL_SECRETARY">>]

MCDefault == [kind \in Kinds |->
    CASE kind = "role" -> [maker |-> "ADMIN", checker |-> "COUNCIL_SECRETARY"]
      [] kind = "clearance" -> [maker |-> "COUNCIL_SECRETARY", checker |-> "COUNCIL_CHAIR"]
      [] kind \in {"template", "text"} -> [maker |-> "COUNCIL_SECRETARY", checker |-> "ADMIN"]
      [] OTHER -> [maker |-> "ADMIN", checker |-> "ADMIN"]]

MCProposals == 1..2

Only(kinds, n) == [kind \in Kinds |-> IF kind \in kinds THEN n ELSE 0]

MCScenarios == {Only({kind}, 1) : kind \in {"sla", "template", "clearance"}}
          \cup {Only({kind}, 2) : kind \in {"setting", "text", "role", "visibility", "matrix"}}
          \cup {Only({"matrix", kind}, 1) : kind \in {"setting", "visibility"}}

MCSymmetry == Permutations({q1, q2})

================================================================================
