--------------------------- MODULE MakerCheckerProofs ---------------------------
(***************************************************************************)
(* Theorems about the changes that two users decide, for every number of   *)
(* users, items, proposals and requests, and every matrix.                 *)
(*                                                                         *)
(* A decision is taken about a proposal that was read earlier. What was    *)
(* read of it stays true, because the items and the maker of a proposal    *)
(* never change: that is what Known says, request by request.              *)
(***************************************************************************)
EXTENDS MakerChecker, FiniteSetTheorems, TLAPS

(***************************************************************************)
(* Types                                                                   *)
(***************************************************************************)
\* The idle request and the first proposal have their types.
LEMMA IdleTypes == IdleRequest \in Request /\ NoProposal \in Proposal
BY DEF IdleRequest, Request, NoProposal, Proposal, Statuses

\* The items of a kind are items.
LEMMA ItemsAreItems == CachedItems \subseteq Items /\ \A kind \in Kinds : ItemsOf[kind] \subseteq Items
BY DEF CachedItems, ItemsOf, Kinds

\* What is read of the tables has the type of a copy.
LEMMA TableType ==
    ASSUME TypeOK
    PROVE  Table \in Copy
BY ItemsAreItems DEF TypeOK, Table, Copy

\* A request that only reads replaces what it has in hand.
LEMMA BeginsType ==
    ASSUME TypeOK, NEW q \in Requests, NEW r \in Request, Begins(q, r)
    PROVE  TypeOK'
BY DEF TypeOK, Begins, Copy

\* A request for a change knows its user, its items and, for the matrix, its pair.
LEMMA ProposeType ==
    ASSUME TypeOK, NEW q \in Requests, NEW u \in Users, NEW S \in SUBSET Items,
           NEW pair \in Pair \cup {NoPair}, Propose(q, u, S, pair)
    PROVE  TypeOK'
<1>. DEFINE r == [IdleRequest EXCEPT !.phase = "propose", !.user = u, !.about = S, !.pair = pair]
<1>1. r \in Request
  BY DEF IdleRequest, Request
<1>2. Begins(q, r)
  BY DEF Propose
<1>. QED
  BY <1>1, <1>2, BeginsType

\* Every service asks for items of its own kind.
LEMMA ProposingAsks ==
    ASSUME NEW q \in Requests, NEW u \in Users, Proposing(q, u)
    PROVE  \E kind \in Kinds, pair \in Pair \cup {NoPair} :
              \E S \in (SUBSET ItemsOf[kind]) \ {{}} : Propose(q, u, S, pair)
<1>1. \A kind \in Kinds : \A i \in ItemsOf[kind] : {i} \in (SUBSET ItemsOf[kind]) \ {{}}
  <2>. TAKE kind \in Kinds
  <2>. TAKE i \in ItemsOf[kind]
  <2>1. i \in {i}
    OBVIOUS
  <2>2. {i} # {}
    BY <2>1
  <2>. QED
    BY <2>2
<1>2. CASE ProposeSettings(q, u)
  BY <1>2 DEF ProposeSettings, Kinds
<1>3. CASE ProposeVisibility(q, u)
  BY <1>3 DEF ProposeVisibility, Kinds
<1>4. CASE ProposeMatrix(q, u)
  BY <1>1, <1>4 DEF ProposeMatrix, Kinds
<1>5. CASE ProposeSla(q, u)
  BY <1>1, <1>5 DEF ProposeSla, Kinds
<1>6. CASE ProposeTemplate(q, u)
  BY <1>1, <1>6 DEF ProposeTemplate, Kinds
<1>7. CASE ProposeText(q, u)
  BY <1>1, <1>7 DEF ProposeText, Kinds
<1>8. CASE AssignRole(q, u)
  BY <1>1, <1>8 DEF AssignRole, Kinds
<1>9. CASE ElevateClearance(q, u)
  BY <1>1, <1>9 DEF ElevateClearance, Kinds
<1>. QED
  BY <1>2, <1>3, <1>4, <1>5, <1>6, <1>7, <1>8, <1>9 DEF Proposing

\* The requests that read.
LEMMA ReadingTypes ==
    ASSUME TypeOK, NEW q \in Requests, NEW u \in Users, Proposing(q, u) \/ LowerRead(q, u)
    PROVE  TypeOK'
<1>1. CASE Proposing(q, u)
  <2>1. PICK kind \in Kinds, pair \in Pair \cup {NoPair} :
           \E S \in (SUBSET ItemsOf[kind]) \ {{}} : Propose(q, u, S, pair)
    BY <1>1, ProposingAsks
  <2>2. PICK S \in (SUBSET ItemsOf[kind]) \ {{}} : Propose(q, u, S, pair)
    BY <2>1
  <2>. QED
    BY <2>2, ProposeType, ItemsAreItems
<1>2. CASE LowerRead(q, u)
  <2>1. PICK i \in ItemsOf["clearance"] :
           Begins(q, [IdleRequest EXCEPT !.phase = "lower", !.user = u, !.about = {i}])
    BY <1>2 DEF LowerRead
  <2>2. [IdleRequest EXCEPT !.phase = "lower", !.user = u, !.about = {i}] \in Request
    BY ItemsAreItems DEF IdleRequest, Request, Kinds
  <2>. QED
    BY <2>1, <2>2, BeginsType
<1>. QED
  BY <1>1, <1>2

\* The requests that read a proposal.
LEMMA DecidingTypes ==
    ASSUME TypeOK, NEW q \in Requests, NEW u \in Users, NEW p \in Proposals,
           ReadProposal(q, u, p) \/ RevokeRead(q, u, p)
    PROVE  TypeOK'
<1>1. CASE ReadProposal(q, u, p)
  <2>1. [IdleRequest EXCEPT !.phase = "decide", !.user = u, !.proposal = {p}] \in Request
    BY DEF IdleRequest, Request
  <2>. QED
    BY <1>1, <2>1, BeginsType DEF ReadProposal
<1>2. CASE RevokeRead(q, u, p)
  <2>1. [IdleRequest EXCEPT !.phase = "revoke", !.user = u, !.proposal = {p}] \in Request
    BY DEF IdleRequest, Request
  <2>. QED
    BY <1>2, <2>1, BeginsType DEF RevokeRead
<1>. QED
  BY <1>1, <1>2

\* The transaction that creates a proposal.
LEMMA CreateTypes ==
    ASSUME TypeOK, NEW q \in Requests, Create(q)
    PROVE  TypeOK'
<1>1. PICK p \in Proposals : proposals' = [proposals EXCEPT ![p] =
              [status |-> "PENDING", items |-> requests[q].about, maker |-> requests[q].user,
               approver |-> Nobody, pair |-> requests[q].pair]]
  BY DEF Create
<1>2. [status |-> "PENDING", items |-> requests[q].about, maker |-> requests[q].user,
       approver |-> Nobody, pair |-> requests[q].pair] \in Proposal
  BY DEF TypeOK, Request, Proposal, Statuses
<1>3. proposals' \in [Proposals -> Proposal]
  BY <1>1, <1>2 DEF TypeOK
<1>. QED
  BY <1>3, IdleTypes DEF TypeOK, Create, Ends, Copy

\* A status and an approver are written.
LEMMA PutProposal ==
    ASSUME TypeOK, NEW p \in Proposals, NEW status \in Statuses, NEW u \in Users \cup {Nobody}
    PROVE  /\ [proposals EXCEPT ![p].status = status] \in [Proposals -> Proposal]
           /\ [proposals EXCEPT ![p].approver = u] \in [Proposals -> Proposal]
           /\ [proposals EXCEPT ![p].status = status, ![p].approver = u] \in [Proposals -> Proposal]
BY DEF TypeOK, Proposal

\* What a batch does to the items is well typed.
LEMMA ApplyTypes ==
    ASSUME TypeOK, NEW q \in Requests, NEW p \in Proposals, NEW kind, Apply(q, p, kind)
    PROVE  /\ proposals' \in [Proposals -> Proposal]
           /\ force' \in [Items -> SUBSET Proposals]
           /\ versions' \in [Items -> Nat]
           /\ keys' \subseteq Key
<1>1. requests[q].user \in Users \cup {Nobody}
  BY DEF TypeOK, Request
<1>2. proposals' \in [Proposals -> Proposal]
  BY <1>1, PutProposal DEF Apply, Approved, Statuses
<1>3. keys' \subseteq Key
  BY DEF Apply, Publishes, ApplyKey, Key, TypeOK
<1>. QED
  BY <1>2, <1>3 DEF Apply, TypeOK

\* A request that goes on to the copy in memory.
LEMMA PhaseTypes ==
    ASSUME TypeOK, NEW q \in Requests
    PROVE  /\ Reloads(q) /\ versions' \in [Items -> Nat] =>
                 requests' \in [Requests -> Request] /\ cache' \in Copy
           /\ Ends(q) => requests' \in [Requests -> Request]
<1>1. ASSUME Reloads(q), versions' \in [Items -> Nat]
      PROVE  requests' \in [Requests -> Request] /\ cache' \in Copy
  <2>1. [i \in CachedItems |-> versions'[i]] \in [CachedItems -> Nat]
    BY <1>1, ItemsAreItems
  <2>2. [requests[q] EXCEPT !.phase = "reload", !.wrote = [i \in CachedItems |-> versions'[i]]] \in Request
    BY <2>1 DEF TypeOK, Request
  <2>. QED
    BY <1>1, <2>2 DEF Reloads, TypeOK
<1>2. ASSUME Ends(q)
      PROVE  requests' \in [Requests -> Request]
  BY <1>2, IdleTypes DEF Ends, TypeOK
<1>. QED
  BY <1>1, <1>2

\* The decisions.
LEMMA ApprovingTypes ==
    ASSUME TypeOK, NEW q \in Requests, NEW p \in Proposals, Approving(q, p)
    PROVE  TypeOK'
<1>1. CASE ApproveSettings(q, p)
  BY <1>1, ApplyTypes, PhaseTypes DEF ApproveSettings, TypeOK, Copy
<1>2. CASE ApproveSla(q, p)
  BY <1>2, ApplyTypes, PhaseTypes DEF ApproveSla, TypeOK, Copy
<1>3. CASE ApproveTemplate(q, p)
  BY <1>3, ApplyTypes, PhaseTypes DEF ApproveTemplate, TypeOK, Copy
<1>4. CASE ApproveVisibility(q, p)
  BY <1>4, ApplyTypes, PhaseTypes DEF ApproveVisibility, TypeOK, Copy
<1>5. CASE ApproveMatrix(q, p)
  BY <1>5, ApplyTypes, PhaseTypes DEF ApproveMatrix, TypeOK, Copy
<1>6. CASE PublishBegin(q, p)
  <2>1. {i \in ItemsOf["text"] : force[i] # {}} \in SUBSET Items
    BY ItemsAreItems DEF Kinds
  <2>2. [requests[q] EXCEPT !.phase = "publish", !.seen = {i \in ItemsOf["text"] : force[i] # {}}] \in Request
    BY <2>1 DEF TypeOK, Request
  <2>. QED
    BY <1>6, <2>2 DEF PublishBegin, TypeOK, Copy
<1>7. CASE PublishCommit(q, p)
  <2>1. requests[q].user \in Users \cup {Nobody}
    BY DEF TypeOK, Request
  <2>2. proposals' \in [Proposals -> Proposal]
    BY <1>7, <2>1, PutProposal DEF PublishCommit, Approved, Statuses
  <2>3. keys' \subseteq Key
    BY <1>7 DEF PublishCommit, Publishes, ApplyKey, Key, TypeOK
  <2>4. force' \in [Items -> SUBSET Proposals]
    BY <1>7 DEF PublishCommit, InForce, TypeOK
  <2>5. versions' \in [Items -> Nat]
    BY <1>7 DEF PublishCommit, TypeOK
  <2>. QED
    BY <1>7, <2>2, <2>3, <2>4, <2>5, PhaseTypes DEF PublishCommit, TypeOK, Copy
<1>8. CASE ApproveRole(q, p) \/ ApproveClearance(q, p)
  <2>1. requests[q].user \in Users \cup {Nobody}
    BY DEF TypeOK, Request
  <2>2. /\ [proposals EXCEPT ![p].approver = requests[q].user] \in [Proposals -> Proposal]
        /\ Approved(p, requests[q].user) \in [Proposals -> Proposal]
    BY <2>1, PutProposal DEF Approved, Statuses
  <2>3. keys' \subseteq Key
    BY <1>8, <2>1 DEF ApproveRole, ApproveClearance, Publishes, Key, TypeOK
  <2>4. force' \in [Items -> SUBSET Proposals]
    BY <1>8 DEF ApproveRole, ApproveClearance, TypeOK
  <2>. QED
    BY <1>8, <2>2, <2>3, <2>4, PhaseTypes DEF ApproveRole, ApproveClearance, TypeOK, Copy
<1>. QED
  BY <1>1, <1>2, <1>3, <1>4, <1>5, <1>6, <1>7, <1>8 DEF Approving

\* Refusals, and what one user does alone.
LEMMA EndingTypes ==
    ASSUME TypeOK, NEW q \in Requests, Reject(q) \/ Revoke(q) \/ Lower(q) \/ Conflict(q)
    PROVE  TypeOK'
<1>1. requests[q].user \in Users \cup {Nobody} /\ requests[q].proposal \subseteq Proposals
  BY DEF TypeOK, Request
<1>2. CASE Reject(q)
  <2>1. PICK p \in requests[q].proposal :
           /\ Publishes(<<"reject", p, requests[q].user>>)
           /\ proposals' = [proposals EXCEPT ![p].status = "REJECTED"]
    BY <1>2 DEF Reject
  <2>2. keys' \subseteq Key
    BY <1>1, <2>1 DEF Publishes, Key, TypeOK
  <2>3. proposals' \in [Proposals -> Proposal]
    BY <1>1, <2>1, PutProposal DEF Statuses
  <2>. QED
    BY <1>2, <2>2, <2>3, PhaseTypes DEF Reject, TypeOK, Copy
<1>3. CASE Revoke(q)
  <2>1. PICK p \in requests[q].proposal :
           /\ Publishes(<<"revoke", p, requests[q].user>>)
           /\ proposals' = [proposals EXCEPT ![p].status = "REJECTED"]
           /\ force' = [i \in Items |-> force[i] \ {p}]
    BY <1>3 DEF Revoke
  <2>2. keys' \subseteq Key
    BY <1>1, <2>1 DEF Publishes, Key, TypeOK
  <2>3. proposals' \in [Proposals -> Proposal]
    BY <1>1, <2>1, PutProposal DEF Statuses
  <2>4. force' \in [Items -> SUBSET Proposals]
    BY <2>1 DEF TypeOK
  <2>. QED
    BY <1>3, <2>2, <2>3, <2>4, PhaseTypes DEF Revoke, TypeOK, Copy
<1>4. CASE Lower(q)
  BY <1>4, PhaseTypes DEF Lower, TypeOK, Copy
<1>5. CASE Conflict(q)
  BY <1>5, PhaseTypes DEF Conflict, TypeOK, Copy
<1>. QED
  BY <1>2, <1>3, <1>4, <1>5

\* The copies.
LEMMA CopyTypes ==
    ASSUME TypeOK, NEW q \in Requests, ReloadRead(q) \/ ReloadInstall(q) \/ Restart
    PROVE  TypeOK'
<1>1. CASE ReloadRead(q)
  <2>1. [requests[q] EXCEPT !.phase = "install", !.view = {Table}] \in Request
    BY TableType DEF TypeOK, Request
  <2>. QED
    BY <1>1, <2>1 DEF ReloadRead, TypeOK, Copy
<1>2. CASE ReloadInstall(q)
  <2>1. PICK view \in requests[q].view, p \in requests[q].proposal :
          cache' = [i \in CachedItems |->
                       IF KindOf[i] = KindOfProposal(p) THEN view[i] ELSE cache[i]]
    BY <1>2 DEF ReloadInstall
  <2>2. view \in Copy
    BY <2>1 DEF TypeOK, Request
  <2>3. cache' \in Copy
    BY <2>1, <2>2 DEF Copy, TypeOK
  <2>. QED
    BY <1>2, <2>3, PhaseTypes DEF ReloadInstall, TypeOK
<1>3. CASE Restart
  BY <1>3, IdleTypes, TableType DEF Restart, TypeOK
<1>. QED
  BY <1>1, <1>2, <1>3

\* Every step.
LEMMA TypeStep ==
    ASSUME TypeOK, [Next]_vars
    PROVE  TypeOK'
<1>1. CASE UNCHANGED vars
  BY <1>1 DEF vars, TypeOK, Copy
<1>2. CASE Restart
  BY <1>2, IdleTypes, TableType DEF Restart, TypeOK
<1>. QED
  BY <1>1, <1>2, ReadingTypes, DecidingTypes, ApprovingTypes, CreateTypes, EndingTypes, CopyTypes DEF Next

(***************************************************************************)
(* What was read stays true                                                *)
(***************************************************************************)
Proposed(p) == ~Is(p, "none")

OfKind(p, kind) == \A i \in proposals[p].items : KindOf[i] = kind

OneKind(S) == S # {} /\ \A i, o \in S : KindOf[i] = KindOf[o]

\* What the tables say of each other. The key of the decision on a batch names nobody.
Consistent ==
    /\ \A p \in Proposals : Proposed(p) => OneKind(proposals[p].items)
    /\ \A i \in Items : \A p \in force[i] : Proposed(p) /\ i \in proposals[p].items
    /\ \A k \in keys : Proposed(k[2]) /\ (k[1] \in {"apply", "reject"} => ~Is(k[2], "PENDING"))
    /\ \A k \in keys : k[1] = "apply" /\ k[3] # Nobody =>
          OfKind(k[2], "role") \/ OfKind(k[2], "clearance")

\* What a request has read of its proposal.
Knows(q, p) ==
    /\ Proposed(p)
    /\ requests[q].phase \in {"decide", "publish"} =>
          requests[q].user \in Users /\ requests[q].user # proposals[p].maker
    /\ requests[q].phase = "publish" => OfKind(p, "text") /\ requests[q].seen \subseteq ItemsOf["text"]
    /\ requests[q].phase = "revoke" => OfKind(p, "role")
    /\ requests[q].phase \in {"reload", "install"} => proposals[p].items \subseteq CachedItems
    /\ requests[q].phase = "reload" => \A i \in proposals[p].items : HasChange(q, p, i, Table[i])
    /\ requests[q].phase = "install" => \A i \in proposals[p].items : \A view \in requests[q].view :
          HasChange(q, p, i, view[i])

Known(q) ==
    /\ requests[q].phase = "propose" => OneKind(requests[q].about)
    /\ requests[q].phase = "lower" => requests[q].about \subseteq ItemsOf["clearance"]
    /\ \A p, o \in requests[q].proposal : p = o
    /\ \A p \in requests[q].proposal : Knows(q, p)

IInv == TypeOK /\ Consistent /\ \A q \in Requests : Known(q)

\* The row of an item stays as it is, or has a later version.
Rises(i) == \/ versions'[i] = versions[i] /\ force'[i] = force[i]
            \/ versions'[i] \in Nat /\ versions'[i] > versions[i]

\* What is written of a proposal stays, keys stay, and the rows that are held in memory
\* only get later versions.
Grows ==
    /\ \A p \in Proposals : Proposed(p) =>
          /\ proposals'[p].status # "none"
          /\ proposals'[p].items = proposals[p].items
          /\ proposals'[p].maker = proposals[p].maker
    /\ keys \subseteq keys'
    /\ \A i \in CachedItems : Rises(i)

\* The items of a kind, and those in memory, by their kind.
LEMMA KindsOfItems ==
    /\ \A kind \in Kinds : \A i \in ItemsOf[kind] : i \in Items /\ KindOf[i] = kind
    /\ \A i \in CachedItems : i \in Items /\ KindOf[i] \in {"matrix", "visibility"}
    /\ \A i \in Items : KindOf[i] \in {"matrix", "visibility"} => i \in CachedItems
BY DEF ItemsOf, CachedItems, Kinds

\* A request that a step leaves alone knows what it knew.
LEMMA OtherKnown ==
    ASSUME IInv, Grows, NEW o \in Requests, requests'[o] = requests[o]
    PROVE  Known(o)'
<1>1. requests[o] \in Request
  BY DEF IInv, TypeOK
<1>2. Known(o)
  BY DEF IInv
<1>3. ASSUME NEW p \in requests[o].proposal
      PROVE  Knows(o, p)'
  <2>1. p \in Proposals /\ Knows(o, p)
    BY <1>1, <1>2 DEF Request, Known
  <2>2. /\ Proposed(p)'
        /\ proposals'[p].items = proposals[p].items
        /\ proposals'[p].maker = proposals[p].maker
    BY <2>1 DEF Grows, Knows, Proposed, Is
  <2>3. requests[o].phase = "publish" => OfKind(p, "text")'
    BY <2>1, <2>2 DEF Knows, OfKind
  <2>4. requests[o].phase = "revoke" => OfKind(p, "role")'
    BY <2>1, <2>2 DEF Knows, OfKind
  <2>5. ASSUME requests[o].phase = "reload", NEW i \in proposals[p].items
        PROVE  HasChange(o, p, i, Table[i])'
    <3>1. i \in CachedItems /\ HasChange(o, p, i, Table[i])
      BY <2>1, <2>5 DEF Knows
    <3>2. Rises(i) /\ i \in Items
      BY <3>1, KindsOfItems DEF Grows
    <3>3. /\ Table[i] = [version |-> versions[i], force |-> force[i]]
          /\ Table'[i] = [version |-> versions'[i], force |-> force'[i]]
      BY <3>1 DEF Table
    <3>4. versions[i] \in Nat /\ requests[o].wrote[i] \in Nat
      BY <1>1, <3>1, <3>2 DEF IInv, TypeOK, Request
    <3>. QED
      BY <3>1, <3>2, <3>3, <3>4 DEF HasChange, Rises
  <2>6. ASSUME requests[o].phase = "install", NEW i \in proposals[p].items,
               NEW view \in requests[o].view
        PROVE  HasChange(o, p, i, view[i])'
    <3>1. HasChange(o, p, i, view[i])
      BY <2>1, <2>6 DEF Knows
    <3>. QED
      BY <3>1 DEF HasChange
  <2>. QED
    BY <2>1, <2>2, <2>3, <2>4, <2>5, <2>6 DEF Knows
<1>. QED
  BY <1>2, <1>3 DEF Known, OneKind

\* An idle request knows nothing.
LEMMA IdleKnown ==
    ASSUME NEW q \in Requests, requests'[q] = IdleRequest
    PROVE  Known(q)'
BY DEF Known, IdleRequest

\* A step that leaves the tables alone.
LEMMA SameTables ==
    ASSUME IInv, UNCHANGED <<proposals, force, versions, keys>>
    PROVE  Grows /\ Consistent'
<1>1. Grows
  BY DEF Grows, Rises, Proposed, Is
<1>. QED
  BY <1>1 DEF IInv, Consistent, Proposed, Is, OfKind

\* The proposal is of the kind of each of its items.
LEMMA KindIsAll ==
    ASSUME IInv, NEW p \in Proposals, Proposed(p)
    PROVE  \A i \in proposals[p].items : i \in Items /\ KindOf[i] = KindOfProposal(p)
<1>1. OneKind(proposals[p].items) /\ proposals[p].items \subseteq Items
  BY DEF IInv, Consistent, TypeOK, Proposal
<1>2. (CHOOSE i \in proposals[p].items : TRUE) \in proposals[p].items
  BY <1>1 DEF OneKind
<1>. QED
  BY <1>1, <1>2 DEF OneKind, KindOfProposal

\* The proposal in the hands of a request, and what is known of it.
LEMMA InHand ==
    ASSUME IInv, NEW q \in Requests, NEW p \in requests[q].proposal
    PROVE  /\ p \in Proposals /\ Proposed(p) /\ Knows(q, p)
           /\ requests[q].user \in Users \cup {Nobody}
           /\ p \in Proposals /\ proposals[p] \in Proposal
BY DEF IInv, TypeOK, Request, Known, Knows

\* Requests that only read.
LEMMA ReadingStep ==
    ASSUME IInv, NEW q \in Requests, NEW u \in Users, Proposing(q, u) \/ LowerRead(q, u)
    PROVE  Grows /\ Consistent' /\ \A o \in Requests : Known(o)'
<1>1. CASE Proposing(q, u)
  <2>1. PICK kind \in Kinds, pair \in Pair \cup {NoPair} :
           \E S \in (SUBSET ItemsOf[kind]) \ {{}} : Propose(q, u, S, pair)
    BY <1>1, ProposingAsks
  <2>2. PICK S \in (SUBSET ItemsOf[kind]) \ {{}} : Propose(q, u, S, pair)
    BY <2>1
  <2>3. UNCHANGED <<proposals, force, versions, keys>> /\ \A o \in Requests \ {q} : requests'[o] = requests[o]
    BY <2>2 DEF Propose, Begins, IInv, TypeOK
  <2>4. /\ requests'[q].phase = "propose" /\ requests'[q].about = S
        /\ requests'[q].proposal = {}
    BY <2>2 DEF Propose, Begins, IInv, TypeOK, IdleRequest
  <2>5. OneKind(S)
    BY KindsOfItems DEF OneKind
  <2>6. Known(q)'
    BY <2>4, <2>5 DEF Known, OneKind
  <2>. QED
    BY <2>3, <2>6, SameTables, OtherKnown
<1>2. CASE LowerRead(q, u)
  <2>1. PICK i \in ItemsOf["clearance"] :
           Begins(q, [IdleRequest EXCEPT !.phase = "lower", !.user = u, !.about = {i}])
    BY <1>2 DEF LowerRead
  <2>2. UNCHANGED <<proposals, force, versions, keys>> /\ \A o \in Requests \ {q} : requests'[o] = requests[o]
    BY <2>1 DEF Begins, IInv, TypeOK
  <2>3. /\ requests'[q].phase = "lower" /\ requests'[q].about = {i}
        /\ requests'[q].proposal = {}
    BY <2>1 DEF Begins, IInv, TypeOK, IdleRequest
  <2>4. Known(q)'
    BY <2>3 DEF Known
  <2>. QED
    BY <2>2, <2>4, SameTables, OtherKnown
<1>. QED
  BY <1>1, <1>2

\* Requests that read a proposal.
LEMMA DecidingStep ==
    ASSUME IInv, NEW q \in Requests, NEW u \in Users, NEW p \in Proposals,
           ReadProposal(q, u, p) \/ RevokeRead(q, u, p)
    PROVE  Grows /\ Consistent' /\ \A o \in Requests : Known(o)'
<1>1. CASE ReadProposal(q, u, p)
  <2>1. UNCHANGED <<proposals, force, versions, keys>> /\ \A o \in Requests \ {q} : requests'[o] = requests[o]
    BY <1>1 DEF ReadProposal, Begins, IInv, TypeOK
  <2>2. /\ requests'[q].phase = "decide" /\ requests'[q].user = u
        /\ requests'[q].proposal = {p}
    BY <1>1 DEF ReadProposal, Begins, IInv, TypeOK, IdleRequest
  <2>3. Proposed(p) /\ u # proposals[p].maker
    BY <1>1 DEF ReadProposal, Decidable, MayDecide, Proposed, Is
  <2>4. Known(q)'
    BY <2>1, <2>2, <2>3 DEF Known, Knows, Proposed, Is
  <2>. QED
    BY <2>1, <2>4, SameTables, OtherKnown
<1>2. CASE RevokeRead(q, u, p)
  <2>1. UNCHANGED <<proposals, force, versions, keys>> /\ \A o \in Requests \ {q} : requests'[o] = requests[o]
    BY <1>2 DEF RevokeRead, Begins, IInv, TypeOK
  <2>2. requests'[q].phase = "revoke" /\ requests'[q].proposal = {p}
    BY <1>2 DEF RevokeRead, Begins, IInv, TypeOK, IdleRequest
  <2>3. PICK i \in ItemsOf["role"] : p \in force[i]
    BY <1>2 DEF RevokeRead
  <2>4. i \in Items /\ KindOf[i] = "role"
    BY KindsOfItems DEF Kinds
  <2>5. Proposed(p) /\ i \in proposals[p].items
    BY <2>3, <2>4 DEF IInv, Consistent
  <2>6. OfKind(p, "role")
    BY <2>4, <2>5, KindIsAll DEF OfKind
  <2>7. Known(q)'
    BY <2>1, <2>2, <2>5, <2>6 DEF Known, Knows, Proposed, Is, OfKind
  <2>. QED
    BY <2>1, <2>7, SameTables, OtherKnown
<1>. QED
  BY <1>1, <1>2

\* A new proposal is one that no key, no value in force and no request knows.
LEMMA CreateStep ==
    ASSUME IInv, NEW q \in Requests, Create(q)
    PROVE  Grows /\ Consistent' /\ \A o \in Requests : Known(o)'
<1>1. PICK p \in Proposals :
         /\ Is(p, "none")
         /\ proposals' = [proposals EXCEPT ![p] =
              [status |-> "PENDING", items |-> requests[q].about, maker |-> requests[q].user,
               approver |-> Nobody, pair |-> requests[q].pair]]
  BY DEF Create
<1>2. UNCHANGED <<force, versions, keys>> /\ requests' = [requests EXCEPT ![q] = IdleRequest]
  BY DEF Create, Ends
<1>3. OneKind(requests[q].about)
  BY DEF Create, IInv, Known
<1>4. Grows
  BY <1>1, <1>2 DEF Grows, Rises, Proposed, Is, IInv, TypeOK
<1>5. /\ proposals'[p].status = "PENDING" /\ OneKind(proposals'[p].items)
      /\ \A o \in Proposals \ {p} : proposals'[o] = proposals[o]
  BY <1>1, <1>3 DEF IInv, TypeOK
<1>6. \A k \in keys : k[2] \in Proposals /\ k[2] # p
  BY <1>1 DEF IInv, TypeOK, Key, Consistent, Proposed
<1>7. Consistent'
  <2>1. (\A o \in Proposals : Proposed(o) => OneKind(proposals[o].items))'
    BY <1>5 DEF IInv, Consistent, Proposed, Is, OneKind
  <2>2. (\A i \in Items : \A o \in force[i] : Proposed(o) /\ i \in proposals[o].items)'
    <3>. SUFFICES ASSUME NEW i \in Items, NEW o \in force[i]
                  PROVE  proposals'[o].status # "none" /\ i \in proposals'[o].items
      BY <1>2 DEF Proposed, Is
    <3>1. o \in Proposals /\ Proposed(o) /\ i \in proposals[o].items
      BY DEF IInv, TypeOK, Consistent
    <3>. QED
      BY <3>1, <1>4 DEF Grows
  <2>3. (\A k \in keys : Proposed(k[2]) /\ (k[1] \in {"apply", "reject"} => ~Is(k[2], "PENDING")))'
    BY <1>2, <1>5, <1>6 DEF IInv, Consistent, Proposed, Is
  <2>4. (\A k \in keys : k[1] = "apply" /\ k[3] # Nobody =>
            OfKind(k[2], "role") \/ OfKind(k[2], "clearance"))'
    BY <1>2, <1>5, <1>6 DEF IInv, Consistent, OfKind
  <2>. QED
    BY <2>1, <2>2, <2>3, <2>4 DEF Consistent
<1>8. \A o \in Requests : Known(o)'
  <2>. TAKE o \in Requests
  <2>1. CASE o = q
    BY <2>1, <1>2, IdleKnown DEF IInv, TypeOK
  <2>2. CASE o # q
    BY <2>2, <1>2, <1>4, OtherKnown DEF IInv, TypeOK
  <2>. QED
    BY <2>1, <2>2
<1>. QED
  BY <1>4, <1>7, <1>8

\* What a decision leaves of the proposals and the keys: one proposal has another status
\* and perhaps another approver, and at most one key is new.
Decided(p, kind, key, status) ==
    /\ proposals'[p].status = status
    /\ proposals'[p].items = proposals[p].items
    /\ proposals'[p].maker = proposals[p].maker
    /\ \A o \in Proposals \ {p} : proposals'[o] = proposals[o]
    /\ keys' = keys \cup {key}
    /\ key[1] = kind /\ key[2] = p
    /\ status \in {"APPROVED", "REJECTED"}

\* A decision keeps what the tables say of each other, if what is in force stays so or
\* is the proposal, and if its key names nobody, or it is about a role or a clearance.
LEMMA DecisionStep ==
    ASSUME IInv, NEW p \in Proposals, Proposed(p), NEW kind, NEW key, NEW status,
           Decided(p, kind, key, status),
           \A i \in Items : /\ force'[i] \subseteq force[i] \cup {p}
                            /\ p \in force'[i] => i \in proposals[p].items,
           \A i \in CachedItems : Rises(i),
           kind = "apply" /\ key[3] # Nobody => OfKind(p, "role") \/ OfKind(p, "clearance")
    PROVE  Grows /\ Consistent'
<1>1. Grows
  BY DEF Grows, Decided, Proposed, Is
<1>2. (\A o \in Proposals : Proposed(o) => OneKind(proposals[o].items))'
  BY DEF Decided, IInv, Consistent, Proposed, Is, OneKind
<1>3. (\A i \in Items : \A o \in force[i] : Proposed(o) /\ i \in proposals[o].items)'
  <2>. SUFFICES ASSUME NEW i \in Items, NEW o \in force'[i]
                PROVE  proposals'[o].status # "none" /\ i \in proposals'[o].items
    BY DEF Proposed, Is
  <2>1. CASE o = p
    BY <2>1 DEF Decided
  <2>2. CASE o # p
    <3>1. o \in force[i]
      BY <2>2
    <3>2. o \in Proposals /\ Proposed(o) /\ i \in proposals[o].items
      BY <3>1 DEF IInv, TypeOK, Consistent
    <3>. QED
      BY <3>2, <1>1 DEF Grows
  <2>. QED
    BY <2>1, <2>2
<1>4. \A k \in keys : k[2] \in Proposals
  BY DEF IInv, TypeOK, Key
<1>5. (\A k \in keys : Proposed(k[2]) /\ (k[1] \in {"apply", "reject"} => ~Is(k[2], "PENDING")))'
  BY <1>4 DEF Decided, IInv, Consistent, Proposed, Is
<1>6. (\A k \in keys : k[1] = "apply" /\ k[3] # Nobody =>
          OfKind(k[2], "role") \/ OfKind(k[2], "clearance"))'
  <2>1. \A o \in Proposals : proposals'[o].items = proposals[o].items
    BY DEF Decided
  <2>. QED
    BY <1>4, <2>1 DEF Decided, IInv, Consistent, OfKind
<1>. QED
  BY <1>1, <1>2, <1>3, <1>5, <1>6 DEF Consistent

\* A rejection, a revocation.
LEMMA RefusingStep ==
    ASSUME IInv, NEW q \in Requests, Reject(q) \/ Revoke(q)
    PROVE  Grows /\ Consistent' /\ \A o \in Requests : Known(o)'
<1>1. requests' = [requests EXCEPT ![q] = IdleRequest]
  BY DEF Reject, Revoke, Ends
<1>2. Grows /\ Consistent'
  <2>1. CASE Reject(q)
    <3>1. PICK p \in requests[q].proposal :
             /\ Publishes(<<"reject", p, requests[q].user>>)
             /\ proposals' = [proposals EXCEPT ![p].status = "REJECTED"]
      BY <2>1 DEF Reject
    <3>2. p \in Proposals /\ Proposed(p) /\ proposals[p] \in Proposal
      BY InHand
    <3>3. Decided(p, "reject", <<"reject", p, requests[q].user>>, "REJECTED")
      BY <3>1, <3>2 DEF Decided, Publishes, IInv, TypeOK, Proposal
    <3>4. /\ \A i \in Items : force'[i] = force[i]
          /\ \A i \in CachedItems : Rises(i)
      BY <2>1 DEF Reject, Rises
    <3>5. \A i \in Items : p \in force'[i] => i \in proposals[p].items
      BY <3>4 DEF IInv, Consistent
    <3>. QED
      BY <3>2, <3>3, <3>4, <3>5, DecisionStep
  <2>2. CASE Revoke(q)
    <3>1. PICK p \in requests[q].proposal :
             /\ Publishes(<<"revoke", p, requests[q].user>>)
             /\ proposals' = [proposals EXCEPT ![p].status = "REJECTED"]
             /\ force' = [i \in Items |-> force[i] \ {p}]
      BY <2>2 DEF Revoke
    <3>2. p \in Proposals /\ Proposed(p) /\ proposals[p] \in Proposal
      BY InHand
    <3>3. Decided(p, "revoke", <<"revoke", p, requests[q].user>>, "REJECTED")
      BY <3>1, <3>2 DEF Decided, Publishes, IInv, TypeOK, Proposal
    <3>4. OfKind(p, "role")
      BY <2>2, InHand DEF Revoke, Knows
    <3>5. \A i \in CachedItems : i \in Items /\ p \notin force[i]
      BY <3>4, KindsOfItems DEF OfKind, IInv, Consistent
    <3>6. /\ \A i \in Items : force'[i] \subseteq force[i] /\ p \notin force'[i]
          /\ \A i \in CachedItems : Rises(i)
      BY <2>2, <3>1, <3>5 DEF Revoke, Rises
    <3>. QED
      BY <3>2, <3>3, <3>6, DecisionStep
  <2>. QED
    BY <2>1, <2>2
<1>3. \A o \in Requests : Known(o)'
  <2>. TAKE o \in Requests
  <2>1. CASE o = q
    BY <2>1, <1>1, IdleKnown DEF IInv, TypeOK
  <2>2. CASE o # q
    BY <2>2, <1>1, <1>2, OtherKnown DEF IInv, TypeOK
  <2>. QED
    BY <2>1, <2>2
<1>. QED
  BY <1>2, <1>3

\* A clearance is lowered; a decision comes too late.
LEMMA EndingStep ==
    ASSUME IInv, NEW q \in Requests, Lower(q) \/ Conflict(q)
    PROVE  Grows /\ Consistent' /\ \A o \in Requests : Known(o)'
<1>1. requests' = [requests EXCEPT ![q] = IdleRequest]
  BY DEF Lower, Conflict, Ends
<1>2. CASE Lower(q)
  <2>1. requests[q].about \subseteq ItemsOf["clearance"]
    BY <1>2 DEF Lower, IInv, Known
  <2>2. \A i \in CachedItems : i \in Items /\ i \notin requests[q].about
    BY <2>1, KindsOfItems DEF Kinds
  <2>3. /\ \A i \in Items : force'[i] \subseteq force[i]
        /\ \A i \in CachedItems : Rises(i)
    BY <1>2, <2>2 DEF Lower, Rises
  <2>4. UNCHANGED <<proposals, keys>>
    BY <1>2 DEF Lower
  <2>5. Grows
    BY <2>3, <2>4 DEF Grows, Proposed, Is
  <2>6. Consistent'
    BY <2>3, <2>4 DEF IInv, Consistent, Proposed, Is, OfKind
  <2>. QED
    BY <1>1, <2>5, <2>6, IdleKnown, OtherKnown DEF IInv, TypeOK
<1>3. CASE Conflict(q)
  <2>1. Grows /\ Consistent'
    BY <1>3, SameTables DEF Conflict
  <2>. QED
    BY <1>1, <2>1, IdleKnown, OtherKnown DEF IInv, TypeOK
<1>. QED
  BY <1>2, <1>3

\* A batch is applied.
LEMMA ApplyStep ==
    ASSUME IInv, NEW q \in Requests, NEW p \in Proposals, NEW kind \in Kinds, Apply(q, p, kind)
    PROVE  /\ Grows /\ Consistent' /\ Proposed(p)
           /\ proposals'[p].status # "none" /\ proposals'[p].items = proposals[p].items
           /\ \A i \in proposals[p].items : KindOf[i] = kind /\ i \in Items /\ force'[i] = {p}
<1>1. requests[q].proposal = {p} /\ KindOfProposal(p) = kind
  BY DEF Apply, Decides
<1>2. Proposed(p) /\ proposals[p] \in Proposal
  BY <1>1, InHand
<1>3. \A i \in proposals[p].items : i \in Items /\ KindOf[i] = kind
  BY <1>1, <1>2, KindIsAll
<1>4. Decided(p, "apply", <<"apply", p, Nobody>>, "APPROVED")
  BY <1>2 DEF Apply, Publishes, ApplyKey, Approved, Decided, IInv, TypeOK, Proposal
<1>5. \A i \in Items : force'[i] = IF i \in proposals[p].items THEN {p} ELSE force[i]
  BY DEF Apply
<1>6. \A i \in Items : /\ force'[i] \subseteq force[i] \cup {p}
                       /\ p \in force'[i] => i \in proposals[p].items
  BY <1>5 DEF IInv, Consistent
<1>7. \A i \in CachedItems : Rises(i)
  BY <1>5, KindsOfItems DEF Apply, Rises, IInv, TypeOK
<1>8. Grows /\ Consistent'
  BY <1>2, <1>4, <1>6, <1>7, DecisionStep
<1>. QED
  BY <1>2, <1>3, <1>4, <1>5, <1>8 DEF Decided

\* Batches that end the request, and batches after which the copy is read again.
LEMMA BatchStep ==
    ASSUME IInv, NEW q \in Requests, NEW p \in Proposals,
           \/ ApproveSettings(q, p) \/ ApproveSla(q, p) \/ ApproveTemplate(q, p)
           \/ ApproveVisibility(q, p) \/ ApproveMatrix(q, p)
    PROVE  Grows /\ Consistent' /\ \A o \in Requests : Known(o)'
<1>1. CASE ApproveSettings(q, p) \/ ApproveSla(q, p) \/ ApproveTemplate(q, p)
  <2>1. PICK kind \in Kinds : Apply(q, p, kind)
    BY <1>1 DEF ApproveSettings, ApproveSla, ApproveTemplate, Kinds
  <2>2. Grows /\ Consistent'
    BY <2>1, ApplyStep
  <2>3. requests' = [requests EXCEPT ![q] = IdleRequest]
    BY <1>1 DEF ApproveSettings, ApproveSla, ApproveTemplate, Ends
  <2>. QED
    BY <2>2, <2>3, IdleKnown, OtherKnown DEF IInv, TypeOK
<1>2. CASE ApproveVisibility(q, p) \/ ApproveMatrix(q, p)
  <2>1. PICK kind \in {"matrix", "visibility"} : Apply(q, p, kind)
    BY <1>2 DEF ApproveVisibility, ApproveMatrix
  <2>2. /\ Grows /\ Consistent' /\ Proposed(p)
        /\ proposals'[p].status # "none" /\ proposals'[p].items = proposals[p].items
        /\ \A i \in proposals[p].items : KindOf[i] = kind /\ i \in Items /\ force'[i] = {p}
    BY <2>1, ApplyStep DEF Kinds
  <2>3. requests' = [requests EXCEPT ![q].phase = "reload",
                          ![q].wrote = [i \in CachedItems |-> versions'[i]]]
    BY <1>2 DEF ApproveVisibility, ApproveMatrix, Reloads
  <2>4. /\ requests'[q].phase = "reload" /\ requests'[q].proposal = {p}
        /\ requests'[q].wrote = [i \in CachedItems |-> versions'[i]]
    BY <2>1, <2>3 DEF Apply, Decides, IInv, TypeOK, Request
  <2>5. proposals[p].items \subseteq CachedItems
    BY <2>2, KindsOfItems
  <2>6. \A i \in proposals[p].items : HasChange(q, p, i, Table[i])'
    BY <2>2, <2>4, <2>5 DEF HasChange, Table
  <2>7. Known(q)'
    BY <2>2, <2>4, <2>5, <2>6 DEF Known, Knows, Proposed, Is
  <2>8. \A o \in Requests \ {q} : requests'[o] = requests[o]
    BY <2>3 DEF IInv, TypeOK
  <2>. QED
    BY <2>2, <2>7, <2>8, OtherKnown
<1>. QED
  BY <1>1, <1>2

\* A KVKK text is published: first what is active is seen, then it is switched off.
LEMMA PublishStep ==
    ASSUME IInv, NEW q \in Requests, NEW p \in Proposals, PublishBegin(q, p) \/ PublishCommit(q, p)
    PROVE  Grows /\ Consistent' /\ \A o \in Requests : Known(o)'
<1>1. requests[q].proposal = {p}
  BY DEF PublishBegin, PublishCommit, Decides
<1>2. Proposed(p) /\ proposals[p] \in Proposal /\ Knows(q, p)
  BY <1>1, InHand
<1>3. CASE PublishBegin(q, p)
  <2>1. requests' = [requests EXCEPT ![q].phase = "publish",
                          ![q].seen = {i \in ItemsOf["text"] : force[i] # {}}]
    BY <1>3 DEF PublishBegin
  <2>2. /\ requests'[q].phase = "publish" /\ requests'[q].proposal = {p}
        /\ requests'[q].user = requests[q].user
        /\ requests'[q].seen \subseteq ItemsOf["text"]
        /\ \A o \in Requests \ {q} : requests'[o] = requests[o]
    BY <1>1, <2>1 DEF IInv, TypeOK, Request
  <2>3. OfKind(p, "text") /\ requests[q].phase = "decide"
    BY <1>2, <1>3, KindIsAll DEF PublishBegin, Decides, OfKind
  <2>4. UNCHANGED <<proposals, force, versions, keys>>
    BY <1>3 DEF PublishBegin
  <2>5. Known(q)'
    BY <1>2, <2>2, <2>3, <2>4 DEF Known, Knows, Proposed, Is, OfKind
  <2>. QED
    BY <2>2, <2>4, <2>5, SameTables, OtherKnown
<1>4. CASE PublishCommit(q, p)
  <2>1. OfKind(p, "text") /\ requests[q].seen \subseteq ItemsOf["text"]
    BY <1>2, <1>4 DEF PublishCommit, Knows
  <2>2. Decided(p, "apply", <<"apply", p, Nobody>>, "APPROVED")
    BY <1>2, <1>4 DEF PublishCommit, Publishes, ApplyKey, Approved, Decided, IInv, TypeOK, Proposal
  <2>3. \A i \in Items : force'[i] = InForce(q, p, i)
    BY <1>4 DEF PublishCommit
  <2>4. \A i \in CachedItems : /\ i \in Items /\ i \notin requests[q].seen
                               /\ i \notin proposals[p].items
    BY <2>1, KindsOfItems DEF OfKind, Kinds
  <2>5. \A i \in Items : /\ force'[i] \subseteq force[i] \cup {p}
                         /\ p \in force'[i] => i \in proposals[p].items
    BY <2>3 DEF InForce, IInv, Consistent
  <2>6. \A i \in CachedItems : Rises(i)
    BY <1>4, <2>3, <2>4 DEF PublishCommit, InForce, Rises
  <2>7. Grows /\ Consistent'
    BY <1>2, <2>2, <2>5, <2>6, DecisionStep
  <2>8. requests' = [requests EXCEPT ![q] = IdleRequest]
    BY <1>4 DEF PublishCommit, Ends
  <2>. QED
    BY <2>7, <2>8, IdleKnown, OtherKnown DEF IInv, TypeOK
<1>. QED
  BY <1>3, <1>4

\* A role becomes active, a clearance is raised.
LEMMA GrantStep ==
    ASSUME IInv, NEW q \in Requests, NEW p \in Proposals, ApproveRole(q, p) \/ ApproveClearance(q, p)
    PROVE  Grows /\ Consistent' /\ \A o \in Requests : Known(o)'
<1>1. requests[q].proposal = {p}
  BY DEF ApproveRole, ApproveClearance, Decides
<1>2. Proposed(p) /\ proposals[p] \in Proposal
  BY <1>1, InHand
<1>3. OfKind(p, "role") \/ OfKind(p, "clearance")
  BY <1>2, KindIsAll DEF ApproveRole, ApproveClearance, Decides, OfKind
<1>4. \A i \in CachedItems : i \in Items /\ i \notin proposals[p].items
  BY <1>3, KindsOfItems DEF OfKind
<1>5. \E status : Decided(p, "apply", <<"apply", p, requests[q].user>>, status)
  <2>1. CASE ApproveRole(q, p) /\ Is(p, "REJECTED")
    <3>1. Decided(p, "apply", <<"apply", p, requests[q].user>>, "REJECTED")
      BY <1>2, <2>1 DEF ApproveRole, Publishes, Decided, Is, IInv, TypeOK, Proposal
    <3>. QED
      BY <3>1
  <2>2. CASE (ApproveRole(q, p) /\ ~Is(p, "REJECTED")) \/ ApproveClearance(q, p)
    <3>1. /\ proposals' = Approved(p, requests[q].user)
          /\ keys' = keys \cup {<<"apply", p, requests[q].user>>}
      BY <2>2 DEF ApproveRole, ApproveClearance, Publishes
    <3>2. Decided(p, "apply", <<"apply", p, requests[q].user>>, "APPROVED")
      BY <1>2, <3>1 DEF Approved, Decided, IInv, TypeOK, Proposal
    <3>. QED
      BY <3>2
  <2>. QED
    BY <2>1, <2>2
<1>6. \A i \in Items : /\ i \notin proposals[p].items => force'[i] = force[i]
                       /\ force'[i] \subseteq force[i] \cup {p}
  BY DEF ApproveRole, ApproveClearance
<1>7. \A i \in Items : p \in force'[i] => i \in proposals[p].items
  BY <1>6 DEF IInv, Consistent
<1>8. \A i \in CachedItems : Rises(i)
  BY <1>4, <1>6 DEF ApproveRole, ApproveClearance, Rises
<1>9. Grows /\ Consistent'
  <2>1. PICK status : Decided(p, "apply", <<"apply", p, requests[q].user>>, status)
    BY <1>5
  <2>. QED
    BY <1>2, <1>3, <1>6, <1>7, <1>8, <2>1, DecisionStep
<1>10. requests' = [requests EXCEPT ![q] = IdleRequest]
  BY DEF ApproveRole, ApproveClearance, Ends
<1>. QED
  BY <1>9, <1>10, IdleKnown, OtherKnown DEF IInv, TypeOK

\* The copy is read, with the proposal or a later one in it, and installed.
LEMMA CopyStep ==
    ASSUME IInv, NEW q \in Requests, ReloadRead(q) \/ ReloadInstall(q)
    PROVE  Grows /\ Consistent' /\ \A o \in Requests : Known(o)'
<1>1. UNCHANGED <<proposals, force, versions, keys>>
  BY DEF ReloadRead, ReloadInstall
<1>2. CASE ReloadRead(q)
  <2>1. /\ requests'[q].phase = "install" /\ requests'[q].view = {Table}
        /\ requests'[q].proposal = requests[q].proposal /\ requests'[q].wrote = requests[q].wrote
        /\ \A o \in Requests \ {q} : requests'[o] = requests[o]
    BY <1>2 DEF ReloadRead, IInv, TypeOK, Request
  <2>2. ASSUME NEW p \in requests[q].proposal
        PROVE  Knows(q, p)'
    <3>1. /\ Proposed(p) /\ proposals[p].items \subseteq CachedItems
          /\ \A i \in proposals[p].items : HasChange(q, p, i, Table[i])
      BY <1>2, InHand DEF ReloadRead, Knows
    <3>2. \A i \in proposals[p].items : \A view \in requests'[q].view : HasChange(q, p, i, view[i])'
      BY <2>1, <3>1 DEF HasChange
    <3>. QED
      BY <1>1, <2>1, <3>1, <3>2 DEF Knows, Proposed, Is
  <2>3. \A p, o \in requests[q].proposal : p = o
    BY DEF IInv, Known
  <2>4. Known(q)'
    BY <2>1, <2>2, <2>3 DEF Known
  <2>. QED
    BY <1>1, <2>1, <2>4, SameTables, OtherKnown
<1>3. CASE ReloadInstall(q)
  <2>1. requests' = [requests EXCEPT ![q] = IdleRequest]
    BY <1>3 DEF ReloadInstall, Ends
  <2>. QED
    BY <1>1, <2>1, SameTables, IdleKnown, OtherKnown DEF IInv, TypeOK
<1>. QED
  BY <1>2, <1>3

\* Every step.
LEMMA InductiveStep ==
    ASSUME IInv, [Next]_vars
    PROVE  IInv' /\ Grows
<1>1. TypeOK'
  BY TypeStep DEF IInv
<1>2. CASE UNCHANGED vars
  <2>1. UNCHANGED <<proposals, force, versions, keys, requests>>
    BY <1>2 DEF vars
  <2>. QED
    BY <1>1, <2>1, SameTables, OtherKnown DEF IInv
<1>3. CASE Restart
  <2>1. UNCHANGED <<proposals, force, versions, keys>> /\ \A o \in Requests : requests'[o] = IdleRequest
    BY <1>3 DEF Restart
  <2>. QED
    BY <1>1, <2>1, SameTables, IdleKnown DEF IInv
<1>4. ASSUME NEW q \in Requests, NEW p \in Proposals, Approving(q, p)
      PROVE  Grows /\ Consistent' /\ \A o \in Requests : Known(o)'
  BY <1>4, BatchStep, PublishStep, GrantStep DEF Approving
<1>. QED
  BY <1>1, <1>2, <1>3, <1>4, ReadingStep, DecidingStep, CreateStep, RefusingStep, EndingStep, CopyStep
  DEF Next, IInv

\* The rows, the keys, the copies and the requests have their types.
THEOREM DecisionTypes == Spec => []TypeOK
<1>1. Init => TypeOK
  BY IdleTypes DEF Init, TypeOK, Copy, IdleRequest
<1>. QED
  BY <1>1, TypeStep, PTL DEF Spec

\* What a request has read of a proposal stays true until it decides, and a batch is
\* decided under a key that names nobody.
THEOREM ReadingsStayTrue == Spec => []IInv
<1>1. Init => IInv
  <2>. SUFFICES ASSUME Init
                PROVE  IInv
    OBVIOUS
  <2>1. TypeOK
    BY IdleTypes DEF Init, TypeOK, Copy
  <2>2. Consistent
    BY KindsOfItems DEF Init, Consistent, Proposed, Is, NoProposal
  <2>3. \A q \in Requests : Known(q)
    BY DEF Init, Known, IdleRequest
  <2>. QED
    BY <2>1, <2>2, <2>3 DEF IInv
<1>. QED
  BY <1>1, InductiveStep, PTL DEF Spec

(***************************************************************************)
(* Two steps: those that approve, and the rest                             *)
(***************************************************************************)
Approves(q, p) ==
    \/ ApproveSettings(q, p) \/ ApproveVisibility(q, p) \/ ApproveMatrix(q, p)
    \/ ApproveSla(q, p) \/ ApproveTemplate(q, p) \/ PublishCommit(q, p)
    \/ ApproveRole(q, p) \/ ApproveClearance(q, p)

Rest ==
    /\ \A i \in Items : force'[i] \subseteq force[i]
    /\ \A i \in ItemsOf["text"] : force'[i] = force[i]
    /\ \A p \in Proposals : Proposed(p) => proposals'[p].approver = proposals[p].approver
    /\ versions' = versions
    /\ \A k \in keys' \ keys : k[1] # "apply"

\* A step that leaves these tables alone is one of the rest.
LEMMA SameIsRest ==
    ASSUME UNCHANGED <<proposals, force, versions, keys>>
    PROVE  Rest
BY DEF Rest

\* Nothing else puts a value in force.
LEMMA StepKinds ==
    ASSUME IInv, [Next]_vars
    PROVE  Rest \/ \E q \in Requests, p \in Proposals : Approves(q, p)
<1>1. CASE UNCHANGED vars \/ Restart
  BY <1>1, SameIsRest DEF vars, Restart
<1>2. ASSUME NEW q \in Requests, NEW u \in Users, Proposing(q, u)
      PROVE  Rest
  BY <1>2, ProposingAsks, SameIsRest DEF Propose, Begins
<1>3. ASSUME NEW q \in Requests, NEW u \in Users, LowerRead(q, u)
      PROVE  Rest
  BY <1>3, SameIsRest DEF LowerRead, Begins
<1>4. ASSUME NEW q \in Requests, NEW u \in Users, NEW p \in Proposals,
             ReadProposal(q, u, p) \/ RevokeRead(q, u, p)
      PROVE  Rest
  BY <1>4, SameIsRest DEF ReadProposal, RevokeRead, Begins
<1>5. ASSUME NEW q \in Requests, NEW p \in Proposals, Approving(q, p)
      PROVE  Rest \/ Approves(q, p)
  BY <1>5, SameIsRest DEF Approving, Approves, PublishBegin
<1>6. ASSUME NEW q \in Requests, Conflict(q) \/ ReloadRead(q) \/ ReloadInstall(q)
      PROVE  Rest
  BY <1>6, SameIsRest DEF Conflict, ReloadRead, ReloadInstall
<1>7. ASSUME NEW q \in Requests, Create(q)
      PROVE  Rest
  <2>1. PICK p \in Proposals : Is(p, "none") /\ \A o \in Proposals \ {p} : proposals'[o] = proposals[o]
    BY <1>7 DEF Create, IInv, TypeOK
  <2>. QED
    BY <1>7, <2>1 DEF Create, Rest, Proposed
<1>8. ASSUME NEW q \in Requests, Reject(q)
      PROVE  Rest
  <2>1. PICK p \in requests[q].proposal :
           /\ Publishes(<<"reject", p, requests[q].user>>)
           /\ proposals' = [proposals EXCEPT ![p].status = "REJECTED"]
    BY <1>8 DEF Reject
  <2>2. \A o \in Proposals : proposals'[o].approver = proposals[o].approver
    BY <2>1, InHand DEF IInv, TypeOK, Proposal
  <2>3. \A k \in keys' \ keys : k[1] # "apply"
    BY <2>1 DEF Publishes
  <2>. QED
    BY <1>8, <2>2, <2>3 DEF Reject, Rest
<1>9. ASSUME NEW q \in Requests, Revoke(q)
      PROVE  Rest
  <2>1. PICK p \in requests[q].proposal :
           /\ Publishes(<<"revoke", p, requests[q].user>>)
           /\ proposals' = [proposals EXCEPT ![p].status = "REJECTED"]
           /\ force' = [i \in Items |-> force[i] \ {p}]
    BY <1>9 DEF Revoke
  <2>2. \A o \in Proposals : proposals'[o].approver = proposals[o].approver
    BY <2>1, InHand DEF IInv, TypeOK, Proposal
  <2>3. \A k \in keys' \ keys : k[1] # "apply"
    BY <2>1 DEF Publishes
  <2>4. OfKind(p, "role")
    BY <1>9, InHand DEF Revoke, Knows
  <2>5. \A i \in ItemsOf["text"] : i \in Items /\ p \notin force[i]
    BY <2>4, KindsOfItems DEF OfKind, IInv, Consistent, Kinds
  <2>6. /\ \A i \in Items : force'[i] \subseteq force[i]
        /\ \A i \in ItemsOf["text"] : force'[i] = force[i]
    BY <2>1, <2>5
  <2>. QED
    BY <1>9, <2>2, <2>3, <2>6 DEF Revoke, Rest
<1>10. ASSUME NEW q \in Requests, Lower(q)
      PROVE  Rest
  <2>1. requests[q].about \subseteq ItemsOf["clearance"]
    BY <1>10 DEF Lower, IInv, Known
  <2>2. \A i \in ItemsOf["text"] : i \in Items /\ i \notin requests[q].about
    BY <2>1, KindsOfItems DEF Kinds
  <2>. QED
    BY <1>10, <2>2 DEF Lower, Rest
<1>. QED
  BY <1>1, <1>2, <1>3, <1>4, <1>5, <1>6, <1>7, <1>8, <1>9, <1>10 DEF Next

\* What approvals have in common.
LEMMA ApprovalShape ==
    ASSUME IInv, NEW q \in Requests, NEW p \in Proposals, Approves(q, p)
    PROVE  /\ requests[q].proposal = {p} /\ requests[q].phase \in {"decide", "publish"}
           /\ Proposed(p) /\ requests[q].user \in Users /\ requests[q].user # proposals[p].maker
           /\ proposals'[p].approver = requests[q].user
           /\ \A o \in Proposals \ {p} : proposals'[o] = proposals[o]
           /\ \A i \in Items : force'[i] \subseteq force[i] \cup {p}
           /\ requests'[q].phase \in {"idle", "reload"}
           /\ \A o \in Requests \ {q} : requests'[o] = requests[o]
<1>1. requests[q].proposal = {p} /\ requests[q].phase \in {"decide", "publish"}
  BY DEF Approves, ApproveSettings, ApproveVisibility, ApproveMatrix, ApproveSla, ApproveTemplate,
         PublishCommit, ApproveRole, ApproveClearance, Apply, Decides
<1>2. Proposed(p) /\ requests[q].user \in Users /\ requests[q].user # proposals[p].maker
  BY <1>1, InHand DEF Knows
<1>3. requests' = [requests EXCEPT ![q] = IdleRequest] \/ requests' = [requests EXCEPT ![q].phase = "reload"]
  BY DEF Approves, ApproveSettings, ApproveVisibility, ApproveMatrix, ApproveSla, ApproveTemplate,
         PublishCommit, ApproveRole, ApproveClearance, Ends, Reloads
<1>4. /\ requests'[q].phase \in {"idle", "reload"}
      /\ \A o \in Requests \ {q} : requests'[o] = requests[o]
  BY <1>3 DEF IInv, TypeOK, Request, IdleRequest
<1>5. \/ proposals' = Approved(p, requests[q].user)
      \/ proposals' = [proposals EXCEPT ![p].approver = requests[q].user]
  BY DEF Approves, ApproveSettings, ApproveVisibility, ApproveMatrix, ApproveSla, ApproveTemplate,
         PublishCommit, ApproveRole, ApproveClearance, Apply
<1>6. /\ proposals'[p].approver = requests[q].user
      /\ \A o \in Proposals \ {p} : proposals'[o] = proposals[o]
  BY <1>5 DEF Approved, IInv, TypeOK, Proposal
<1>7. \A i \in Items : force'[i] \subseteq force[i] \cup {p}
  BY DEF Approves, ApproveSettings, ApproveVisibility, ApproveMatrix, ApproveSla, ApproveTemplate,
         PublishCommit, ApproveRole, ApproveClearance, Apply, InForce
<1>. QED
  BY <1>1, <1>2, <1>4, <1>6, <1>7

\* What is in force was approved by another user than the one who proposed it.
LEMMA FourEyesStep ==
    ASSUME IInv, FourEyes, [Next]_vars
    PROVE  FourEyes'
<1>. SUFFICES ASSUME NEW i \in Items, NEW o \in force'[i]
              PROVE  proposals'[o].approver \notin {Nobody, proposals'[o].maker}
  BY DEF FourEyes
<1>1. Grows
  BY InductiveStep
<1>2. ASSUME o \in force[i]
      PROVE  /\ o \in Proposals /\ Proposed(o) /\ proposals'[o].maker = proposals[o].maker
             /\ proposals[o].approver \notin {Nobody, proposals[o].maker}
  BY <1>1, <1>2 DEF IInv, TypeOK, Consistent, FourEyes, Grows
<1>3. CASE Rest
  BY <1>2, <1>3 DEF Rest
<1>4. ASSUME NEW q \in Requests, NEW p \in Proposals, Approves(q, p)
      PROVE  proposals'[o].approver \notin {Nobody, proposals'[o].maker}
  <2>1. CASE o = p
    BY <1>1, <1>4, <2>1, ApprovalShape, MakerCheckerAssumption DEF Grows
  <2>2. CASE o # p
    BY <1>2, <1>4, <2>2, ApprovalShape
  <2>. QED
    BY <2>1, <2>2
<1>. QED
  BY <1>3, <1>4, StepKinds

\* What is in force was approved by another user than the one who proposed it: the rule
\* of the two persons, for every matrix and whatever decisions overlap (assertChecker).
THEOREM TwoPersons == Spec => []FourEyes
<1>1. Init => FourEyes
  BY DEF Init, FourEyes
<1>2. IInv /\ FourEyes /\ [Next]_vars => FourEyes'
  BY FourEyesStep
<1>. QED
  BY <1>1, <1>2, ReadingsStayTrue, PTL DEF Spec

(***************************************************************************)
(* Batches are counted                                                     *)
(***************************************************************************)
AppliedTo(i) == {p \in Proposals : i \in proposals[p].items /\ \E k \in Decisions(p) : k[1] = "apply"}

\* A step under which no key of an approval appears.
LEMMA AppliedSame ==
    ASSUME IInv, Grows, \A k \in keys' \ keys : k[1] # "apply", NEW i \in Items
    PROVE  AppliedTo(i)' = AppliedTo(i)
<1>1. \A p \in Proposals : (\E k \in Decisions(p)' : k[1] = "apply") <=> \E k \in Decisions(p) : k[1] = "apply"
  BY DEF Decisions, Grows
<1>2. ASSUME NEW p \in Proposals, \E k \in Decisions(p) : k[1] = "apply"
      PROVE  proposals'[p].items = proposals[p].items
  BY <1>2 DEF Decisions, IInv, Consistent, Grows
<1>. QED
  BY <1>1, <1>2 DEF AppliedTo

\* A step under which the key of one approval appears.
LEMMA AppliedMore ==
    ASSUME IInv, Grows, NEW p \in Proposals, Proposed(p), NEW u,
           keys' = keys \cup {<<"apply", p, u>>}, NEW i \in Items
    PROVE  AppliedTo(i)' = IF i \in proposals[p].items THEN AppliedTo(i) \cup {p} ELSE AppliedTo(i)
<1>1. \A o \in Proposals : (\E k \in Decisions(o)' : k[1] = "apply") <=>
         o = p \/ \E k \in Decisions(o) : k[1] = "apply"
  <2>. TAKE o \in Proposals
  <2>. DEFINE key == <<"apply", p, u>>
  <2>1. key[1] = "apply" /\ key[2] = p /\ keys' = keys \cup {key}
    OBVIOUS
  <2>. HIDE DEF key
  <2>. QED
    BY <2>1 DEF Decisions
<1>2. ASSUME NEW o \in Proposals, o = p \/ \E k \in Decisions(o) : k[1] = "apply"
      PROVE  proposals'[o].items = proposals[o].items
  BY <1>2 DEF Decisions, IInv, Consistent, Grows
<1>. QED
  BY <1>1, <1>2 DEF AppliedTo

\* The proposals that were applied to an item are finitely many; with one more there is
\* one more.
LEMMA AppliedFinite ==
    ASSUME NEW i
    PROVE  /\ IsFiniteSet(AppliedTo(i))
           /\ \A p : p \notin AppliedTo(i) =>
                 Cardinality(AppliedTo(i) \cup {p}) = Cardinality(AppliedTo(i)) + 1
<1>1. AppliedTo(i) \subseteq Proposals
  BY DEF AppliedTo
<1>. QED
  BY <1>1, FS_Subset, FS_AddElement, MakerCheckerAssumption

Counts == \A i \in Items : KindOf[i] \in VersionedKinds => versions[i] = Cardinality(AppliedTo(i))

\* A batch that was not applied is applied once.
LEMMA CountOne ==
    ASSUME IInv, Counts, Grows, NEW p \in Proposals, Proposed(p), ApplyKey(p, Nobody) \notin keys,
           keys' = keys \cup {ApplyKey(p, Nobody)},
           NEW i \in Items, KindOf[i] \in VersionedKinds,
           versions'[i] = IF i \in proposals[p].items THEN versions[i] + 1 ELSE versions[i]
    PROVE  versions'[i] = Cardinality(AppliedTo(i)')
<1>1. CASE i \in proposals[p].items
  <2>1. ~OfKind(p, "role") /\ ~OfKind(p, "clearance")
    BY <1>1 DEF OfKind, VersionedKinds
  <2>2. p \notin AppliedTo(i)
    <3>1. SUFFICES ASSUME NEW k \in keys, k[1] = "apply", k[2] = p
                   PROVE  FALSE
      BY DEF AppliedTo, Decisions
    <3>2. k[3] = Nobody
      BY <2>1, <3>1 DEF IInv, Consistent
    <3>3. k = ApplyKey(p, Nobody)
      BY <3>1, <3>2 DEF IInv, TypeOK, Key, ApplyKey
    <3>. QED
      BY <3>3
  <2>3. AppliedTo(i)' = AppliedTo(i) \cup {p}
    BY <1>1, AppliedMore DEF ApplyKey
  <2>. QED
    BY <1>1, <2>2, <2>3, AppliedFinite DEF Counts
<1>2. CASE i \notin proposals[p].items
  <2>1. AppliedTo(i)' = AppliedTo(i)
    BY <1>2, AppliedMore DEF ApplyKey
  <2>. QED
    BY <1>2, <2>1 DEF Counts
<1>. QED
  BY <1>1, <1>2

\* Every step counts.
LEMMA CountStep ==
    ASSUME IInv, Counts, [Next]_vars
    PROVE  Counts'
<1>. SUFFICES ASSUME NEW i \in Items, KindOf[i] \in VersionedKinds
              PROVE  versions'[i] = Cardinality(AppliedTo(i)')
  BY DEF Counts
<1>1. Grows
  BY InductiveStep
<1>2. CASE Rest
  BY <1>1, <1>2, AppliedSame DEF Rest, Counts
<1>3. ASSUME NEW q \in Requests, NEW p \in Proposals, Approves(q, p)
      PROVE  versions'[i] = Cardinality(AppliedTo(i)')
  <2>1. Proposed(p) /\ requests[q].proposal = {p}
    BY <1>3, ApprovalShape
  <2>2. ASSUME NEW kind, Apply(q, p, kind)
        PROVE  versions'[i] = Cardinality(AppliedTo(i)')
    <3>1. /\ ApplyKey(p, Nobody) \notin keys
          /\ keys' = keys \cup {ApplyKey(p, Nobody)}
          /\ versions'[i] = IF i \in proposals[p].items THEN versions[i] + 1 ELSE versions[i]
      BY <2>2 DEF Apply, Publishes, ApplyKey
    <3>. QED
      BY <1>1, <2>1, <3>1, CountOne
  <2>3. CASE PublishCommit(q, p)
    <3>1. versions'[i] = IF i \in proposals[p].items THEN 1 ELSE versions[i]
      BY <2>3 DEF PublishCommit
    <3>2. i \in proposals[p].items => versions[i] = 0
      BY <2>3 DEF PublishCommit, Published, IInv, TypeOK
    <3>3. versions'[i] = IF i \in proposals[p].items THEN versions[i] + 1 ELSE versions[i]
      BY <3>1, <3>2
    <3>4. /\ ApplyKey(p, Nobody) \notin keys
          /\ keys' = keys \cup {ApplyKey(p, Nobody)}
      BY <2>3 DEF PublishCommit, Publishes, ApplyKey
    <3>. QED
      BY <1>1, <2>1, <3>3, <3>4, CountOne
  <2>4. CASE ApproveRole(q, p) \/ ApproveClearance(q, p)
    <3>1. OfKind(p, "role") \/ OfKind(p, "clearance")
      BY <2>1, <2>4, KindIsAll DEF ApproveRole, ApproveClearance, Decides, OfKind
    <3>2. i \notin proposals[p].items
      BY <3>1 DEF OfKind, VersionedKinds
    <3>3. keys' = keys \cup {<<"apply", p, requests[q].user>>} /\ versions' = versions
      BY <2>4 DEF ApproveRole, ApproveClearance, Publishes
    <3>4. AppliedTo(i)' = AppliedTo(i)
      BY <1>1, <2>1, <3>2, <3>3, AppliedMore
    <3>. QED
      BY <3>3, <3>4 DEF Counts
  <2>. QED
    BY <1>3, <2>2, <2>3, <2>4 DEF Approves, ApproveSettings, ApproveVisibility, ApproveMatrix,
       ApproveSla, ApproveTemplate
<1>. QED
  BY <1>2, <1>3, StepKinds

\* version_no counts the batches that were applied to an item: none is applied twice,
\* however many checkers have read it as pending (approveBatch of every service).
THEOREM BatchesApplyOnce == Spec => []VersionCountsBatches
<1>1. Init => Counts
  <2>. SUFFICES ASSUME Init, NEW i \in Items
                PROVE  versions[i] = Cardinality(AppliedTo(i))
    BY DEF Counts
  <2>1. AppliedTo(i) = {}
    BY DEF Init, AppliedTo, Decisions
  <2>. QED
    BY <2>1, FS_EmptySet DEF Init
<1>2. IInv /\ Counts /\ [Next]_vars => Counts'
  BY CountStep
<1>3. Counts => VersionCountsBatches
  BY DEF Counts, VersionCountsBatches, AppliedTo
<1>. QED
  BY <1>1, <1>2, <1>3, ReadingsStayTrue, PTL DEF Spec

(***************************************************************************)
(* Texts in force, copies in memory                                        *)
(***************************************************************************)
\* A publication switches off what it saw and puts its own text in force.
LEMMA TextStep ==
    ASSUME IInv, TextInForce, [Next]_vars
    PROVE  TextInForce'
<1>1. CASE Rest
  BY <1>1 DEF Rest, TextInForce, Published
<1>2. ASSUME NEW q \in Requests, NEW p \in Proposals, Approves(q, p)
      PROVE  TextInForce'
  <2>1. Proposed(p) /\ Knows(q, p)
    BY <1>2, ApprovalShape, InHand
  <2>2. CASE PublishCommit(q, p)
    <3>1. OneKind(proposals[p].items) /\ OfKind(p, "text")
      BY <2>1, <2>2 DEF IInv, Consistent, Knows, PublishCommit
    <3>2. PICK i \in proposals[p].items : TRUE
      BY <3>1 DEF OneKind
    <3>3. i \in Items /\ KindOf[i] = "text"
      BY <2>1, <3>1, KindIsAll DEF OfKind
    <3>4. i \in ItemsOf["text"]
      BY <3>3 DEF ItemsOf, Kinds
    <3>5. force'[i] = {p}
      BY <2>2, <3>3 DEF PublishCommit, InForce
    <3>. QED
      BY <3>4, <3>5 DEF TextInForce
  <2>3. ASSUME NEW kind \in Kinds \ {"text"},
               KindOfProposal(p) = kind,
               \A i \in Items \ proposals[p].items : force'[i] = force[i] /\ versions'[i] = versions[i]
        PROVE  TextInForce'
    <3>1. \A i \in ItemsOf["text"] : i \in Items \ proposals[p].items
      BY <2>1, <2>3, KindIsAll, KindsOfItems DEF Kinds
    <3>2. \A i \in ItemsOf["text"] : force'[i] = force[i] /\ versions'[i] = versions[i]
      BY <2>3, <3>1
    <3>. QED
      BY <3>2 DEF TextInForce, Published
  <2>4. ASSUME NEW kind \in Kinds \ {"text"}, Apply(q, p, kind)
        PROVE  TextInForce'
    BY <2>3, <2>4 DEF Apply, Decides
  <2>5. CASE ApproveRole(q, p)
    BY <2>3, <2>5 DEF ApproveRole, Decides, Kinds, IInv, TypeOK
  <2>6. CASE ApproveClearance(q, p)
    BY <2>3, <2>6 DEF ApproveClearance, Decides, Kinds, IInv, TypeOK
  <2>. QED
    BY <1>2, <2>2, <2>4, <2>5, <2>6 DEF Approves, ApproveSettings, ApproveVisibility, ApproveMatrix,
       ApproveSla, ApproveTemplate, Kinds
<1>. QED
  BY <1>1, <1>2, StepKinds

\* Once a KVKK text is published some text is in force for ever (approveBatch of texts).
THEOREM SomeTextHolds == Spec => []TextInForce
<1>1. Init => TextInForce
  BY KindsOfItems DEF Init, TextInForce, Published, Kinds
<1>2. IInv /\ TextInForce /\ [Next]_vars => TextInForce'
  BY TextStep
<1>. QED
  BY <1>1, <1>2, ReadingsStayTrue, PTL DEF Spec

HasOwn ==
    \A q \in Requests : ReloadInstall(q) =>
          \A p \in requests[q].proposal : \A i \in proposals[p].items :
             HasChange(q, p, i, cache'[i])

\* What is installed in memory has the change of the request that installs it, or one that
\* was applied to the same item after it, however many changes of the table overlap
\* (reload of the matrix and of the visibilities).
THEOREM CopyHasOwnChange == Spec => ReloadHasOwnChange
<1>1. IInv /\ [Next]_vars => [HasOwn]_vars
  <2>. SUFFICES ASSUME IInv, NEW q \in Requests, ReloadInstall(q),
                       NEW p \in requests[q].proposal, NEW i \in proposals[p].items
                PROVE  HasChange(q, p, i, cache'[i])
    BY DEF HasOwn
  <2>1. PICK view \in requests[q].view, o \in requests[q].proposal :
          cache' = [x \in CachedItems |->
                       IF KindOf[x] = KindOfProposal(o) THEN view[x] ELSE cache[x]]
    BY DEF ReloadInstall
  <2>2. o = p
    BY DEF IInv, Known
  <2>3. Proposed(p) /\ p \in Proposals /\ Knows(q, p) /\ requests[q].phase = "install"
    BY InHand DEF ReloadInstall
  <2>4. i \in CachedItems /\ KindOf[i] = KindOfProposal(p)
    BY <2>3, KindIsAll DEF Knows
  <2>5. cache'[i] = view[i]
    BY <2>1, <2>2, <2>4
  <2>6. HasChange(q, p, i, view[i])
    BY <2>3 DEF Knows
  <2>. QED
    BY <2>5, <2>6
<1>. QED
  BY <1>1, ReadingsStayTrue, PTL DEF Spec, ReloadHasOwnChange, HasOwn

(***************************************************************************)
(* Contradictions                                                          *)
(***************************************************************************)
Bounded(p) ==
    /\ IsFiniteSet(Decisions(p))
    /\ Cardinality(Decisions(p)) + Cardinality(Deciding(p)) <= Cardinality(Requests)

\* The requests that decide are finitely many.
LEMMA DecidingFinite ==
    ASSUME NEW p
    PROVE  /\ IsFiniteSet(Deciding(p)) /\ Cardinality(Deciding(p)) \in Nat
           /\ Cardinality(Deciding(p)) <= Cardinality(Requests) /\ Cardinality(Requests) \in Nat
<1>1. Deciding(p) \subseteq Requests
  BY DEF Deciding
<1>. QED
  BY <1>1, FS_Subset, FS_CardinalityType, MakerCheckerAssumption

\* No new decision, and no new request that decides.
LEMMA BoundedStill ==
    ASSUME NEW p \in Proposals, Bounded(p), Decisions(p)' = Decisions(p), Deciding(p)' \subseteq Deciding(p)
    PROVE  Bounded(p)'
<1>1. IsFiniteSet(Deciding(p)') /\ Cardinality(Deciding(p)') <= Cardinality(Deciding(p))
      /\ Cardinality(Deciding(p)') \in Nat
  BY DecidingFinite, FS_Subset, FS_CardinalityType
<1>2. Cardinality(Decisions(p)) \in Nat
  BY FS_CardinalityType DEF Bounded
<1>3. /\ IsFiniteSet(Decisions(p)')
      /\ Cardinality(Decisions(p)') = Cardinality(Decisions(p))
      /\ Cardinality(Decisions(p)) + Cardinality(Deciding(p)) <= Cardinality(Requests)
  BY DEF Bounded
<1>4. Cardinality(Decisions(p)') + Cardinality(Deciding(p)') <= Cardinality(Requests)
  BY <1>1, <1>2, <1>3, DecidingFinite
<1>. QED
  BY <1>3, <1>4 DEF Bounded

\* One decision more, and one request less that decides.
LEMMA BoundedByOne ==
    ASSUME NEW p \in Proposals, Bounded(p), NEW k, Decisions(p)' = Decisions(p) \cup {k},
           NEW q \in Deciding(p), Deciding(p)' = Deciding(p) \ {q}
    PROVE  Bounded(p)'
<1>1. /\ IsFiniteSet(Decisions(p) \cup {k}) /\ Cardinality(Decisions(p)) \in Nat
      /\ Cardinality(Decisions(p) \cup {k}) <= Cardinality(Decisions(p)) + 1
      /\ Cardinality(Decisions(p) \cup {k}) \in Nat
  <2>1. IsFiniteSet(Decisions(p))
    BY DEF Bounded
  <2>2. /\ IsFiniteSet(Decisions(p) \cup {k})
        /\ \/ Cardinality(Decisions(p) \cup {k}) = Cardinality(Decisions(p))
           \/ Cardinality(Decisions(p) \cup {k}) = Cardinality(Decisions(p)) + 1
    BY <2>1, FS_AddElement
  <2>3. Cardinality(Decisions(p)) \in Nat
    BY <2>1, FS_CardinalityType
  <2>. QED
    BY <2>2, <2>3
<1>2. Cardinality(Deciding(p) \ {q}) = Cardinality(Deciding(p)) - 1
  BY DecidingFinite, FS_RemoveElement
<1>3. Cardinality(Decisions(p)) + Cardinality(Deciding(p)) <= Cardinality(Requests)
  BY DEF Bounded
<1>4. Cardinality(Decisions(p) \cup {k}) + Cardinality(Deciding(p) \ {q}) <= Cardinality(Requests)
  BY <1>1, <1>2, <1>3, DecidingFinite
<1>. QED
  BY <1>1, <1>4 DEF Bounded

\* The requests that decide about a proposal become fewer, and no decision is new.
LEMMA QuietBounded ==
    ASSUME \A p \in Proposals : Bounded(p),
           \A k \in keys' \ keys : k[1] \notin {"apply", "reject"}, keys \subseteq keys',
           \A o \in Requests : \/ requests'[o] = requests[o]
                               \/ requests'[o].phase \notin {"decide", "publish"}
    PROVE  \A p \in Proposals : Bounded(p)'
<1>. TAKE p \in Proposals
<1>1. Decisions(p)' = Decisions(p)
  BY DEF Decisions
<1>2. Deciding(p)' \subseteq Deciding(p)
  BY DEF Deciding
<1>. QED
  BY <1>1, <1>2, BoundedStill

\* A decision, of the request that ends with it.
LEMMA DecisionBounded ==
    ASSUME IInv, \A p \in Proposals : Bounded(p),
           NEW q \in Requests, requests[q].phase \in {"decide", "publish"},
           NEW p \in Proposals, requests[q].proposal = {p},
           NEW kind \in {"apply", "reject"}, NEW u, keys' = keys \cup {<<kind, p, u>>},
           requests'[q].phase \notin {"decide", "publish"},
           \A o \in Requests \ {q} : requests'[o] = requests[o]
    PROVE  \A o \in Proposals : Bounded(o)'
<1>. TAKE o \in Proposals
<1>1. CASE o = p
  <2>. DEFINE key == <<kind, p, u>>
  <2>1. key[1] = kind /\ key[2] = p /\ keys' = keys \cup {key}
    OBVIOUS
  <2>. HIDE DEF key
  <2>2. Decisions(p)' = Decisions(p) \cup {key}
    BY <2>1 DEF Decisions
  <2>3. q \in Deciding(p) /\ Deciding(p)' = Deciding(p) \ {q}
    BY DEF Deciding
  <2>. QED
    BY <1>1, <2>2, <2>3, BoundedByOne
<1>2. CASE o # p
  <2>. DEFINE key == <<kind, p, u>>
  <2>1. key[2] = p /\ keys' = keys \cup {key}
    OBVIOUS
  <2>. HIDE DEF key
  <2>2. Decisions(o)' = Decisions(o)
    BY <1>2, <2>1 DEF Decisions
  <2>3. Deciding(o)' \subseteq Deciding(o)
    BY DEF Deciding
  <2>. QED
    BY <2>2, <2>3, BoundedStill
<1>. QED
  BY <1>1, <1>2

\* Every step.
LEMMA BoundedStep ==
    ASSUME IInv, \A p \in Proposals : Bounded(p), [Next]_vars
    PROVE  \A p \in Proposals : Bounded(p)'
<1>1. CASE UNCHANGED vars
  BY <1>1, QuietBounded DEF vars
<1>2. CASE Restart
  BY <1>2, QuietBounded DEF Restart, IdleRequest
<1>3. ASSUME NEW q \in Requests, NEW u \in Users, Proposing(q, u)
      PROVE  \A p \in Proposals : Bounded(p)'
  <2>1. PICK kind \in Kinds, pair \in Pair \cup {NoPair} :
           \E S \in (SUBSET ItemsOf[kind]) \ {{}} : Propose(q, u, S, pair)
    BY <1>3, ProposingAsks
  <2>. QED
    BY <2>1, QuietBounded DEF Propose, Begins, IdleRequest, IInv, TypeOK
<1>4. ASSUME NEW q \in Requests, NEW u \in Users, LowerRead(q, u)
      PROVE  \A p \in Proposals : Bounded(p)'
  BY <1>4, QuietBounded DEF LowerRead, Begins, IdleRequest, IInv, TypeOK
<1>5. ASSUME NEW q \in Requests, NEW u \in Users, NEW p \in Proposals, RevokeRead(q, u, p)
      PROVE  \A o \in Proposals : Bounded(o)'
  BY <1>5, QuietBounded DEF RevokeRead, Begins, IdleRequest, IInv, TypeOK
<1>6. ASSUME NEW q \in Requests, NEW u \in Users, NEW p \in Proposals, ReadProposal(q, u, p)
      PROVE  \A o \in Proposals : Bounded(o)'
  <2>1. /\ keys' = keys /\ requests'[q].proposal = {p}
        /\ \A o \in Requests \ {q} : requests'[o] = requests[o]
        /\ requests[q].phase = "idle"
    BY <1>6 DEF ReadProposal, Begins, IdleRequest, IInv, TypeOK
  <2>. TAKE o \in Proposals
  <2>2. Decisions(o)' = Decisions(o)
    BY <2>1 DEF Decisions
  <2>3. CASE o = p
    <3>1. Decisions(p) = {}
      BY <1>6 DEF ReadProposal, Decidable, Decisions, IInv, Consistent
    <3>2. Cardinality(Decisions(p)') = 0 /\ IsFiniteSet(Decisions(p)')
      BY <2>2, <2>3, <3>1, FS_EmptySet
    <3>3. Deciding(p)' \subseteq Requests
      BY DEF Deciding
    <3>4. Cardinality(Deciding(p)') \in Nat /\ Cardinality(Deciding(p)') <= Cardinality(Requests)
      BY <3>3, FS_Subset, FS_CardinalityType, MakerCheckerAssumption
    <3>. QED
      BY <2>3, <3>2, <3>4 DEF Bounded
  <2>4. CASE o # p
    <3>1. Deciding(o)' \subseteq Deciding(o)
      BY <2>1, <2>4 DEF Deciding
    <3>. QED
      BY <2>2, <3>1, BoundedStill
  <2>. QED
    BY <2>3, <2>4
<1>7. ASSUME NEW q \in Requests, NEW p \in Proposals, Approves(q, p)
      PROVE  \A o \in Proposals : Bounded(o)'
  <2>1. PICK u \in Users \cup {Nobody} : keys' = keys \cup {<<"apply", p, u>>}
    BY <1>7 DEF Approves, ApproveSettings, ApproveVisibility, ApproveMatrix, ApproveSla, ApproveTemplate,
         PublishCommit, ApproveRole, ApproveClearance, Apply, Publishes, ApplyKey, IInv, TypeOK, Request
  <2>. QED
    BY <1>7, <2>1, ApprovalShape, DecisionBounded
<1>8. ASSUME NEW q \in Requests, NEW p \in Proposals, PublishBegin(q, p)
      PROVE  \A o \in Proposals : Bounded(o)'
  <2>1. /\ keys' = keys /\ requests'[q].proposal = requests[q].proposal
        /\ requests[q].phase = "decide" /\ requests'[q].phase = "publish"
        /\ \A o \in Requests \ {q} : requests'[o] = requests[o]
    BY <1>8 DEF PublishBegin, Decides, IInv, TypeOK, Request
  <2>. TAKE o \in Proposals
  <2>2. Decisions(o)' = Decisions(o) /\ Deciding(o)' \subseteq Deciding(o)
    BY <2>1 DEF Decisions, Deciding
  <2>. QED
    BY <2>2, BoundedStill
<1>9. ASSUME NEW q \in Requests, Create(q) \/ Lower(q) \/ Conflict(q) \/ ReloadRead(q) \/ ReloadInstall(q)
      PROVE  \A p \in Proposals : Bounded(p)'
  <2>1. /\ keys' = keys
        /\ requests'[q].phase \notin {"decide", "publish"}
        /\ \A o \in Requests \ {q} : requests'[o] = requests[o]
    BY <1>9 DEF Create, Lower, Conflict, ReloadRead, ReloadInstall, Ends, IdleRequest, IInv, TypeOK, Request
  <2>. QED
    BY <2>1, QuietBounded
<1>10. ASSUME NEW q \in Requests, Reject(q)
       PROVE  \A p \in Proposals : Bounded(p)'
  <2>1. PICK p \in requests[q].proposal : keys' = keys \cup {<<"reject", p, requests[q].user>>}
    BY <1>10 DEF Reject, Publishes
  <2>2. requests[q].proposal = {p} /\ p \in Proposals
    BY InHand DEF IInv, Known
  <2>3. /\ requests[q].phase \in {"decide", "publish"}
        /\ requests'[q].phase \notin {"decide", "publish"}
        /\ \A o \in Requests \ {q} : requests'[o] = requests[o]
    BY <1>10 DEF Reject, Ends, IdleRequest, IInv, TypeOK
  <2>. QED
    BY <2>1, <2>2, <2>3, DecisionBounded
<1>11. ASSUME NEW q \in Requests, Revoke(q)
       PROVE  \A p \in Proposals : Bounded(p)'
  <2>1. PICK p \in requests[q].proposal : keys' = keys \cup {<<"revoke", p, requests[q].user>>}
    BY <1>11 DEF Revoke, Publishes
  <2>2. /\ requests'[q].phase \notin {"decide", "publish"}
        /\ \A o \in Requests \ {q} : requests'[o] = requests[o]
    BY <1>11 DEF Revoke, Ends, IdleRequest, IInv, TypeOK
  <2>. QED
    BY <2>1, <2>2, QuietBounded
<1>12. ASSUME NEW q \in Requests, NEW p \in Proposals, Approving(q, p)
       PROVE  \A o \in Proposals : Bounded(o)'
  BY <1>7, <1>8, <1>12 DEF Approving, Approves
<1>. QED
  BY <1>1, <1>2, <1>3, <1>4, <1>5, <1>6, <1>9, <1>10, <1>11, <1>12 DEF Next

\* A proposal is contradicted only by requests that had read it before it was decided:
\* with those that still can, there are never more than requests in flight.
THEOREM ContradictionsEnd == Spec => []ContradictionsAreBounded
<1>1. Init => \A p \in Proposals : Bounded(p)
  <2>. SUFFICES ASSUME Init, NEW p \in Proposals
                PROVE  Bounded(p)
    OBVIOUS
  <2>1. Decisions(p) = {} /\ Deciding(p) = {}
    BY DEF Init, Decisions, Deciding, IdleRequest
  <2>2. Cardinality(Decisions(p)) = 0 /\ Cardinality(Deciding(p)) = 0 /\ IsFiniteSet(Decisions(p))
    BY <2>1, FS_EmptySet
  <2>. QED
    BY <2>2, DecidingFinite DEF Bounded
<1>2. IInv /\ (\A p \in Proposals : Bounded(p)) /\ [Next]_vars => (\A p \in Proposals : Bounded(p))'
  BY BoundedStep
<1>3. (\A p \in Proposals : Bounded(p)) => ContradictionsAreBounded
  BY DEF Bounded, ContradictionsAreBounded
<1>. QED
  BY <1>1, <1>2, <1>3, ReadingsStayTrue, PTL DEF Spec

================================================================================
