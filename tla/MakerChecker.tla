------------------------------ MODULE MakerChecker ------------------------------
(***************************************************************************)
(* Changes of the administration that one user proposes and another one    *)
(* decides: system settings, field visibility, the action matrix, SLA      *)
(* policies, notification templates, KVKK texts, roles and clearances.     *)
(*                                                                         *)
(* Every service looks for a pending proposal, or reads the proposal it    *)
(* decides, outside the transaction that follows and writes by the id of   *)
(* what it has read. What keeps two decisions apart is, if anything, the   *)
(* unique key of the audit event that the transaction publishes. The       *)
(* matrix that says who may propose and who may decide is itself changed   *)
(* in this way, and read from a copy in the memory of the process.         *)
(*                                                                         *)
(* The roles of a user are loaded when a request begins, together here     *)
(* with the first thing it reads; sessions are left out.                   *)
(***************************************************************************)
EXTENDS Integers, FiniteSets

CONSTANTS
    Users,
    Nobody,         \* no user
    RolesOf,        \* the roles a user has from the start
    Rank,           \* getRolePrivilegeRank
    Items,          \* what can be changed: keys, cells, entries, codes, assignments
    KindOf,         \* the service that changes an item
    EntryOf,        \* the kind that an entry of the matrix is about
    GrantOf,        \* the user and the role of an assignment
    Default,        \* DEFAULT_ACTION_MATRIX: the maker and the checker of each kind
    Proposals,      \* change batches, role assignments and clearance requests, in order
    Requests,       \* the slots of requests in flight
    Scenarios       \* bound for TLC: how many proposals of each kind a behaviour makes

Kinds == {"setting", "visibility", "matrix", "sla", "template", "text", "role", "clearance"}

ItemsOf == [kind \in Kinds |-> {i \in Items : KindOf[i] = kind}]

Roles == DOMAIN Rank

Pair == [maker : Roles, checker : Roles]

ASSUME MakerCheckerAssumption ==
    /\ Nobody \notin Users
    /\ RolesOf \in [Users -> SUBSET Roles]
    /\ Rank \in [Roles -> Nat]
    /\ KindOf \in [Items -> Kinds]
    /\ EntryOf \in [ItemsOf["matrix"] -> Kinds]
    /\ GrantOf \in [ItemsOf["role"] -> Users \X Roles]
    /\ Default \in [Kinds -> Pair]
    /\ Proposals \subseteq Nat
    /\ IsFiniteSet(Items) /\ IsFiniteSet(Proposals) /\ IsFiniteSet(Requests)
    /\ Scenarios \subseteq [Kinds -> Nat]

VARIABLES
    proposals,  \* the status of each, its items, who made it and who approved it
    force,      \* the proposals whose value is in force for an item
    versions,   \* version_no of an item
    keys,       \* the unique keys of the audit outbox
    cache,      \* the copy of the matrix and of the visibilities in memory
    requests    \* what each request has read

vars == <<proposals, force, versions, keys, cache, requests>>

NoPair == [maker |-> "none", checker |-> "none"]

Statuses == {"none", "PENDING", "APPROVED", "REJECTED"}

Proposal == [status : Statuses, items : SUBSET Items, maker : Users \cup {Nobody},
             approver : Users \cup {Nobody}, pair : Pair \cup {NoPair}]

NoProposal == [status |-> "none", items |-> {}, maker |-> Nobody,
               approver |-> Nobody, pair |-> NoPair]

\* The keys of a decision: with the user who takes it, or for whoever takes it.
Key == {"apply", "reject", "revoke"} \X Proposals \X (Users \cup {Nobody})

CachedItems == ItemsOf["matrix"] \cup ItemsOf["visibility"]

\* What is in memory of the tables of the matrix and of the visibilities.
Copy == [CachedItems -> [version : Nat, force : SUBSET Proposals]]

Table == [i \in CachedItems |-> [version |-> versions[i], force |-> force[i]]]

Request == [phase : {"idle", "propose", "decide", "publish", "revoke", "lower", "reload", "install"},
            user : Users \cup {Nobody},
            about : SUBSET Items,
            pair : Pair \cup {NoPair},
            proposal : SUBSET Proposals,
            seen : SUBSET Items,
            view : SUBSET Copy,
            wrote : [CachedItems -> Nat]]   \* history: the versions after its own change

IdleRequest == [phase |-> "idle", user |-> Nobody, about |-> {}, pair |-> NoPair,
                proposal |-> {}, seen |-> {}, view |-> {},
                wrote |-> [i \in CachedItems |-> 0]]

TypeOK ==
    /\ proposals \in [Proposals -> Proposal]
    /\ force \in [Items -> SUBSET Proposals]
    /\ versions \in [Items -> Nat]
    /\ keys \subseteq Key
    /\ cache \in Copy
    /\ requests \in [Requests -> Request]

(***************************************************************************)
(* Roles and the matrix                                                    *)
(***************************************************************************)
\* loadAuthenticatedUser: an assignment counts while it is active.
RolesNow(u) == RolesOf[u] \cup {r \in Roles : \E i \in ItemsOf["role"] :
                                               GrantOf[i] = <<u, r>> /\ force[i] # {}}

\* getEntry, from the copy in memory.
Entry(kind) ==
    LET changed == {i \in ItemsOf["matrix"] : EntryOf[i] = kind /\ cache[i].force # {}}
    IN  IF changed = {} THEN Default[kind]
        ELSE LET i == CHOOSE i \in changed : TRUE
             IN  proposals[CHOOSE p \in cache[i].force : TRUE].pair

\* assertMaker.
IsMaker(u, kind) == Entry(kind).maker \in RolesNow(u)

\* Mutant: who has proposed may decide.
MayDecideOwn(u, p, kind) == Entry(kind).checker \in RolesNow(u)

\* assertChecker.
MayDecide(u, p, kind) == u # proposals[p].maker /\ Entry(kind).checker \in RolesNow(u)

\* assertValidRolePair.
ValidPair(pair) == pair.maker # pair.checker /\ Rank[pair.checker] >= Rank[pair.maker]

(***************************************************************************)
(* Proposing                                                               *)
(***************************************************************************)
Is(p, status) == proposals[p].status = status

PendingOn(i) == {p \in Proposals : Is(p, "PENDING") /\ i \in proposals[p].items}

Begins(q, request) ==
    /\ requests[q].phase = "idle"
    /\ requests' = [requests EXCEPT ![q] = request]
    /\ UNCHANGED <<proposals, force, versions, keys, cache>>

Ends(q) == requests' = [requests EXCEPT ![q] = IdleRequest]

Free(i) == PendingOn(i) = {}

About(S, kind) == \E i \in S : KindOf[i] = kind

\* The proposals of a kind that are made or being made.
Made(kind) ==
    Cardinality({p \in Proposals : About(proposals[p].items, kind)})
    + Cardinality({q \in Requests : requests[q].phase = "propose" /\ About(requests[q].about, kind)})

Room(kind) ==
    \E scenario \in Scenarios :
       /\ Made(kind) < scenario[kind]
       /\ \A other \in Kinds \ {kind} : Made(other) <= scenario[other]

\* The request can be made: the guard that every service shares.
MayPropose(q, u, kind) == requests[q].phase = "idle" /\ IsMaker(u, kind) /\ Room(kind)

Propose(q, u, S, pair) ==
    /\ \A i \in S : Free(i)
    /\ Begins(q, [IdleRequest EXCEPT !.phase = "propose", !.user = u,
                                     !.about = S, !.pair = pair])

ProposeSettings(q, u) ==
    /\ MayPropose(q, u, "setting")
    /\ \E S \in (SUBSET ItemsOf["setting"]) \ {{}} : Propose(q, u, S, NoPair)

ProposeVisibility(q, u) ==
    /\ MayPropose(q, u, "visibility")
    /\ \E S \in (SUBSET ItemsOf["visibility"]) \ {{}} : Propose(q, u, S, NoPair)

\* That the entry changes is seen in the copy.
ProposeMatrix(q, u) ==
    /\ MayPropose(q, u, "matrix")
    /\ \E i \in ItemsOf["matrix"], pair \in Pair :
          /\ ValidPair(pair) /\ pair # Entry(EntryOf[i])
          /\ Propose(q, u, {i}, pair)

ProposeSla(q, u) ==
    MayPropose(q, u, "sla") /\ \E i \in ItemsOf["sla"] : Propose(q, u, {i}, NoPair)

ProposeTemplate(q, u) ==
    MayPropose(q, u, "template") /\ \E i \in ItemsOf["template"] : Propose(q, u, {i}, NoPair)

\* A version code is published once.
Published(i) == versions[i] > 0

ProposeText(q, u) ==
    /\ MayPropose(q, u, "text")
    /\ \E i \in ItemsOf["text"] : ~Published(i) /\ Propose(q, u, {i}, NoPair)

AssignRole(q, u) ==
    /\ MayPropose(q, u, "role")
    /\ \E i \in ItemsOf["role"] : force[i] = {} /\ Propose(q, u, {i}, NoPair)

\* updateClearance, to STRICTLY_CONFIDENTIAL: an administrator may propose it as well.
ElevateClearance(q, u) ==
    /\ requests[q].phase = "idle" /\ Room("clearance")
    /\ IsMaker(u, "clearance") \/ "ADMIN" \in RolesNow(u)
    /\ \E i \in ItemsOf["clearance"] : force[i] = {} /\ Propose(q, u, {i}, NoPair)

\* The transaction that creates the proposal.
Create(q) ==
    LET r == requests[q]
        new == {p \in Proposals : Is(p, "none") /\ \A o \in Proposals : Is(o, "none") => p <= o}
    IN  /\ r.phase = "propose"
        /\ \E p \in new : proposals' = [proposals EXCEPT ![p] =
              [status |-> "PENDING", items |-> r.about, maker |-> r.user,
               approver |-> Nobody, pair |-> r.pair]]
        /\ Ends(q)
        /\ UNCHANGED <<force, versions, keys, cache>>

(***************************************************************************)
(* Deciding                                                                *)
(***************************************************************************)
KindOfProposal(p) == KindOf[CHOOSE i \in proposals[p].items : TRUE]

\* Mutant: a proposal is decided whatever its status.
DecidableAlways(p) == ~Is(p, "none")

Decidable(p) == Is(p, "PENDING")

\* The proposal is read; the decision follows in a transaction of its own.
ReadProposal(q, u, p) ==
    /\ Decidable(p)
    /\ MayDecide(u, p, KindOfProposal(p))
    /\ Begins(q, [IdleRequest EXCEPT !.phase = "decide", !.user = u, !.proposal = {p}])

Decides(q, p, kind) ==
    /\ requests[q].phase = "decide" /\ requests[q].proposal = {p}
    /\ KindOfProposal(p) = kind

\* The whole transaction is refused if its key exists.
Publishes(key) == key \notin keys /\ keys' = keys \cup {key}

\* The status of the batch, or revoked_at of the assignment.
Reject(q) ==
    /\ requests[q].phase = "decide"
    /\ \E p \in requests[q].proposal :
          /\ Publishes(<<"reject", p, requests[q].user>>)
          /\ proposals' = [proposals EXCEPT ![p].status = "REJECTED"]
    /\ Ends(q)
    /\ UNCHANGED <<force, versions, cache>>

\* Mutant: the key names the user, as it does for roles and clearances.
ApplyKeyOfUser(p, u) == <<"apply", p, u>>

ApplyKey(p, u) == <<"apply", p, Nobody>>

\* Mutant: the status of an assignment, on a batch.
ApprovedActive(p, u) == [proposals EXCEPT ![p].status = "ACTIVE", ![p].approver = u]

Approved(p, u) == [proposals EXCEPT ![p].status = "APPROVED", ![p].approver = u]

\* The items of a batch get their values and versions, and the batch is approved.
Apply(q, p, kind) ==
    LET u == requests[q].user
        S == proposals[p].items
    IN  /\ Decides(q, p, kind)
        /\ Publishes(ApplyKey(p, u))
        /\ force' = [i \in Items |-> IF i \in S THEN {p} ELSE force[i]]
        /\ versions' = [i \in Items |-> IF i \in S THEN versions[i] + 1 ELSE versions[i]]
        /\ proposals' = Approved(p, u)

ApproveSettings(q, p) == Apply(q, p, "setting") /\ Ends(q) /\ UNCHANGED cache

ApproveSla(q, p) == Apply(q, p, "sla") /\ Ends(q) /\ UNCHANGED cache

ApproveTemplate(q, p) == Apply(q, p, "template") /\ Ends(q) /\ UNCHANGED cache

\* Mutant: the copy is read again before the transaction commits.
ReloadsEarly(q) ==
    /\ requests' = [requests EXCEPT ![q].phase = "install", ![q].view = {Table},
                        ![q].wrote = [i \in CachedItems |-> versions'[i]]]
    /\ cache' = cache

\* The copy in memory is read again after the commit.
Reloads(q) ==
    /\ requests' = [requests EXCEPT ![q].phase = "reload",
                        ![q].wrote = [i \in CachedItems |-> versions'[i]]]
    /\ cache' = cache

ApproveVisibility(q, p) == Apply(q, p, "visibility") /\ Reloads(q)

ApproveMatrix(q, p) == Apply(q, p, "matrix") /\ ValidPair(proposals[p].pair) /\ Reloads(q)

ReloadRead(q) ==
    /\ requests[q].phase = "reload"
    /\ requests' = [requests EXCEPT ![q].phase = "install", ![q].view = {Table}]
    /\ UNCHANGED <<proposals, force, versions, keys, cache>>

\* Of the two copies, the one that the service keeps.
ReloadInstall(q) ==
    /\ requests[q].phase = "install"
    /\ \E view \in requests[q].view, p \in requests[q].proposal :
          cache' = [i \in CachedItems |->
                       IF KindOf[i] = KindOfProposal(p) THEN view[i] ELSE cache[i]]
    /\ Ends(q)
    /\ UNCHANGED <<proposals, force, versions, keys>>

\* The active texts, as the first statement of the transaction sees them.
PublishBegin(q, p) ==
    /\ Decides(q, p, "text")
    /\ \A i \in proposals[p].items : ~Published(i)
    /\ requests' = [requests EXCEPT ![q].phase = "publish",
                        ![q].seen = {i \in ItemsOf["text"] : force[i] # {}}]
    /\ UNCHANGED <<proposals, force, versions, keys, cache>>

\* Mutant: the texts in force are switched off after the new one is created.
InForceSwapped(q, p, i) ==
    IF i \in requests[q].seen \cup proposals[p].items THEN {} ELSE force[i]

\* What the transaction leaves of the texts: those it saw are off, its own is on.
InForce(q, p, i) ==
    IF i \in proposals[p].items THEN {p}
    ELSE IF i \in requests[q].seen THEN {} ELSE force[i]

PublishCommit(q, p) ==
    /\ requests[q].phase = "publish" /\ requests[q].proposal = {p}
    /\ \A i \in proposals[p].items : ~Published(i)
    /\ Publishes(ApplyKey(p, requests[q].user))
    /\ force' = [i \in Items |-> InForce(q, p, i)]
    /\ versions' = [i \in Items |-> IF i \in proposals[p].items THEN 1 ELSE versions[i]]
    /\ proposals' = Approved(p, requests[q].user)
    /\ Ends(q)
    /\ UNCHANGED cache

\* The assignment becomes active; a revocation stays written on it.
ApproveRole(q, p) ==
    LET u == requests[q].user
    IN  /\ Decides(q, p, "role")
        /\ Publishes(<<"apply", p, u>>)
        /\ force' = [i \in Items |-> IF i \in proposals[p].items THEN force[i] \cup {p} ELSE force[i]]
        /\ proposals' = IF Is(p, "REJECTED") THEN [proposals EXCEPT ![p].approver = u]
                        ELSE Approved(p, u)
        /\ Ends(q)
        /\ UNCHANGED <<versions, cache>>

ApproveClearance(q, p) ==
    LET u == requests[q].user
    IN  /\ Decides(q, p, "clearance")
        /\ Publishes(<<"apply", p, u>>)
        /\ force' = [i \in Items |-> IF i \in proposals[p].items THEN {p} ELSE force[i]]
        /\ proposals' = Approved(p, u)
        /\ Ends(q)
        /\ UNCHANGED <<versions, cache>>

\* The key exists, or the version code: the transaction is rolled back.
Conflict(q) ==
    LET r == requests[q]
    IN  /\ \/ r.phase = "decide" /\ \E p \in r.proposal :
                \/ <<"reject", p, r.user>> \in keys
                \/ <<"apply", p, r.user>> \in keys
                \/ ApplyKey(p, r.user) \in keys
           \/ r.phase = "publish" /\ \E p \in r.proposal :
                \/ ApplyKey(p, r.user) \in keys
                \/ \E i \in proposals[p].items : Published(i)
           \/ r.phase = "revoke" /\ \E p \in r.proposal : <<"revoke", p, r.user>> \in keys
        /\ Ends(q)
        /\ UNCHANGED <<proposals, force, versions, keys, cache>>

(***************************************************************************)
(* What one user does alone                                                *)
(***************************************************************************)
RevokeRead(q, u, p) ==
    /\ IsMaker(u, "role")
    /\ \E i \in ItemsOf["role"] : p \in force[i]
    /\ Begins(q, [IdleRequest EXCEPT !.phase = "revoke", !.user = u, !.proposal = {p}])

Revoke(q) ==
    /\ requests[q].phase = "revoke"
    /\ \E p \in requests[q].proposal :
          /\ Publishes(<<"revoke", p, requests[q].user>>)
          /\ proposals' = [proposals EXCEPT ![p].status = "REJECTED"]
          /\ force' = [i \in Items |-> force[i] \ {p}]
    /\ Ends(q)
    /\ UNCHANGED <<versions, cache>>

\* updateClearance to a lower level.
LowerRead(q, u) ==
    /\ "ADMIN" \in RolesNow(u)
    /\ \E i \in ItemsOf["clearance"] :
          /\ force[i] # {}
          /\ Begins(q, [IdleRequest EXCEPT !.phase = "lower", !.user = u, !.about = {i}])

Lower(q) ==
    /\ requests[q].phase = "lower"
    /\ force' = [i \in Items |-> IF i \in requests[q].about THEN {} ELSE force[i]]
    /\ Ends(q)
    /\ UNCHANGED <<proposals, versions, keys, cache>>

\* The process dies and starts again: onModuleInit reads both tables.
Restart ==
    /\ \E q \in Requests : requests[q].phase # "idle"
    /\ requests' = [q \in Requests |-> IdleRequest]
    /\ cache' = Table
    /\ UNCHANGED <<proposals, force, versions, keys>>

(***************************************************************************)
(* Specification                                                           *)
(***************************************************************************)
Init ==
    /\ proposals = [p \in Proposals |-> NoProposal]
    /\ force = [i \in Items |-> {}]
    /\ versions = [i \in Items |-> 0]
    /\ keys = {}
    /\ cache = [i \in CachedItems |-> [version |-> 0, force |-> {}]]
    /\ requests = [q \in Requests |-> IdleRequest]

Proposing(q, u) ==
    \/ ProposeSettings(q, u) \/ ProposeVisibility(q, u) \/ ProposeMatrix(q, u)
    \/ ProposeSla(q, u) \/ ProposeTemplate(q, u) \/ ProposeText(q, u)
    \/ AssignRole(q, u) \/ ElevateClearance(q, u)

Approving(q, p) ==
    \/ ApproveSettings(q, p) \/ ApproveVisibility(q, p) \/ ApproveMatrix(q, p)
    \/ ApproveSla(q, p) \/ ApproveTemplate(q, p)
    \/ PublishBegin(q, p) \/ PublishCommit(q, p)
    \/ ApproveRole(q, p) \/ ApproveClearance(q, p)

Next ==
    \/ \E q \in Requests :
          \/ \E u \in Users : Proposing(q, u) \/ LowerRead(q, u)
          \/ \E u \in Users, p \in Proposals : ReadProposal(q, u, p) \/ RevokeRead(q, u, p)
          \/ \E p \in Proposals : Approving(q, p)
          \/ Create(q) \/ Reject(q) \/ Revoke(q) \/ Lower(q) \/ Conflict(q)
          \/ ReloadRead(q) \/ ReloadInstall(q)
    \/ Restart

Spec == Init /\ [][Next]_vars

(***************************************************************************)
(* Properties                                                              *)
(***************************************************************************)
\* What is in force was approved by another user than the one who proposed it, though
\* decisions overlap and users gain and lose roles (assertChecker).
FourEyes ==
    \A i \in Items : \A p \in force[i] :
       proposals[p].approver \notin {Nobody, proposals[p].maker}

VersionedKinds == {"setting", "visibility", "matrix", "sla", "template", "text"}

Decisions(p) == {k \in keys : k[1] \in {"apply", "reject"} /\ k[2] = p}

\* No batch is applied twice: version_no counts the batches that were applied, although
\* two checkers can have read the same batch as pending. The unique key of the audit
\* event, which does not name the checker, stops the second (approveBatch).
VersionCountsBatches ==
    \A i \in Items : KindOf[i] \in VersionedKinds =>
       versions[i] = Cardinality({p \in Proposals :
           i \in proposals[p].items /\ \E k \in Decisions(p) : k[1] = "apply"})

Deciding(p) == {q \in Requests : requests[q].phase \in {"decide", "publish"}
                                /\ p \in requests[q].proposal}

\* A decision can be contradicted or repeated, but only by requests that had read the
\* proposal before the first one: once those have ended, the proposal is settled
\* (status PENDING, which every decision looks for before its transaction).
ContradictionsAreBounded ==
    \A p \in Proposals : Cardinality(Decisions(p)) + Cardinality(Deciding(p)) <= Cardinality(Requests)

\* Once a KVKK text is published some text is always in force, so that reports can be
\* made, although publications that overlap switch off what they saw (approveBatch of
\* KVKK texts). Two can be in force then.
TextInForce ==
    (\E i \in ItemsOf["text"] : Published(i)) => \E i \in ItemsOf["text"] : force[i] # {}

\* The row of a copy shows the change that the request has committed, or a later one.
HasChange(q, p, i, row) ==
    \/ row.version = requests[q].wrote[i] /\ row.force = {p}
    \/ row.version > requests[q].wrote[i]

\* Whoever changes the matrix or the visibilities has the change, or one that was applied
\* after it, in memory when the request ends, although other changes of the same table are
\* committed and installed meanwhile (reload, after the transaction of approveBatch).
ReloadHasOwnChange ==
    [][\A q \in Requests : ReloadInstall(q) =>
          \A p \in requests[q].proposal : \A i \in proposals[p].items :
             HasChange(q, p, i, cache'[i])]_vars

================================================================================
