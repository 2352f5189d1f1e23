----------------------------- MODULE CaseWorkflow ------------------------------
(***************************************************************************)
(* The case engine: opening a case, executing transitions, completing and  *)
(* delegating the tasks a transition creates, and changing a case's        *)
(* confidentiality, all of them API requests served concurrently against   *)
(* one PostgreSQL database under READ COMMITTED.                           *)
(*                                                                         *)
(* A request runs in the steps at which others can interleave:             *)
(*   Submit  - the reads before the transaction (the snapshot),            *)
(*   Begin   - the advisory lock on the case, the reads and every check    *)
(*             inside the transaction,                                     *)
(*   Commit  - the conditional UPDATE on the version, the unique keys and  *)
(*             all the rows of the transaction, which appear together.     *)
(* A transaction that fails, or whose process dies, leaves no row behind.  *)
(* The rows of notification_events and document_access_grants, which no    *)
(* guard of these handlers reads, are left out.                            *)
(***************************************************************************)
EXTENDS WorkflowMap, Integers, Sequences, FiniteSets

CONSTANTS
    Cases,          \* the reports a case can be opened for, and their cases
    Users,          \* the users who call the API
    Slots,          \* the requests that can be in flight at once
    None,           \* no user, no case, no slot
    System,         \* the actor of system transitions
    RolesOf,        \* the roles of each user
    ClearanceOf,    \* the clearance rank of each user
    Active,         \* the users whose account and role assignments are active
    Members,        \* the ids of the active council members, in ascending order
    Levels,         \* the clearance ranks in use
    ReportLevel,    \* the confidentiality rank each report is submitted with
    Operations,     \* the operations clients call
    Offered,        \* the commands they send
    Retries,        \* do clients send a request again under a key already used?
    Strays,         \* do they send commands that what they see already forbids?
    MaxEntries, MaxLevelChanges, MaxDelegations       \* bounds for TLC

ASSUME UsersAssumption ==
    /\ None \notin Users \cup Cases \cup Slots
    /\ System \notin Users
    /\ RolesOf \in [Users -> SUBSET Roles]
    /\ Levels \subseteq Nat
    /\ ClearanceOf \in [Users -> Levels]
    /\ ReportLevel \in [Cases -> Levels]
    /\ Active \subseteq Users
    /\ Members \in Seq(Users)

ASSUME BoundsAssumption ==
    /\ MaxEntries \in Nat /\ MaxLevelChanges \in Nat /\ MaxDelegations \in Nat
    /\ Retries \in BOOLEAN /\ Strays \in BOOLEAN /\ Offered \subseteq Commands

VARIABLES
    cases,        \* the cases table
    transitions,  \* the case_transitions table, in the order of insertion
    tasks,        \* the tasks table
    outbox,       \* the idempotency keys of audit_outbox
    requests,     \* what each request in flight asked and has read
    holder        \* the request that holds the advisory lock of each case

vars == <<cases, transitions, tasks, outbox, requests, holder>>

(***************************************************************************)
(* Types                                                                   *)
(***************************************************************************)
\* Tags of the keys clients choose; the audit keys and the keys of tasks and
\* votes put a prefix before a key, so that they never meet.
KeyTags == {"api", "open", "task-complete", "task-completed", "confidentiality",
            "decision-unanimity", "member-objection"}
Keys == KeyTags \X Nat

CaseRow == [state : States \cup {"unopened"}, version : Nat, level : Levels,
            closed : BOOLEAN, rapporteur : Users \cup {None},
            owner : Users \cup {None}]

Entry == [case : Cases, from : States, to : States,
          command : Commands \cup {"open_case"},
          actor : Users \cup {System}, key : Keys]

Statuses == {"PENDING", "COMPLETED", "DELEGATED"}

Task == [case : Cases, type : TaskTypes, assignee : Users \cup {None},
         status : Statuses, by : Nat, from : Nat, doneBy : Users \cup {None}]

Kinds == {"none", "open", "transition", "complete", "delegate",
          "confidentiality", "decision"}

Request == [kind : Kinds, phase : {"idle", "submitted", "validated"},
            case : Cases \cup {None}, actor : Users \cup {System, None},
            command : Commands \cup {"none"}, key : Keys,
            arg : Users \cup {None}, filled : BOOLEAN, task : Nat, level : Nat,
            state : States \cup {"unopened"}, version : Nat]

Idle == [kind |-> "none", phase |-> "idle", case |-> None, actor |-> None,
         command |-> "none", key |-> <<"api", 0>>, arg |-> None, filled |-> FALSE,
         task |-> 0, level |-> 0, state |-> "unopened", version |-> 0]

TypeOK ==
    /\ cases \in [Cases -> CaseRow]
    /\ transitions \in Seq(Entry)
    /\ tasks \in Seq(Task)
    /\ outbox \subseteq Keys
    /\ requests \in [Slots -> Request]
    /\ holder \in [Cases -> Slots \cup {None}]

(***************************************************************************)
(* Policy: clearance, roles, assignment and the ABAC scopes of queries     *)
(***************************************************************************)
Cleared(u, c) == ClearanceOf[u] >= cases[c].level

Opened(c) == cases[c].state # "unopened"

\* buildCaseScope: a rapporteur sees the cases assigned to them, everyone else
\* the cases within their clearance (all action owners are of the company here).
InCaseScope(u, c) ==
    /\ Opened(c)
    /\ RolesOf[u] # {}
    /\ Cleared(u, c)
    /\ "rapporteur" \in RolesOf[u] => cases[c].rapporteur = u

\* buildTaskScope: one assignment-scoped role narrows the query to the user's
\* own tasks; an action owner sees only tasks that carry their company.
InTaskScope(u, t) ==
    /\ RolesOf[u] # {}
    /\ Cleared(u, tasks[t].case)
    /\ RolesOf[u] \cap {"council_chair", "council_member", "board_chair", "rapporteur"} # {}
          => tasks[t].assignee = u
    /\ "action_owner" \in RolesOf[u] => tasks[t].type = "action_response_task"

\* assertUserCanCompleteTask and assertUserCanDelegateTask.
Holds(u, t) ==
    IF tasks[t].assignee = None THEN TaskRole(tasks[t].type) \in RolesOf[u]
    ELSE tasks[t].assignee = u

\* assertActiveUserWithRole and assertUserClearanceForCase, of the target user.
Assignable(u, role, c) ==
    /\ u \in Active
    /\ role \in RolesOf[u]
    /\ Cleared(u, c)

\* TransitionValidators.validate followed by validateAsyncPreconditions; only the
\* unanimity of the council, which the votes decide, is not decided here.
Permitted(r) ==
    LET c == r.case
        edge == TransitionMap[r.command]
        system == \/ r.command \in SystemCommands
                  \/ r.actor = System /\ r.command \in SystemAllowed
    IN  /\ cases[c].state = edge.from
        /\ ~system => /\ r.actor \in Users
                      /\ Cleared(r.actor, c)
                      /\ edge.role \in RolesOf[r.actor] \cup {AnyRole}
        /\ r.command \in RapporteurOnly => cases[c].rapporteur = r.actor
        /\ r.command \in OwnerOnly => cases[c].owner = r.actor
        /\ r.command \in ReasonCommands \cup MetadataCommands => r.filled
        /\ r.command \in AssignRapporteur => Assignable(r.arg, "rapporteur", c)
        /\ r.command \in AssignOwner => Assignable(r.arg, "action_owner", c)

(***************************************************************************)
(* Keys, slots and locks                                                   *)
(***************************************************************************)
KeyTaken(key) == \E i \in 1..Len(transitions) : transitions[i].key = key

Busy(s) == requests[s].phase # "idle"

UsedNumbers == {key[2] : key \in outbox}
                 \cup {requests[s].key[2] : s \in {x \in Slots : Busy(x)}}

\* A client draws a new key, or sends again one that it or another client used.
ClientNumbers ==
    LET used == UsedNumbers
        new == {n \in {m + 1 : m \in used \cup {0}} :
                  n \notin used /\ 1..(n - 1) \subseteq used}
    IN  IF Retries THEN used \cup new ELSE new

CanSubmit(op, s) == op \in Operations /\ ~Busy(s) /\ Len(transitions) < MaxEntries

Put(s, r) == requests' = [requests EXCEPT ![s] = r]
Finish(s) == Put(s, Idle)

\* Mutant: a session lock, which outlives the transaction.
SessionLock(s) == UNCHANGED holder

\* pg_advisory_xact_lock is released with the transaction.
Release(s) == holder' = [c \in Cases |-> IF holder[c] = s THEN None ELSE holder[c]]

tables == <<cases, transitions, tasks, outbox>>

\* The answer is an error: the transaction rolled back, or never began.
Refuse(s) == Finish(s) /\ Release(s) /\ UNCHANGED tables

(***************************************************************************)
(* Opening a case                                                          *)
(***************************************************************************)
OpenSubmit(s, u, c, k) ==
    /\ CanSubmit("open", s)
    /\ "council_secretary" \in RolesOf[u]
    /\ <<"open", k>> \notin outbox
    /\ ~Opened(c)
    /\ Cleared(u, c)
    /\ Put(s, [Idle EXCEPT !.kind = "open", !.phase = "validated", !.case = c,
                           !.actor = u, !.key = <<"api", k>>])
    /\ UNCHANGED <<tables, holder>>

\* Mutant: reportId is not unique.
OpenTwice(s) ==
    LET r == requests[s]
    IN  ~KeyTaken(r.key) /\ <<"open", r.key[2]>> \notin outbox

\* Three keys are unique: the report of a case, the key of a transition, the
\* key of an audit event.
OpenAllowed(s) ==
    LET r == requests[s]
    IN  /\ ~Opened(r.case)
        /\ ~KeyTaken(r.key)
        /\ <<"open", r.key[2]>> \notin outbox

OpenCommit(s) ==
    LET r == requests[s]
    IN  /\ r.kind = "open" /\ r.phase = "validated"
        /\ OpenAllowed(s)
        /\ cases' = [cases EXCEPT ![r.case].state = "report_submitted"]
        /\ transitions' = Append(transitions,
               [case |-> r.case, from |-> "report_submitted", to |-> "report_submitted",
                command |-> "open_case", actor |-> r.actor, key |-> r.key])
        /\ outbox' = outbox \cup {<<"open", r.key[2]>>}
        /\ Finish(s)
        /\ UNCHANGED <<tasks, holder>>

(***************************************************************************)
(* Transitions                                                             *)
(***************************************************************************)
\* TransitionService.execute up to its transaction.
TransitionSubmit(s, u, c, cmd, k, arg, filled) ==
    /\ CanSubmit("transition", s)
    /\ InCaseScope(u, c)
    /\ ~KeyTaken(<<"api", k>>)
    /\ Put(s, [Idle EXCEPT !.kind = "transition", !.phase = "submitted", !.case = c,
                           !.actor = u, !.command = cmd, !.key = <<"api", k>>,
                           !.arg = arg, !.filled = filled,
                           !.state = cases[c].state, !.version = cases[c].version])
    /\ UNCHANGED <<tables, holder>>

LockFree(s) == holder[requests[s].case] = None
TakeLock(s) == holder' = [holder EXCEPT ![requests[s].case] = s]

\* executeInTransaction from its first read to its UPDATE.
Unchanged(s) ==
    LET r == requests[s]
    IN  cases[r.case].state = r.state /\ cases[r.case].version = r.version

Accept(s) == Put(s, [requests[s] EXCEPT !.phase = "validated"])

TransitionBegin(s) ==
    LET r == requests[s]
    IN  /\ r.kind = "transition" /\ r.phase = "submitted"
        /\ LockFree(s)
        /\ ~KeyTaken(r.key)
        /\ Unchanged(s)
        /\ Permitted(r)
        /\ Accept(s) /\ TakeLock(s)
        /\ UNCHANGED tables

TransitionReject(s) ==
    LET r == requests[s]
    IN  /\ r.kind = "transition" /\ r.phase = "submitted"
        /\ LockFree(s)
        /\ ~KeyTaken(r.key)
        /\ ~Unchanged(s) \/ ~Permitted(r) \/ r.command = "create_decision_draft"
        /\ Refuse(s)

\* The key was committed by another request between the first look and the lock:
\* the answer is a success, the result of that transition.
TransitionReplay(s) ==
    LET r == requests[s]
    IN  /\ r.kind = "transition" /\ r.phase = "submitted"
        /\ LockFree(s)
        /\ KeyTaken(r.key)
        /\ Refuse(s)

(***************************************************************************)
(* The rows a transition writes: case, transition, tasks, audit event      *)
(***************************************************************************)
\* Mutant: the command is stored as the state.
MovedToCommand(r) == [cases[r.case] EXCEPT !.state = r.command, !.version = @ + 1]

MovedCase(r) ==
    [cases[r.case] EXCEPT
        !.state = TransitionMap[r.command].to,
        !.version = @ + 1,
        !.closed = @ \/ r.command \in ClosingCommands,
        !.rapporteur = IF r.command \in AssignRapporteur THEN r.arg ELSE @,
        !.owner = IF r.command \in AssignOwner THEN r.arg ELSE @]

\* Mutant: no task for an assignee who is not known.
KnownAssignees(c, type) ==
    CASE type = "member_approval_task"   -> Members
      [] type = "rapporteur_report_task" -> SelectSeq(<<cases[c].rapporteur>>, LAMBDA u : u # None)
      [] type = "action_response_task"   -> SelectSeq(<<cases[c].owner>>, LAMBDA u : u # None)
      [] OTHER                           -> <<None>>

\* createTasksForTransition is given the case as it was read before the UPDATE.
Assignees(c, type) ==
    CASE type = "member_approval_task"   -> Members
      [] type = "rapporteur_report_task" -> <<cases[c].rapporteur>>
      [] type = "action_response_task"   -> <<cases[c].owner>>
      [] OTHER                           -> <<None>>

NewTasks(r) ==
    IF TasksOf(r.command) = {} THEN <<>>
    ELSE LET type == CHOOSE t \in TasksOf(r.command) : TRUE
             to == Assignees(r.case, type)
         IN  [i \in DOMAIN to |->
                [case |-> r.case, type |-> type, assignee |-> to[i],
                 status |-> "PENDING", by |-> Len(transitions) + 1, from |-> 0,
                 doneBy |-> None]]

\* Mutant: UPDATE without the version in its WHERE clause.
WritableAnyVersion(r) == ~KeyTaken(r.key) /\ r.key \notin outbox

\* The rows are written: nobody changed the case since it was read, and both
\* unique keys of the transition are free.
Writable(r) ==
    /\ cases[r.case].version = r.version
    /\ ~KeyTaken(r.key)
    /\ r.key \notin outbox

Write(r) ==
    /\ cases' = [cases EXCEPT ![r.case] = MovedCase(r)]
    /\ transitions' = Append(transitions,
           [case |-> r.case, from |-> cases[r.case].state,
            to |-> TransitionMap[r.command].to, command |-> r.command,
            actor |-> r.actor, key |-> r.key])

TransitionCommit(s) ==
    LET r == requests[s]
    IN  /\ r.kind \in {"transition", "decision"} /\ r.phase = "validated"
        /\ Writable(r)
        /\ Write(r)
        /\ tasks' = tasks \o NewTasks(r)
        /\ outbox' = outbox \cup {r.key}
        /\ Finish(s) /\ Release(s)

\* Someone else's commit came first: P2025 or P2002, and a rollback.
CommitConflict(s) ==
    LET r == requests[s]
    IN  /\ r.phase = "validated"
        /\ \/ r.kind = "open" /\ ~OpenAllowed(s)
           \/ r.kind \in {"transition", "decision", "complete"} /\ ~Writable(r)
           \/ /\ r.kind = "confidentiality"
              /\ cases[r.case].version # r.version \/ r.key \in outbox
        /\ Refuse(s)

(***************************************************************************)
(* Transitions that the votes of the council execute (castVote and the     *)
(* silent acceptance job): in a transaction of their own that takes no     *)
(* advisory lock. Module DecisionRound models the votes themselves.        *)
(***************************************************************************)
IsLatestRound(i, c) ==
    /\ transitions[i].case = c /\ transitions[i].to = "member_approval"
    /\ \A j \in (i + 1)..Len(transitions) :
          transitions[j].case = c => transitions[j].to # "member_approval"

DecisionBegin(s, u, c, cmd, key) ==
    /\ CanSubmit("decision", s)
    /\ cases[c].state = "member_approval"
    /\ LET r == [Idle EXCEPT !.kind = "decision", !.phase = "validated", !.case = c,
                             !.actor = u, !.command = cmd, !.key = key, !.filled = TRUE,
                             !.state = cases[c].state, !.version = cases[c].version]
       IN  /\ ~KeyTaken(r.key)
           /\ Permitted(r)
           /\ Put(s, r)
    /\ UNCHANGED <<tables, holder>>

UnanimityBegin(s, c) ==
    \E i \in 1..Len(transitions) :
        /\ IsLatestRound(i, c)
        /\ DecisionBegin(s, System, c, "create_decision_draft", <<"decision-unanimity", i>>)

ObjectionBegin(s, u, c, k) ==
    DecisionBegin(s, u, c, "member_objection", <<"member-objection", k>>)

(***************************************************************************)
(* Confidentiality: no advisory lock, one conditional UPDATE               *)
(***************************************************************************)
ConfidentialitySubmit(s, u, c, k, level) ==
    /\ CanSubmit("confidentiality", s)
    /\ RolesOf[u] \cap {"council_secretary", "council_chair"} # {}
    /\ InCaseScope(u, c)
    /\ <<"confidentiality", k>> \notin outbox
    /\ level # cases[c].level
    /\ ClearanceOf[u] >= level
    /\ Put(s, [Idle EXCEPT !.kind = "confidentiality", !.phase = "validated",
                           !.case = c, !.actor = u, !.key = <<"confidentiality", k>>,
                           !.level = level, !.version = cases[c].version])
    /\ UNCHANGED <<tables, holder>>

\* Mutant: the version is compared and not incremented.
ConfidentialityUncounted(s) ==
    LET r == requests[s]
    IN  /\ r.kind = "confidentiality" /\ r.phase = "validated"
        /\ cases[r.case].version = r.version
        /\ r.key \notin outbox
        /\ cases' = [cases EXCEPT ![r.case].level = r.level]
        /\ outbox' = outbox \cup {r.key}
        /\ Finish(s)
        /\ UNCHANGED <<transitions, tasks, holder>>

ConfidentialityCommit(s) ==
    LET r == requests[s]
    IN  /\ r.kind = "confidentiality" /\ r.phase = "validated"
        /\ cases[r.case].version = r.version
        /\ r.key \notin outbox
        /\ cases' = [cases EXCEPT ![r.case].level = r.level, ![r.case].version = @ + 1]
        /\ outbox' = outbox \cup {r.key}
        /\ Finish(s)
        /\ UNCHANGED <<transitions, tasks, holder>>

(***************************************************************************)
(* Completing a task                                                       *)
(***************************************************************************)
CompleteSubmit(s, u, t, k) ==
    /\ CanSubmit("complete", s)
    /\ InTaskScope(u, t)
    /\ tasks[t].status = "PENDING"
    /\ tasks[t].type \in CompletableTasks
    /\ Holds(u, t)
    /\ LET c == tasks[t].case
           cmd == CompletionCommand[tasks[t].type]
       IN  Put(s, [Idle EXCEPT !.kind = "complete", !.phase = "submitted", !.case = c,
                       !.actor = u, !.command = cmd, !.key = <<"task-complete", k>>,
                       !.task = t,
                       !.state = cases[c].state, !.version = cases[c].version])
    /\ UNCHANGED <<tables, holder>>

\* Under the lock the task is read again within the scope, and only the status
\* COMPLETED stops the request. The completion sends no metadata, so the
\* commands that need some are refused (r.filled is FALSE).
CompleteAllowed(s) ==
    LET r == requests[s]
    IN  /\ InTaskScope(r.actor, r.task)
        /\ tasks[r.task].status # "COMPLETED"
        /\ ~KeyTaken(r.key)
        /\ Unchanged(s)
        /\ Permitted(r)

CompleteBegin(s) ==
    /\ requests[s].kind = "complete" /\ requests[s].phase = "submitted"
    /\ LockFree(s)
    /\ CompleteAllowed(s)
    /\ Accept(s) /\ TakeLock(s)
    /\ UNCHANGED tables

\* A key another completion used replays its transition, then fails on the audit
\* key that was written with it: the transaction rolls back as the others do.
CompleteReject(s) ==
    /\ requests[s].kind = "complete" /\ requests[s].phase = "submitted"
    /\ LockFree(s)
    /\ ~CompleteAllowed(s)
    /\ Refuse(s)

\* Mutant: only a task that is still pending is marked, and nobody counts the rows.
CompletePendingOnly(s) ==
    LET r == requests[s]
        audit == <<"task-completed", r.key[2]>>
        row == tasks[r.task]
    IN  /\ r.kind = "complete" /\ r.phase = "validated"
        /\ Writable(r)
        /\ audit \notin outbox
        /\ Write(r)
        /\ tasks' = [tasks EXCEPT ![r.task] =
               IF row.status = "PENDING"
               THEN [row EXCEPT !.status = "COMPLETED", !.doneBy = r.actor]
               ELSE row] \o NewTasks(r)
        /\ outbox' = outbox \cup {r.key, audit}
        /\ Finish(s) /\ Release(s)

CompleteCommit(s) ==
    LET r == requests[s]
        audit == <<"task-completed", r.key[2]>>
    IN  /\ r.kind = "complete" /\ r.phase = "validated"
        /\ Writable(r)
        /\ audit \notin outbox
        /\ Write(r)
        /\ tasks' = [tasks EXCEPT ![r.task].status = "COMPLETED",
                                  ![r.task].doneBy = r.actor] \o NewTasks(r)
        /\ outbox' = outbox \cup {r.key, audit}
        /\ Finish(s) /\ Release(s)

(***************************************************************************)
(* Delegating a task                                                       *)
(***************************************************************************)
DelegateSubmit(s, u, t, target) ==
    /\ CanSubmit("delegate", s)
    /\ InTaskScope(u, t)
    /\ tasks[t].status = "PENDING"
    /\ Holds(u, t)
    /\ target # u
    /\ target \in Active
    /\ TaskRole(tasks[t].type) \in RolesOf[target]
    /\ Put(s, [Idle EXCEPT !.kind = "delegate", !.phase = "submitted",
                           !.case = tasks[t].case, !.actor = u, !.task = t,
                           !.arg = target])
    /\ UNCHANGED <<tables, holder>>

\* Mutant: the status is not read again under the lock.
DelegateUnchecked(s) == InTaskScope(requests[s].actor, requests[s].task)

DelegateAllowed(s) ==
    LET r == requests[s]
    IN  InTaskScope(r.actor, r.task) /\ tasks[r.task].status = "PENDING"

\* The whole transaction: every other writer of these rows holds the lock.
DelegateCommit(s) ==
    LET r == requests[s]
    IN  /\ r.kind = "delegate" /\ r.phase = "submitted"
        /\ LockFree(s)
        /\ DelegateAllowed(s)
        /\ tasks' = Append([tasks EXCEPT ![r.task].status = "DELEGATED"],
                           [tasks[r.task] EXCEPT !.assignee = r.arg, !.status = "PENDING",
                                                 !.from = r.task])
        /\ Finish(s)
        /\ UNCHANGED <<cases, transitions, outbox, holder>>

DelegateReject(s) ==
    /\ requests[s].kind = "delegate" /\ requests[s].phase = "submitted"
    /\ LockFree(s)
    /\ ~DelegateAllowed(s)
    /\ Refuse(s)

\* The API process dies or loses its connection: the transaction never was.
Crash(s) == Busy(s) /\ Refuse(s)

(***************************************************************************)
(* The inputs of requests, and the next-state relation                     *)
(***************************************************************************)
\* A request carries the user or document its command needs, or fails to.
Bodies(cmd) ==
    IF cmd \in AssignRapporteur \cup AssignOwner
    THEN {<<None, FALSE>>} \cup {<<u, TRUE>> : u \in Users}
    ELSE {<<None, filled>> : filled \in
             IF cmd \in ReasonCommands \cup MetadataCommands THEN BOOLEAN ELSE {TRUE}}

LevelChanges == Cardinality({key \in outbox : key[1] = "confidentiality"})
Delegations == Cardinality({t \in DOMAIN tasks : tasks[t].from # 0})

Submit(s) ==
    \/ \E u \in Users, c \in Cases, k \in ClientNumbers :
          \/ OpenSubmit(s, u, c, k)
          \/ \E cmd \in Offered : \E body \in Bodies(cmd) :
                /\ TransitionSubmit(s, u, c, cmd, k, body[1], body[2])
                /\ Strays \/ Permitted(requests'[s])
          \/ /\ LevelChanges < MaxLevelChanges
             /\ \E level \in Levels : ConfidentialitySubmit(s, u, c, k, level)
          \/ ObjectionBegin(s, u, c, k)
    \/ \E c \in Cases : UnanimityBegin(s, c)
    \/ \E u \in Users, t \in DOMAIN tasks :
          \/ \E k \in ClientNumbers : CompleteSubmit(s, u, t, k)
          \/ /\ Delegations < MaxDelegations
             /\ \E target \in Users : DelegateSubmit(s, u, t, target)

Serve(s) ==
    \/ OpenCommit(s)
    \/ TransitionBegin(s) \/ TransitionReject(s) \/ TransitionReplay(s)
    \/ TransitionCommit(s)
    \/ ConfidentialityCommit(s)
    \/ CompleteBegin(s) \/ CompleteReject(s) \/ CompleteCommit(s)
    \/ DelegateCommit(s) \/ DelegateReject(s)
    \/ CommitConflict(s)

Next == \E s \in Slots : Submit(s) \/ Serve(s) \/ Crash(s)

Init ==
    /\ cases = [c \in Cases |->
                  [state |-> "unopened", version |-> 0, level |-> ReportLevel[c],
                   closed |-> FALSE, rapporteur |-> None, owner |-> None]]
    /\ transitions = <<>>
    /\ tasks = <<>>
    /\ outbox = {}
    /\ requests = [s \in Slots |-> Idle]
    /\ holder = [c \in Cases |-> None]

Spec == Init /\ [][Next]_vars

\* PostgreSQL grants a released lock to a waiting transaction in turn, so a
\* request that can be served again and again is served.
FairSpec == Spec /\ \A s \in Slots : SF_vars(Serve(s))

(***************************************************************************)
(* Properties                                                              *)
(***************************************************************************)
IsLatest(j, c, n) ==
    /\ j \in 1..n
    /\ transitions[j].case = c
    /\ \A i \in (j + 1)..n : transitions[i].case # c

Count(P(_), n) == Cardinality({i \in 1..n : P(i)})

\* The history of a case is a path of the transition map: it begins where the
\* case was opened, each entry starts in the state the entry before it reached,
\* and the last one reached the state of the case. A lost update, a transition
\* executed on a stale snapshot or a half-written one breaks the chain
\* (transition.service.ts, executeInTransaction).
HistoryChained ==
    /\ \A i \in 1..Len(transitions) :
          LET e == transitions[i]
          IN  IF e.command = "open_case"
              THEN \A j \in 1..(i - 1) : transitions[j].case # e.case
              ELSE /\ e.from = TransitionMap[e.command].from
                   /\ e.to = TransitionMap[e.command].to
                   /\ \E j \in 1..(i - 1) :
                         IsLatest(j, e.case, i - 1) /\ transitions[j].to = e.from
    /\ \A c \in Cases : Opened(c) =>
          \E j \in 1..Len(transitions) :
             IsLatest(j, c, Len(transitions)) /\ transitions[j].to = cases[c].state

\* Every write of a case is counted by its version and audited: the version is
\* the number of transitions after the opening plus the number of audited changes
\* of confidentiality. A write that loses another one, or is retried and applied
\* twice, breaks the sum (one case, so that the audit keys are all its own).
VersionCountsWrites ==
    \A c \in Cases :
        LET Moves(i) == transitions[i].case = c /\ transitions[i].command # "open_case"
        IN  Cases = {c} =>
              cases[c].version = Count(Moves, Len(transitions)) + LevelChanges

\* A task is completed if and only if one transition of its case was executed for
\* it, by its completion command and by the user who completed it: no completion
\* without effect, and no transition executed twice for one task, for all the
\* retries, delegations and rival completions (task.service.ts, completeTask).
CompletionsAreTransitions ==
    \A c \in Cases, type \in CompletableTasks, u \in Users :
        LET Done(t) == /\ tasks[t].case = c /\ tasks[t].type = type
                       /\ tasks[t].status = "COMPLETED" /\ tasks[t].doneBy = u
            Executed(i) == /\ transitions[i].case = c
                           /\ transitions[i].command = CompletionCommand[type]
                           /\ transitions[i].key[1] = "task-complete"
                           /\ transitions[i].actor = u
        IN  Count(Done, Len(tasks)) = Count(Executed, Len(transitions))

\* While a case waits in a state of the task catalog, somebody has the work: each
\* member still to vote, or exactly one user or role, holds a pending task of the
\* transition that brought the case there. Delegations, failed completions and
\* rival requests neither lose that task nor double it.
CurrentWorkIsAssigned ==
    \A c \in Cases, j \in 1..Len(transitions) :
        /\ IsLatest(j, c, Len(transitions))
        /\ transitions[j].command # "open_case"
        /\ TasksOf(transitions[j].command) # {}
        => LET Pending(t) == tasks[t].by = j /\ tasks[t].status = "PENDING"
           IN  Count(Pending, Len(tasks)) =
                  IF cases[c].state = "member_approval" THEN Len(Members) ELSE 1

\* The entry a step adds to the history, if it adds one.
Adds(e) == /\ Len(transitions') = Len(transitions) + 1
           /\ e = transitions'[Len(transitions')]

\* A user moves a case, or is given it, only with a clearance that covers the
\* level of the case at the moment of the commit, although clearance is checked
\* before it and the level can change in between without the advisory lock
\* (transition.validators.ts validateClearance, case.service.ts
\* updateConfidentiality). The system command asks for no clearance.
ClearedWhenItCounts ==
    [][/\ \A e \in {transitions'[i] : i \in DOMAIN transitions'} :
             Adds(e) /\ e.actor \in Users /\ e.command \notin SystemCommands
                => Cleared(e.actor, e.case)
       /\ \A c \in Cases :
             /\ cases'[c].rapporteur # cases[c].rapporteur => Cleared(cases'[c].rapporteur, c)
             /\ cases'[c].owner # cases[c].owner => Cleared(cases'[c].owner, c)
      ]_vars

\* Every request that was submitted ends, with an answer or an error: none waits
\* for ever behind an advisory lock whose holder is gone.
EveryRequestEnds == \A s \in Slots : Busy(s) ~> ~Busy(s)

\* The engine keeps the promise of CaseLedger.
Ledger == INSTANCE CaseLedger WITH
              stage <- [c \in Cases |-> cases[c].state],
              revision <- [c \in Cases |-> cases[c].version]
ImplementsLedger == Ledger!Spec

(***************************************************************************)
(* A claim of the documents that the engine does not keep                  *)
(***************************************************************************)
\* Docs/01_DOMAIN_MODEL.md:593-605: DELEGATED leads nowhere, the work goes on in
\* the new task.
DelegatedIsFinal ==
    [][\A t \in DOMAIN tasks : tasks[t].status = "DELEGATED" => tasks'[t].status = "DELEGATED"]_vars

================================================================================
