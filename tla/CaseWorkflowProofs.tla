--------------------------- MODULE CaseWorkflowProofs ---------------------------
(***************************************************************************)
(* Theorems about the case engine, for every number of cases, users and    *)
(* requests in flight.                                                     *)
(*                                                                         *)
(* The invariant that carries them is Fresh: a transaction that has made   *)
(* its checks, on a case whose version is still the one it read, could     *)
(* make them again with the same outcome. It holds because every write of  *)
(* a case that was opened raises its version.                              *)
(*                                                                         *)
(* In the order of this module: the types and Fresh (IInv); the engine     *)
(* implements CaseLedger; the history of every case is a path of the map;  *)
(* clearance covers every write it was checked for; the advisory lock of a *)
(* case excludes (LockInv); keys and claims of requests (QInv); and three  *)
(* counts: versions count writes (VInv), completions go with transitions   *)
(* (CInv), and a case that waits in a state of the catalog has its tasks   *)
(* (WInv).                                                                 *)
(***************************************************************************)
EXTENDS CaseWorkflow, SequenceTheorems, FiniteSetTheorems, TLAPS

Moving == {"transition", "complete", "decision"}

\* What the kind of a request says about its fields.
RequestOK(r) ==
    /\ r.kind # "none" => r.case \in Cases /\ r.actor \in Users \cup {System}
    /\ r.kind \notin {"none", "decision"} => r.actor \in Users
    /\ r.kind \in Moving => r.command \in Commands
    /\ r.kind = "confidentiality" => r.level \in Levels
    /\ r.kind \in {"complete", "delegate"} => r.task \in 1..Len(tasks)

\* What a request that has made its checks still knows of its case.
Fresh(r) ==
    r.phase = "validated" =>
        /\ r.kind = "open" => Opened(r.case) \/ Cleared(r.actor, r.case)
        /\ r.kind \in Moving \cup {"confidentiality"} =>
              /\ Opened(r.case)
              /\ r.version <= cases[r.case].version
              /\ r.kind \in Moving /\ r.version = cases[r.case].version => Permitted(r)

IInv ==
    /\ TypeOK
    /\ \A s \in Slots : RequestOK(requests[s]) /\ Fresh(requests[s])

(***************************************************************************)
(* The tables                                                              *)
(***************************************************************************)
\* Every edge of the map joins two states (TRANSITION_MAP).
LEMMA EdgesJoinStates ==
    ASSUME NEW cmd \in Commands
    PROVE  TransitionMap[cmd].from \in States /\ TransitionMap[cmd].to \in States
BY DEF Commands, TransitionMap, Edge, States, AnyRole

\* The catalog creates only tasks whose type it knows (resolveTasksForTransition).
LEMMA CatalogTypes ==
    ASSUME NEW cmd \in Commands
    PROVE  TasksOf(cmd) \subseteq TaskTypes
BY DEF TasksOf, TaskTypes, CompletableTasks, CompletionCommand, StateTask

(***************************************************************************)
(* Types of what a transition writes                                       *)
(***************************************************************************)
\* A slot without a request holds a request of the declared type.
LEMMA IdleType == Idle \in Request
BY UsersAssumption DEF Idle, Request, Kinds, Keys, KeyTags

\* A request keeps its type when it is given a body.
LEMMA RequestBody ==
    ASSUME NEW q \in Request, NEW arg \in Users \cup {None}, NEW filled \in BOOLEAN
    PROVE  [q EXCEPT !.arg = arg, !.filled = filled] \in Request
BY Zenon DEF Request

\* A request keeps its type when it is given what was read of its case.
LEMMA RequestSnapshot ==
    ASSUME NEW q \in Request, NEW state \in States \cup {"unopened"}, NEW version \in Nat
    PROVE  [q EXCEPT !.state = state, !.version = version] \in Request
BY DEF Request

\* A request keeps its type when it is given the version alone.
LEMMA RequestVersion ==
    ASSUME NEW q \in Request, NEW version \in Nat
    PROVE  [q EXCEPT !.version = version] \in Request
BY DEF Request

\* The assignees of a task type are users, or the role alone (resolveTasksForTransition).
LEMMA AssigneesType ==
    ASSUME TypeOK, NEW c \in Cases, NEW type
    PROVE  Assignees(c, type) \in Seq(Users \cup {None})
<1>1. Members \in Seq(Users \cup {None})
  BY UsersAssumption
<1>2. /\ cases[c].rapporteur \in Users \cup {None}
      /\ cases[c].owner \in Users \cup {None}
  BY DEF TypeOK, CaseRow
<1>3. /\ <<cases[c].rapporteur>> \in Seq(Users \cup {None})
      /\ <<cases[c].owner>> \in Seq(Users \cup {None})
      /\ <<None>> \in Seq(Users \cup {None})
  BY <1>2
<1>. QED
  BY <1>1, <1>3, Zenon DEF Assignees

\* The rows a transition adds to the tasks table have the type of the table.
LEMMA NewTasksType ==
    ASSUME TypeOK, NEW r, r.command \in Commands, r.case \in Cases
    PROVE  NewTasks(r) \in Seq(Task)
<1>1. CASE TasksOf(r.command) = {}
  BY <1>1 DEF NewTasks
<1>2. CASE TasksOf(r.command) # {}
  <2>. DEFINE type == CHOOSE t \in TasksOf(r.command) : TRUE
              to == Assignees(r.case, type)
  <2>1. type \in TaskTypes
    BY <1>2, CatalogTypes
  <2>2. to \in Seq(Users \cup {None})
    BY AssigneesType
  <2>3. Len(transitions) + 1 \in Nat
    BY DEF TypeOK
  <2>4. \A i \in DOMAIN to :
          [case |-> r.case, type |-> type, assignee |-> to[i], status |-> "PENDING",
           by |-> Len(transitions) + 1, from |-> 0, doneBy |-> None] \in Task
    BY <2>1, <2>2, <2>3 DEF Task, Statuses
  <2>5. NewTasks(r) =
          [i \in DOMAIN to |->
              [case |-> r.case, type |-> type, assignee |-> to[i], status |-> "PENDING",
               by |-> Len(transitions) + 1, from |-> 0, doneBy |-> None]]
    BY <1>2 DEF NewTasks
  <2>6. DOMAIN to = 1..Len(to) /\ Len(to) \in Nat
    BY <2>2
  <2>. HIDE DEF type, to
  <2>. QED
    BY <2>4, <2>5, <2>6
<1>. QED
  BY <1>1, <1>2

\* The row of a case after a transition: the target state, the next version, the old level.
LEMMA MovedCaseType ==
    ASSUME TypeOK, NEW r \in Request, r.command \in Commands, r.case \in Cases
    PROVE  /\ MovedCase(r) \in CaseRow
           /\ MovedCase(r).state = TransitionMap[r.command].to
           /\ MovedCase(r).version = cases[r.case].version + 1
           /\ MovedCase(r).level = cases[r.case].level
<1>1. cases[r.case] \in CaseRow
  BY DEF TypeOK
<1>2. r.arg \in Users \cup {None}
  BY DEF Request
<1>3. TransitionMap[r.command].to \in States
  BY EdgesJoinStates
<1>. DEFINE rapporteur == IF r.command \in AssignRapporteur THEN r.arg ELSE cases[r.case].rapporteur
            owner == IF r.command \in AssignOwner THEN r.arg ELSE cases[r.case].owner
            closed == cases[r.case].closed \/ r.command \in ClosingCommands
<1>4. /\ rapporteur \in Users \cup {None}
      /\ owner \in Users \cup {None}
  BY <1>1, <1>2 DEF CaseRow
<1>5. closed \in BOOLEAN
  BY <1>1 DEF CaseRow
<1>6. MovedCase(r) =
        [cases[r.case] EXCEPT !.state = TransitionMap[r.command].to,
                              !.version = cases[r.case].version + 1,
                              !.closed = closed,
                              !.rapporteur = rapporteur,
                              !.owner = owner]
  BY DEF MovedCase
<1>. HIDE DEF rapporteur, owner, closed
<1>7. MovedCase(r) =
        [state |-> TransitionMap[r.command].to, version |-> cases[r.case].version + 1,
         level |-> cases[r.case].level, closed |-> closed,
         rapporteur |-> rapporteur, owner |-> owner]
  BY <1>1, <1>6 DEF CaseRow
<1>. QED
  BY <1>1, <1>3, <1>4, <1>5, <1>7 DEF CaseRow

\* The rows that a moving request writes, on a case that is in a state.
LEMMA WriteType ==
    ASSUME TypeOK, NEW r \in Request, r.command \in Commands, r.case \in Cases,
           r.actor \in Users \cup {System}, Opened(r.case), Write(r)
    PROVE  cases' \in [Cases -> CaseRow] /\ transitions' \in Seq(Entry)
<1>1. cases' \in [Cases -> CaseRow]
  BY MovedCaseType DEF Write, TypeOK
<1>2. cases[r.case].state \in States
  BY DEF TypeOK, CaseRow, Opened
<1>3. [case |-> r.case, from |-> cases[r.case].state,
       to |-> TransitionMap[r.command].to, command |-> r.command,
       actor |-> r.actor, key |-> r.key] \in Entry
  BY <1>2, EdgesJoinStates DEF Entry, Request
<1>. QED
  BY <1>1, <1>3 DEF Write, TypeOK

(***************************************************************************)
(* What a step may do to the requests it does not serve                    *)
(***************************************************************************)
\* A step leaves a case alone, opens it, or raises its version.
Advance ==
    \A c \in Cases :
        \/ cases'[c] = cases[c]
        \/ ~Opened(c) /\ Opened(c)'
        \/ Opened(c) /\ Opened(c)' /\ cases'[c].version > cases[c].version

\* The other requests keep what they know through a step that advances: the checks
\* of one whose case kept its version have the same outcome as before.
LEMMA Preserve ==
    ASSUME IInv, NEW s \in Slots, TypeOK', Advance, Len(tasks') >= Len(tasks),
           \A t \in Slots \ {s} : requests'[t] = requests[t],
           RequestOK(requests[s])', Fresh(requests[s])'
    PROVE  IInv'
<1>. SUFFICES ASSUME NEW t \in Slots, t # s
              PROVE  RequestOK(requests[t])' /\ Fresh(requests[t])'
  BY DEF IInv
<1>1. requests'[t] = requests[t] /\ RequestOK(requests[t]) /\ Fresh(requests[t])
  BY DEF IInv
<1>2. RequestOK(requests[t])'
  BY <1>1 DEF RequestOK, IInv, TypeOK
<1>3. ASSUME requests[t].phase = "validated",
             requests[t].kind \in Moving \cup {"confidentiality"}
      PROVE  /\ Opened(requests[t].case)'
             /\ requests[t].version <= cases'[requests[t].case].version
             /\ requests[t].kind \in Moving
                  /\ requests[t].version = cases'[requests[t].case].version
                => cases'[requests[t].case] = cases[requests[t].case] /\ Permitted(requests[t])
  <2>1. requests[t].case \in Cases
    BY <1>1, <1>3 DEF RequestOK, Moving
  <2>2. /\ Opened(requests[t].case)
        /\ requests[t].version <= cases[requests[t].case].version
        /\ requests[t].kind \in Moving
             /\ requests[t].version = cases[requests[t].case].version
           => Permitted(requests[t])
    BY <1>1, <1>3 DEF Fresh
  <2>3. /\ requests[t].version \in Nat
        /\ cases[requests[t].case].version \in Nat
        /\ cases'[requests[t].case].version \in Nat
    BY <2>1 DEF IInv, TypeOK, CaseRow, Request
  <2>. QED
    BY <2>1, <2>2, <2>3 DEF Advance, Opened
<1>4. ASSUME requests[t].phase = "validated", requests[t].kind = "open"
      PROVE  (Opened(requests[t].case) \/ Cleared(requests[t].actor, requests[t].case))'
  <2>1. requests[t].case \in Cases
    BY <1>1, <1>4 DEF RequestOK
  <2>2. Opened(requests[t].case) \/ Cleared(requests[t].actor, requests[t].case)
    BY <1>1, <1>4 DEF Fresh
  <2>. QED
    BY <1>1, <2>1, <2>2 DEF Advance, Opened, Cleared
<1>5. Fresh(requests[t])'
  BY <1>1, <1>3, <1>4 DEF Fresh, Permitted, Assignable, Cleared, Opened
<1>. QED
  BY <1>2, <1>5

\* A request that ends knows nothing.
LEMMA PreserveFinish ==
    ASSUME IInv, NEW s \in Slots, Finish(s), Advance, Len(tasks') >= Len(tasks),
           cases' \in [Cases -> CaseRow], transitions' \in Seq(Entry),
           tasks' \in Seq(Task), outbox' \subseteq Keys,
           holder' \in [Cases -> Slots \cup {None}]
    PROVE  IInv'
<1>1. requests' = [requests EXCEPT ![s] = Idle]
  BY DEF Finish, Put
<1>2. requests' \in [Slots -> Request]
  BY <1>1, IdleType DEF IInv, TypeOK
<1>3. requests'[s] = Idle /\ \A t \in Slots \ {s} : requests'[t] = requests[t]
  BY <1>1 DEF IInv, TypeOK
<1>4. RequestOK(requests[s])' /\ Fresh(requests[s])'
  BY <1>3 DEF RequestOK, Fresh, Idle, Moving
<1>5. TypeOK'
  BY <1>2 DEF TypeOK
<1>. QED
  BY <1>3, <1>4, <1>5, Preserve

\* A request that ends with an error, or dies, writes nothing.
LEMMA RefuseStep ==
    ASSUME IInv, NEW s \in Slots, Refuse(s)
    PROVE  IInv'
<1>1. Finish(s) /\ UNCHANGED tables /\ Release(s)
  BY DEF Refuse
<1>2. holder' \in [Cases -> Slots \cup {None}]
  BY <1>1 DEF Release, IInv, TypeOK
<1>3. /\ cases' = cases /\ transitions' = transitions
      /\ tasks' = tasks /\ outbox' = outbox
  BY <1>1 DEF tables
<1>4. Advance /\ Len(tasks') >= Len(tasks)
  BY <1>3 DEF Advance, IInv, TypeOK
<1>. QED
  BY <1>1, <1>2, <1>3, <1>4, PreserveFinish DEF IInv, TypeOK

\* A client's keys are numbered.
LEMMA ClientNumbersType ==
    ASSUME TypeOK
    PROVE  ClientNumbers \subseteq Nat
<1>1. UsedNumbers \subseteq Nat
  BY DEF UsedNumbers, TypeOK, Request, Keys
<1>. DEFINE new == {n \in {m + 1 : m \in UsedNumbers \cup {0}} :
                      n \notin UsedNumbers /\ 1..(n - 1) \subseteq UsedNumbers}
<1>2. new \subseteq Nat
  BY <1>1
<1>3. ClientNumbers = IF Retries THEN UsedNumbers \cup new ELSE new
  BY Zenon DEF ClientNumbers
<1>. HIDE DEF new
<1>. QED
  BY <1>1, <1>2, <1>3

\* The bodies of requests carry a user, or none.
LEMMA BodiesType ==
    ASSUME NEW cmd, NEW body \in Bodies(cmd)
    PROVE  body[1] \in Users \cup {None} /\ body[2] \in BOOLEAN
<1>1. CASE cmd \in AssignRapporteur \cup AssignOwner
  <2>1. body = <<None, FALSE>> \/ \E u \in Users : body = <<u, TRUE>>
    BY <1>1, Zenon DEF Bodies
  <2>2. CASE body = <<None, FALSE>>
    BY <2>2
  <2>3. ASSUME NEW u \in Users, body = <<u, TRUE>>
        PROVE  body[1] \in Users \cup {None} /\ body[2] \in BOOLEAN
    BY <2>3
  <2>. QED
    BY <2>1, <2>2, <2>3
<1>2. CASE cmd \notin AssignRapporteur \cup AssignOwner
  <2>1. PICK filled \in BOOLEAN : body = <<None, filled>>
    BY <1>2, Zenon DEF Bodies
  <2>. QED
    BY <2>1
<1>. QED
  BY <1>1, <1>2

(***************************************************************************)
(* Submitting a request                                                    *)
(***************************************************************************)
\* A new request whose fields fit its kind keeps the invariant.
LEMMA PutStep ==
    ASSUME IInv, NEW s \in Slots, NEW r \in Request, Put(s, r),
           RequestOK(r), Fresh(r), UNCHANGED tables,
           holder' \in [Cases -> Slots \cup {None}]
    PROVE  IInv'
<1>1. /\ cases' = cases /\ transitions' = transitions
      /\ tasks' = tasks /\ outbox' = outbox
  BY DEF tables
<1>2. requests' \in [Slots -> Request] /\ requests'[s] = r
  BY DEF Put, IInv, TypeOK
<1>3. \A t \in Slots \ {s} : requests'[t] = requests[t]
  BY DEF Put, IInv, TypeOK
<1>4. Advance /\ Len(tasks') >= Len(tasks)
  BY <1>1 DEF Advance, IInv, TypeOK
<1>5. TypeOK'
  BY <1>1, <1>2 DEF IInv, TypeOK
<1>6. RequestOK(requests[s])'
  BY <1>1, <1>2 DEF RequestOK
<1>7. Fresh(requests[s])'
  BY <1>1, <1>2 DEF Fresh, Permitted, Assignable, Cleared, Opened
<1>. QED
  BY <1>3, <1>4, <1>5, <1>6, <1>7, Preserve

\* The request that opens a case.
LEMMA OpenSubmitStep ==
    ASSUME IInv, NEW s \in Slots, NEW u \in Users, NEW c \in Cases,
           NEW k \in Nat, OpenSubmit(s, u, c, k)
    PROVE  IInv'
<1>. DEFINE r == [Idle EXCEPT !.kind = "open", !.phase = "validated", !.case = c,
                              !.actor = u, !.key = <<"api", k>>]
<1>1. r \in Request
  BY IdleType DEF Idle, Request, Kinds, Keys, KeyTags
<1>2. RequestOK(r) /\ Fresh(r)
  BY DEF OpenSubmit, RequestOK, Fresh, Idle, Moving
<1>3. Put(s, r) /\ UNCHANGED <<tables, holder>>
  BY DEF OpenSubmit
<1>. HIDE DEF r
<1>. QED
  BY <1>1, <1>2, <1>3, PutStep DEF IInv, TypeOK

\* The request for a transition, with the case as it was read.
LEMMA TransitionSubmitStep ==
    ASSUME IInv, NEW s \in Slots, NEW u \in Users, NEW c \in Cases,
           NEW cmd \in Commands, NEW k \in Nat, NEW arg \in Users \cup {None},
           NEW filled \in BOOLEAN, TransitionSubmit(s, u, c, cmd, k, arg, filled)
    PROVE  IInv'
<1>. DEFINE r == [Idle EXCEPT !.kind = "transition", !.phase = "submitted", !.case = c,
                              !.actor = u, !.command = cmd, !.key = <<"api", k>>,
                              !.arg = arg, !.filled = filled,
                              !.state = cases[c].state, !.version = cases[c].version]
<1>1. cases[c].state \in States \cup {"unopened"} /\ cases[c].version \in Nat
  BY DEF IInv, TypeOK, CaseRow
<1>2. r \in Request
  <2>. DEFINE q == [Idle EXCEPT !.kind = "transition", !.phase = "submitted", !.case = c,
                                !.actor = u, !.command = cmd, !.key = <<"api", k>>]
              p == [q EXCEPT !.arg = arg, !.filled = filled]
  <2>1. q \in Request
    BY IdleType DEF Idle, Request, Kinds, Keys, KeyTags
  <2>2. r = [p EXCEPT !.state = cases[c].state, !.version = cases[c].version]
    BY DEF Idle
  <2>. HIDE DEF q, r
  <2>3. p \in Request
    BY <2>1, RequestBody
  <2>. HIDE DEF p
  <2>. QED
    BY <1>1, <2>2, <2>3, RequestSnapshot
<1>3. RequestOK(r) /\ Fresh(r)
  BY DEF RequestOK, Fresh, Idle, Moving
<1>4. Put(s, r) /\ UNCHANGED <<tables, holder>>
  BY DEF TransitionSubmit
<1>. HIDE DEF r
<1>. QED
  BY <1>2, <1>3, <1>4, PutStep DEF IInv, TypeOK

\* The request that changes the confidentiality of a case.
LEMMA ConfidentialitySubmitStep ==
    ASSUME IInv, NEW s \in Slots, NEW u \in Users, NEW c \in Cases,
           NEW k \in Nat, NEW level \in Levels, ConfidentialitySubmit(s, u, c, k, level)
    PROVE  IInv'
<1>. DEFINE r == [Idle EXCEPT !.kind = "confidentiality", !.phase = "validated",
                              !.case = c, !.actor = u, !.key = <<"confidentiality", k>>,
                              !.level = level, !.version = cases[c].version]
<1>1. cases[c].version \in Nat /\ level \in Nat
  BY UsersAssumption DEF IInv, TypeOK, CaseRow
<1>2. r \in Request
  <2>. DEFINE q == [Idle EXCEPT !.kind = "confidentiality", !.phase = "validated",
                              !.case = c, !.actor = u, !.key = <<"confidentiality", k>>,
                              !.level = level]
  <2>1. q \in Request
    BY <1>1, IdleType DEF Idle, Request, Kinds, Keys, KeyTags
  <2>2. r = [q EXCEPT !.version = cases[c].version]
    BY DEF Idle
  <2>. HIDE DEF q, r
  <2>. QED
    BY <1>1, <2>1, <2>2, RequestVersion
<1>3. Opened(c)
  BY DEF ConfidentialitySubmit, InCaseScope
<1>4. RequestOK(r) /\ Fresh(r)
  BY <1>1, <1>3 DEF RequestOK, Fresh, Idle, Moving
<1>5. Put(s, r) /\ UNCHANGED <<tables, holder>>
  BY DEF ConfidentialitySubmit
<1>. HIDE DEF r
<1>. QED
  BY <1>2, <1>4, <1>5, PutStep DEF IInv, TypeOK

\* The commands that completing a task executes are commands of the map.
LEMMA CompletionCommands ==
    ASSUME NEW type \in CompletableTasks
    PROVE  CompletionCommand[type] \in Commands
BY DEF CompletableTasks, CompletionCommand, Commands, TransitionMap

\* The request that completes a task.
LEMMA CompleteSubmitStep ==
    ASSUME IInv, NEW s \in Slots, NEW u \in Users, NEW t \in DOMAIN tasks,
           NEW k \in Nat, CompleteSubmit(s, u, t, k)
    PROVE  IInv'
<1>. DEFINE c == tasks[t].case
            cmd == CompletionCommand[tasks[t].type]
            r == [Idle EXCEPT !.kind = "complete", !.phase = "submitted", !.case = c,
                       !.actor = u, !.command = cmd, !.key = <<"task-complete", k>>,
                       !.task = t,
                       !.state = cases[c].state, !.version = cases[c].version]
<1>1. t \in 1..Len(tasks) /\ t \in Nat /\ tasks[t] \in Task
  BY DEF IInv, TypeOK
<1>2. c \in Cases
  BY <1>1 DEF Task
<1>3. cases[c].state \in States \cup {"unopened"} /\ cases[c].version \in Nat
  BY <1>2 DEF IInv, TypeOK, CaseRow
<1>4. cmd \in Commands
  BY CompletionCommands DEF CompleteSubmit
<1>5. Put(s, r) /\ UNCHANGED <<tables, holder>>
  BY DEF CompleteSubmit
<1>. HIDE DEF c, cmd
<1>6. r \in Request
  <2>. DEFINE q == [Idle EXCEPT !.kind = "complete", !.phase = "submitted", !.case = c,
                       !.actor = u, !.command = cmd, !.key = <<"task-complete", k>>,
                       !.task = t]
  <2>1. q \in Request
    BY <1>1, <1>2, <1>4, IdleType DEF Idle, Request, Kinds, Keys, KeyTags
  <2>2. r = [q EXCEPT !.state = cases[c].state, !.version = cases[c].version]
    BY DEF Idle
  <2>. HIDE DEF q, r
  <2>. QED
    BY <1>3, <2>1, <2>2, RequestSnapshot
<1>7. RequestOK(r) /\ Fresh(r)
  BY <1>1, <1>2, <1>4 DEF RequestOK, Fresh, Idle, Moving
<1>. HIDE DEF r
<1>. QED
  BY <1>5, <1>6, <1>7, PutStep DEF IInv, TypeOK

\* The request that delegates a task.
LEMMA DelegateSubmitStep ==
    ASSUME IInv, NEW s \in Slots, NEW u \in Users, NEW t \in DOMAIN tasks,
           NEW target \in Users, DelegateSubmit(s, u, t, target)
    PROVE  IInv'
<1>. DEFINE c == tasks[t].case
            r == [Idle EXCEPT !.kind = "delegate", !.phase = "submitted",
                              !.case = c, !.actor = u, !.task = t, !.arg = target]
<1>1. t \in 1..Len(tasks) /\ t \in Nat /\ tasks[t] \in Task
  BY DEF IInv, TypeOK
<1>2. c \in Cases
  BY <1>1 DEF Task
<1>3. Put(s, r) /\ UNCHANGED <<tables, holder>>
  BY DEF DelegateSubmit
<1>. HIDE DEF c
<1>4. r \in Request
  BY <1>1, <1>2, IdleType DEF Idle, Request, Kinds, Keys, KeyTags
<1>5. RequestOK(r) /\ Fresh(r)
  BY <1>1, <1>2 DEF RequestOK, Fresh, Idle, Moving
<1>. HIDE DEF r
<1>. QED
  BY <1>3, <1>4, <1>5, PutStep DEF IInv, TypeOK

\* A decision of the council makes its checks in the step that reads the case.
LEMMA DecisionBeginStep ==
    ASSUME IInv, NEW s \in Slots, NEW u \in Users \cup {System}, NEW c \in Cases,
           NEW cmd \in Commands, NEW key \in Keys, DecisionBegin(s, u, c, cmd, key)
    PROVE  IInv'
<1>. DEFINE r == [Idle EXCEPT !.kind = "decision", !.phase = "validated", !.case = c,
                             !.actor = u, !.command = cmd, !.key = key, !.filled = TRUE,
                             !.state = cases[c].state, !.version = cases[c].version]
<1>1. cases[c].state \in States \cup {"unopened"} /\ cases[c].version \in Nat
  BY DEF IInv, TypeOK, CaseRow
<1>2. r \in Request
  <2>. DEFINE q == [Idle EXCEPT !.kind = "decision", !.phase = "validated", !.case = c,
                             !.actor = u, !.command = cmd, !.key = key, !.filled = TRUE]
  <2>1. q \in Request
    BY IdleType DEF Idle, Request, Kinds
  <2>2. r = [q EXCEPT !.state = cases[c].state, !.version = cases[c].version]
    BY DEF Idle
  <2>. HIDE DEF q, r
  <2>. QED
    BY <1>1, <2>1, <2>2, RequestSnapshot
<1>3. /\ cases[c].state = "member_approval"
      /\ Permitted(r) /\ Put(s, r) /\ UNCHANGED <<tables, holder>>
  BY DEF DecisionBegin
<1>4. r.case = c /\ r.actor = u /\ r.command = cmd /\ r.kind = "decision"
      /\ r.version = cases[c].version
  BY DEF Idle
<1>. HIDE DEF r
<1>5. RequestOK(r) /\ Fresh(r)
  BY <1>1, <1>3, <1>4 DEF RequestOK, Fresh, Moving, Opened
<1>. QED
  BY <1>2, <1>3, <1>5, PutStep DEF IInv, TypeOK

\* Every request that is submitted keeps the invariant.
LEMMA SubmitStep ==
    ASSUME IInv, NEW s \in Slots, Submit(s)
    PROVE  IInv'
<1>1. ClientNumbers \subseteq Nat
  BY ClientNumbersType DEF IInv
<1>2. ASSUME NEW u \in Users, NEW c \in Cases, NEW k \in ClientNumbers, OpenSubmit(s, u, c, k)
      PROVE  IInv'
  BY <1>1, <1>2, OpenSubmitStep
<1>3. ASSUME NEW u \in Users, NEW c \in Cases, NEW k \in ClientNumbers, NEW cmd \in Offered,
             NEW body \in Bodies(cmd), TransitionSubmit(s, u, c, cmd, k, body[1], body[2])
      PROVE  IInv'
  <2>1. cmd \in Commands
    BY BoundsAssumption
  <2>2. body[1] \in Users \cup {None} /\ body[2] \in BOOLEAN
    BY BodiesType
  <2>. QED
    BY <1>1, <1>3, <2>1, <2>2, TransitionSubmitStep
<1>4. ASSUME NEW u \in Users, NEW c \in Cases, NEW k \in ClientNumbers, NEW level \in Levels,
             ConfidentialitySubmit(s, u, c, k, level)
      PROVE  IInv'
  BY <1>1, <1>4, ConfidentialitySubmitStep
<1>5. ASSUME NEW u \in Users, NEW c \in Cases, NEW k \in ClientNumbers,
             ObjectionBegin(s, u, c, k)
      PROVE  IInv'
  <2>1. "member_objection" \in Commands /\ <<"member-objection", k>> \in Keys
    BY <1>1 DEF Commands, TransitionMap, Keys, KeyTags
  <2>. QED
    BY <1>5, <2>1, DecisionBeginStep DEF ObjectionBegin
<1>6. ASSUME NEW c \in Cases, UnanimityBegin(s, c)
      PROVE  IInv'
  <2>1. PICK i \in 1..Len(transitions) :
            DecisionBegin(s, System, c, "create_decision_draft", <<"decision-unanimity", i>>)
    BY <1>6 DEF UnanimityBegin
  <2>2. "create_decision_draft" \in Commands /\ <<"decision-unanimity", i>> \in Keys
    BY DEF Commands, TransitionMap, Keys, KeyTags, IInv, TypeOK
  <2>. QED
    BY <2>1, <2>2, DecisionBeginStep
<1>7. ASSUME NEW u \in Users, NEW t \in DOMAIN tasks, NEW k \in ClientNumbers,
             CompleteSubmit(s, u, t, k)
      PROVE  IInv'
  BY <1>1, <1>7, CompleteSubmitStep
<1>8. ASSUME NEW u \in Users, NEW t \in DOMAIN tasks, NEW target \in Users,
             DelegateSubmit(s, u, t, target)
      PROVE  IInv'
  BY <1>8, DelegateSubmitStep
<1>. QED
  BY <1>2, <1>3, <1>4, <1>5, <1>6, <1>7, <1>8, Zenon DEF Submit

(***************************************************************************)
(* Serving a request                                                       *)
(***************************************************************************)
\* A state of the map is the state of a case that was opened.
LEMMA PermittedOpened ==
    ASSUME IInv, NEW r, r.command \in Commands, Permitted(r)
    PROVE  Opened(r.case) /\ cases[r.case].state = TransitionMap[r.command].from
<1>1. cases[r.case].state = TransitionMap[r.command].from
  BY DEF Permitted
<1>2. TransitionMap[r.command].from \in States
  BY EdgesJoinStates
<1>. QED
  BY <1>1, <1>2 DEF Opened, States

\* A request that passes its checks takes the lock of its case.
LEMMA AcceptStep ==
    ASSUME IInv, NEW s \in Slots, requests[s].kind \in Moving, Unchanged(s),
           Permitted(requests[s]), Accept(s), TakeLock(s), UNCHANGED tables
    PROVE  IInv'
<1>. DEFINE q == requests[s]
            r == [q EXCEPT !.phase = "validated"]
<1>1. q \in Request /\ RequestOK(q)
  BY DEF IInv, TypeOK
<1>2. r \in Request
  BY <1>1 DEF Request
<1>3. /\ r.kind = q.kind /\ r.case = q.case /\ r.actor = q.actor
      /\ r.command = q.command /\ r.arg = q.arg /\ r.filled = q.filled
      /\ r.task = q.task /\ r.level = q.level /\ r.version = q.version
  BY <1>1 DEF Request
<1>4. q.command \in Commands /\ q.case \in Cases
  BY <1>1 DEF RequestOK, Moving
<1>5. Opened(q.case) /\ q.version = cases[q.case].version
  BY <1>4, PermittedOpened DEF Unchanged
<1>6. Put(s, r)
  BY DEF Accept
<1>. HIDE DEF r
<1>7. RequestOK(r)
  BY <1>1, <1>3 DEF RequestOK
<1>8. Permitted(r)
  BY <1>3 DEF Permitted
<1>9. Fresh(r)
  BY <1>3, <1>4, <1>5, <1>8 DEF Fresh, IInv, TypeOK, CaseRow
<1>10. holder' \in [Cases -> Slots \cup {None}]
  BY DEF TakeLock, IInv, TypeOK
<1>. QED
  BY <1>2, <1>6, <1>7, <1>9, <1>10, PutStep

\* What the checks of a moving request established still holds when it writes.
LEMMA CommitPermitted ==
    ASSUME IInv, NEW s \in Slots, requests[s].kind \in Moving,
           requests[s].phase = "validated", Writable(requests[s])
    PROVE  /\ requests[s] \in Request
           /\ requests[s].case \in Cases /\ requests[s].command \in Commands
           /\ requests[s].actor \in Users \cup {System}
           /\ Permitted(requests[s]) /\ Opened(requests[s].case)
           /\ cases[requests[s].case].state = TransitionMap[requests[s].command].from
<1>1. RequestOK(requests[s]) /\ Fresh(requests[s]) /\ requests[s] \in Request
  BY DEF IInv, TypeOK
<1>2. requests[s].case \in Cases /\ requests[s].command \in Commands
      /\ requests[s].actor \in Users \cup {System}
  BY <1>1 DEF RequestOK, Moving
<1>3. Permitted(requests[s])
  BY <1>1 DEF Fresh, Writable
<1>. QED
  BY <1>1, <1>2, <1>3, PermittedOpened

\* The rows that a moving request writes raise the version of its case.
LEMMA WriteAdvances ==
    ASSUME IInv, NEW s \in Slots, requests[s].kind \in Moving,
           requests[s].phase = "validated", Writable(requests[s]), Write(requests[s])
    PROVE  /\ cases' \in [Cases -> CaseRow] /\ transitions' \in Seq(Entry)
           /\ NewTasks(requests[s]) \in Seq(Task)
           /\ Advance
<1>. DEFINE r == requests[s]
<1>1. /\ r \in Request /\ r.case \in Cases /\ r.command \in Commands
      /\ r.actor \in Users \cup {System} /\ Opened(r.case)
  BY CommitPermitted
<1>2. TypeOK
  BY DEF IInv
<1>3. cases' \in [Cases -> CaseRow] /\ transitions' \in Seq(Entry)
  BY <1>1, <1>2, WriteType
<1>4. NewTasks(r) \in Seq(Task)
  BY <1>1, <1>2, NewTasksType
<1>5. /\ cases'[r.case].version = cases[r.case].version + 1
      /\ cases'[r.case].state = TransitionMap[r.command].to
      /\ \A c \in Cases \ {r.case} : cases'[c] = cases[c]
  BY <1>1, <1>2, MovedCaseType DEF Write, TypeOK
<1>6. TransitionMap[r.command].to \in States
  BY <1>1, EdgesJoinStates
<1>7. cases'[r.case].state # "unopened"
  BY <1>5, <1>6 DEF States
<1>8. cases[r.case].version \in Nat
  BY <1>1, <1>2 DEF TypeOK, CaseRow
<1>. HIDE DEF r
<1>9. Advance
  BY <1>1, <1>5, <1>7, <1>8 DEF Advance, Opened
<1>. QED
  BY <1>3, <1>4, <1>9 DEF r

\* The lock table keeps its type when a request lets its lock go.
LEMMA ReleaseType ==
    ASSUME TypeOK, NEW s \in Slots, Release(s)
    PROVE  holder' \in [Cases -> Slots \cup {None}]
BY DEF Release, TypeOK

\* A transition is executed.
LEMMA TransitionCommitStep ==
    ASSUME IInv, NEW s \in Slots, TransitionCommit(s)
    PROVE  IInv'
<1>. DEFINE r == requests[s]
<1>1. /\ r.kind \in Moving /\ r.phase = "validated" /\ Writable(r) /\ Write(r)
      /\ tasks' = tasks \o NewTasks(r) /\ outbox' = outbox \cup {r.key}
      /\ Finish(s) /\ Release(s)
  BY DEF TransitionCommit, Moving
<1>2. /\ cases' \in [Cases -> CaseRow] /\ transitions' \in Seq(Entry)
      /\ NewTasks(r) \in Seq(Task) /\ Advance
  BY <1>1, WriteAdvances
<1>3. tasks \in Seq(Task) /\ outbox \subseteq Keys /\ r.key \in Keys
  BY DEF IInv, TypeOK, Request
<1>4. tasks' \in Seq(Task) /\ Len(tasks') >= Len(tasks)
  BY <1>1, <1>2, <1>3, ConcatProperties, LenProperties
<1>5. outbox' \subseteq Keys
  BY <1>1, <1>3
<1>6. holder' \in [Cases -> Slots \cup {None}]
  BY <1>1, ReleaseType DEF IInv
<1>. QED
  BY <1>1, <1>2, <1>4, <1>5, <1>6, PreserveFinish

\* A task is completed.
LEMMA CompleteCommitStep ==
    ASSUME IInv, NEW s \in Slots, CompleteCommit(s)
    PROVE  IInv'
<1>. DEFINE r == requests[s]
            marked == [tasks EXCEPT ![r.task].status = "COMPLETED", ![r.task].doneBy = r.actor]
<1>1. /\ r.kind = "complete" /\ r.kind \in Moving /\ r.phase = "validated"
      /\ Writable(r) /\ Write(r)
      /\ tasks' = marked \o NewTasks(r)
      /\ outbox' = outbox \cup {r.key, <<"task-completed", r.key[2]>>}
      /\ Finish(s) /\ Release(s)
  BY DEF CompleteCommit, Moving
<1>2. /\ cases' \in [Cases -> CaseRow] /\ transitions' \in Seq(Entry)
      /\ NewTasks(r) \in Seq(Task) /\ Advance
  BY <1>1, WriteAdvances
<1>3. tasks \in Seq(Task) /\ outbox \subseteq Keys /\ r \in Request /\ RequestOK(r)
  BY DEF IInv, TypeOK
<1>4. r.task \in 1..Len(tasks) /\ r.actor \in Users \cup {None}
  BY <1>1, <1>3 DEF RequestOK
<1>5. marked \in Seq(Task) /\ Len(marked) = Len(tasks)
  <2>. DEFINE row == [tasks[r.task] EXCEPT !.status = "COMPLETED", !.doneBy = r.actor]
  <2>1. tasks[r.task] \in Task
    BY <1>3, <1>4
  <2>2. row \in Task
    BY <1>4, <2>1 DEF Task, Statuses
  <2>3. marked = [tasks EXCEPT ![r.task] = row]
    BY <1>3, <1>4, <2>1 DEF Task
  <2>. HIDE DEF row, marked
  <2>. QED
    BY <1>3, <1>4, <2>2, <2>3, ExceptSeq
<1>. HIDE DEF marked
<1>6. tasks' \in Seq(Task) /\ Len(tasks') >= Len(tasks)
  BY <1>1, <1>2, <1>3, <1>5, ConcatProperties, LenProperties
<1>7. outbox' \subseteq Keys
  BY <1>1, <1>3 DEF Request, Keys, KeyTags
<1>8. holder' \in [Cases -> Slots \cup {None}]
  BY <1>1, ReleaseType DEF IInv
<1>. QED
  BY <1>1, <1>2, <1>6, <1>7, <1>8, PreserveFinish

\* A task is delegated.
LEMMA DelegateCommitStep ==
    ASSUME IInv, NEW s \in Slots, DelegateCommit(s)
    PROVE  IInv'
<1>. DEFINE r == requests[s]
            marked == [tasks EXCEPT ![r.task].status = "DELEGATED"]
            new == [tasks[r.task] EXCEPT !.assignee = r.arg, !.status = "PENDING", !.from = r.task]
<1>1. /\ r.kind = "delegate" /\ tasks' = Append(marked, new) /\ Finish(s)
      /\ UNCHANGED <<cases, transitions, outbox, holder>>
  BY DEF DelegateCommit
<1>2. tasks \in Seq(Task) /\ r \in Request /\ RequestOK(r)
  BY DEF IInv, TypeOK
<1>3. r.task \in 1..Len(tasks) /\ r.arg \in Users \cup {None}
  BY <1>1, <1>2 DEF RequestOK, Request
<1>4. tasks[r.task] \in Task
  BY <1>2, <1>3
<1>5. marked \in Seq(Task) /\ Len(marked) = Len(tasks)
  <2>. DEFINE row == [tasks[r.task] EXCEPT !.status = "DELEGATED"]
  <2>1. row \in Task
    BY <1>4 DEF Task, Statuses
  <2>2. marked = [tasks EXCEPT ![r.task] = row]
    BY <1>2, <1>3, <1>4 DEF Task
  <2>. HIDE DEF row
  <2>. QED
    BY <1>2, <1>3, <2>1, <2>2, ExceptSeq
<1>6. new \in Task
  <2>1. r.task \in Nat
    BY <1>2, <1>3, LenProperties
  <2>. QED
    BY <2>1, <1>3, <1>4 DEF Task, Statuses
<1>. HIDE DEF marked, new
<1>7. tasks' \in Seq(Task) /\ Len(tasks') >= Len(tasks)
  BY <1>1, <1>2, <1>5, <1>6, AppendProperties, LenProperties
<1>8. Advance
  BY <1>1 DEF Advance
<1>. QED
  BY <1>1, <1>7, <1>8, PreserveFinish DEF IInv, TypeOK

\* A case is opened.
LEMMA OpenCommitStep ==
    ASSUME IInv, NEW s \in Slots, OpenCommit(s)
    PROVE  IInv'
<1>. DEFINE r == requests[s]
            e == [case |-> r.case, from |-> "report_submitted", to |-> "report_submitted",
                  command |-> "open_case", actor |-> r.actor, key |-> r.key]
<1>1. /\ r.kind = "open" /\ OpenAllowed(s)
      /\ cases' = [cases EXCEPT ![r.case].state = "report_submitted"]
      /\ transitions' = Append(transitions, e)
      /\ outbox' = outbox \cup {<<"open", r.key[2]>>}
      /\ Finish(s) /\ tasks' = tasks /\ holder' = holder
  BY DEF OpenCommit
<1>2. r \in Request /\ RequestOK(r)
  BY DEF IInv, TypeOK
<1>3. r.case \in Cases /\ r.actor \in Users \cup {System}
  BY <1>1, <1>2 DEF RequestOK
<1>4. cases' \in [Cases -> CaseRow]
  <2>. DEFINE row == [cases[r.case] EXCEPT !.state = "report_submitted"]
  <2>1. cases[r.case] \in CaseRow
    BY <1>3 DEF IInv, TypeOK
  <2>2. row = [state |-> "report_submitted", version |-> cases[r.case].version,
               level |-> cases[r.case].level, closed |-> cases[r.case].closed,
               rapporteur |-> cases[r.case].rapporteur, owner |-> cases[r.case].owner]
    BY <2>1 DEF CaseRow
  <2>3. row \in CaseRow
    BY <2>1, <2>2 DEF CaseRow, States
  <2>4. cases' = [cases EXCEPT ![r.case] = row]
    BY <1>1
  <2>. HIDE DEF row
  <2>. QED
    BY <2>3, <2>4 DEF IInv, TypeOK
<1>5. e \in Entry
  BY <1>2, <1>3 DEF Entry, Request, States
<1>. HIDE DEF e
<1>6. transitions' \in Seq(Entry)
  BY <1>1, <1>5 DEF IInv, TypeOK
<1>7. outbox' \subseteq Keys
  BY <1>1, <1>2 DEF IInv, TypeOK, Request, Keys, KeyTags
<1>8. ~Opened(r.case) /\ cases'[r.case].state = "report_submitted"
  BY <1>1, <1>3 DEF OpenAllowed, IInv, TypeOK, CaseRow
<1>9. \A c \in Cases \ {r.case} : cases'[c] = cases[c]
  BY <1>1 DEF IInv, TypeOK
<1>10. Advance
  BY <1>8, <1>9 DEF Advance, Opened
<1>11. /\ tasks' \in Seq(Task) /\ Len(tasks') >= Len(tasks)
       /\ holder' \in [Cases -> Slots \cup {None}]
  BY <1>1, LenProperties DEF IInv, TypeOK
<1>. QED
  BY <1>1, <1>4, <1>6, <1>7, <1>10, <1>11, PreserveFinish

\* The confidentiality of a case changes.
LEMMA ConfidentialityCommitStep ==
    ASSUME IInv, NEW s \in Slots, ConfidentialityCommit(s)
    PROVE  IInv'
<1>. DEFINE r == requests[s]
<1>1. /\ r.kind = "confidentiality" /\ r.phase = "validated"
      /\ cases' = [cases EXCEPT ![r.case].level = r.level, ![r.case].version = @ + 1]
      /\ outbox' = outbox \cup {r.key}
      /\ Finish(s)
      /\ transitions' = transitions /\ tasks' = tasks /\ holder' = holder
  BY DEF ConfidentialityCommit
<1>2. r \in Request /\ RequestOK(r) /\ Fresh(r)
  BY DEF IInv, TypeOK
<1>3. r.case \in Cases /\ r.level \in Levels /\ Opened(r.case)
  BY <1>1, <1>2 DEF RequestOK, Fresh, Moving
<1>4. cases[r.case] \in CaseRow
  BY <1>3 DEF IInv, TypeOK
<1>5. cases' \in [Cases -> CaseRow]
  BY <1>1, <1>3, <1>4 DEF IInv, TypeOK, CaseRow
<1>6. outbox' \subseteq Keys
  BY <1>1, <1>2 DEF IInv, TypeOK, Request
<1>7. /\ cases'[r.case].version = cases[r.case].version + 1
      /\ cases'[r.case].state = cases[r.case].state
  BY <1>1, <1>3, <1>4 DEF IInv, TypeOK, CaseRow
<1>8. \A c \in Cases \ {r.case} : cases'[c] = cases[c]
  BY <1>1 DEF IInv, TypeOK
<1>9. Advance
  BY <1>3, <1>4, <1>7, <1>8 DEF Advance, Opened, CaseRow
<1>10. /\ transitions' \in Seq(Entry)
       /\ tasks' \in Seq(Task) /\ Len(tasks') >= Len(tasks)
       /\ holder' \in [Cases -> Slots \cup {None}]
  BY <1>1, LenProperties DEF IInv, TypeOK
<1>. QED
  BY <1>1, <1>5, <1>6, <1>9, <1>10, PreserveFinish

\* Every request that is served keeps the invariant.
LEMMA ServeStep ==
    ASSUME IInv, NEW s \in Slots, Serve(s)
    PROVE  IInv'
<1>1. CASE TransitionBegin(s)
  BY <1>1, AcceptStep DEF TransitionBegin, Moving
<1>2. CASE CompleteBegin(s)
  BY <1>2, AcceptStep DEF CompleteBegin, CompleteAllowed, Moving
<1>3. CASE \/ TransitionReject(s) \/ TransitionReplay(s) \/ CompleteReject(s)
           \/ DelegateReject(s) \/ CommitConflict(s)
  <2>1. Refuse(s)
    BY <1>3 DEF TransitionReject, TransitionReplay, CompleteReject, DelegateReject,
                CommitConflict
  <2>. QED
    BY <2>1, RefuseStep
<1>. QED
  BY <1>1, <1>2, <1>3, OpenCommitStep, TransitionCommitStep, ConfidentialityCommitStep,
     CompleteCommitStep, DelegateCommitStep DEF Serve

(***************************************************************************)
(* The invariant holds                                                     *)
(***************************************************************************)
\* No case is opened and no request is in flight at the beginning.
LEMMA InitHolds == Init => IInv
<1>. SUFFICES ASSUME Init PROVE IInv
  OBVIOUS
<1>1. cases \in [Cases -> CaseRow]
  BY UsersAssumption DEF Init, CaseRow
<1>2. requests \in [Slots -> Request]
  BY IdleType DEF Init
<1>3. TypeOK
  BY <1>1, <1>2 DEF Init, TypeOK
<1>4. ASSUME NEW s \in Slots
      PROVE  RequestOK(requests[s]) /\ Fresh(requests[s])
  <2>1. requests[s] = Idle
    BY DEF Init
  <2>. QED
    BY <2>1 DEF RequestOK, Fresh, Idle, Moving
<1>. QED
  BY <1>3, <1>4 DEF IInv

\* Every step keeps the invariant.
LEMMA NextHolds == IInv /\ [Next]_vars => IInv'
<1>. SUFFICES ASSUME IInv, [Next]_vars PROVE IInv'
  OBVIOUS
<1>1. ASSUME NEW s \in Slots, Submit(s) PROVE IInv'
  BY <1>1, SubmitStep
<1>2. ASSUME NEW s \in Slots, Serve(s) PROVE IInv'
  BY <1>2, ServeStep
<1>3. ASSUME NEW s \in Slots, Crash(s) PROVE IInv'
  BY <1>3, RefuseStep DEF Crash
<1>4. CASE UNCHANGED vars
  BY <1>4 DEF vars, IInv, TypeOK, RequestOK, Fresh, Permitted, Assignable, Cleared, Opened
<1>. QED
  BY <1>1, <1>2, <1>3, <1>4 DEF Next

\* The checks of every transaction stay good until its commit, or the version shows
\* that they do not (executeInTransaction's UPDATE ... WHERE lock_version = ...).
THEOREM ChecksStayGood == Spec => []IInv
BY InitHolds, NextHolds, PTL DEF Spec

\* The tables of the engine and the requests in flight have the declared types.
THEOREM TypeCorrect == Spec => []TypeOK
<1>1. IInv => TypeOK
  BY DEF IInv
<1>. QED
  BY <1>1, ChecksStayGood, PTL

(***************************************************************************)
(* What a step does to the tables and to the requests in flight            *)
(***************************************************************************)
\* The kinds of request that run under the advisory lock of their case.
Locking == {"transition", "complete"}

\* The transaction of the slot is past its checks and not over.
Inside(s) == requests[s].kind \in Locking /\ requests[s].phase = "validated"

\* The tag of the key a request writes is that of its kind, so that keys of two
\* kinds never meet (the prefixes of the idempotency keys).
KeyOK(r) ==
    /\ r.kind \in {"open", "transition"} => r.key[1] = "api"
    /\ r.kind = "complete" => r.key[1] = "task-complete"
    /\ r.kind = "decision" => r.key[1] \in {"decision-unanimity", "member-objection"}
    /\ r.kind = "confidentiality" => r.key[1] = "confidentiality"

\* A completion is for a task of its case, by the command of its type, and past its
\* checks it knows that nobody completed the task before, or the version shows it.
Claims(r) ==
    r.kind = "complete" =>
        /\ r.task \in 1..Len(tasks)
        /\ tasks[r.task].case = r.case
        /\ tasks[r.task].type \in CompletableTasks
        /\ r.command = CompletionCommand[tasks[r.task].type]
        /\ r.phase = "validated" /\ r.version = cases[r.case].version
              => tasks[r.task].status # "COMPLETED"

\* What is known of a request in the step that submits it.
Starts(s, r) ==
    /\ ~Busy(s) /\ Put(s, r) /\ UNCHANGED <<tables, holder>>
    /\ KeyOK(r) /\ Claims(r)
    /\ r.kind \in Locking => r.phase = "submitted"

\* A transaction takes the lock and passes its checks.
Enters(s) ==
    /\ requests[s].kind \in Locking /\ requests[s].phase = "submitted"
    /\ LockFree(s) /\ Accept(s) /\ TakeLock(s) /\ UNCHANGED tables
    /\ requests[s].kind = "complete" => tasks[requests[s].task].status # "COMPLETED"

\* A submission writes no row, and starts one request.
LEMMA Submissions ==
    ASSUME IInv, NEW s \in Slots, Submit(s)
    PROVE  \E r : Starts(s, r)
<1>1. ASSUME NEW u, NEW c, NEW k, OpenSubmit(s, u, c, k)
      PROVE  \E r : Starts(s, r)
  <2>. DEFINE r == [Idle EXCEPT !.kind = "open", !.phase = "validated", !.case = c,
                                !.actor = u, !.key = <<"api", k>>]
  <2>1. Put(s, r) /\ UNCHANGED <<tables, holder>> /\ ~Busy(s)
    BY <1>1 DEF OpenSubmit, CanSubmit
  <2>2. KeyOK(r) /\ Claims(r) /\ r.kind \notin Locking
    BY DEF Idle, KeyOK, Claims, Locking
  <2>. HIDE DEF r
  <2>. QED
    BY <2>1, <2>2 DEF Starts
<1>2. ASSUME NEW u, NEW c, NEW cmd, NEW k, NEW arg, NEW filled,
             TransitionSubmit(s, u, c, cmd, k, arg, filled)
      PROVE  \E r : Starts(s, r)
  <2>. DEFINE r == [Idle EXCEPT !.kind = "transition", !.phase = "submitted", !.case = c,
                                !.actor = u, !.command = cmd, !.key = <<"api", k>>,
                                !.arg = arg, !.filled = filled,
                                !.state = cases[c].state, !.version = cases[c].version]
  <2>1. Put(s, r) /\ UNCHANGED <<tables, holder>> /\ ~Busy(s)
    BY <1>2 DEF TransitionSubmit, CanSubmit
  <2>2. r.kind = "transition" /\ r.phase = "submitted" /\ r.key = <<"api", k>>
    BY DEF Idle
  <2>. HIDE DEF r
  <2>3. KeyOK(r) /\ Claims(r)
    BY <2>2 DEF KeyOK, Claims
  <2>. QED
    BY <2>1, <2>2, <2>3 DEF Starts
<1>3. ASSUME NEW u, NEW c, NEW k, NEW level, ConfidentialitySubmit(s, u, c, k, level)
      PROVE  \E r : Starts(s, r)
  <2>. DEFINE r == [Idle EXCEPT !.kind = "confidentiality", !.phase = "validated",
                           !.case = c, !.actor = u, !.key = <<"confidentiality", k>>,
                           !.level = level, !.version = cases[c].version]
  <2>1. Put(s, r) /\ UNCHANGED <<tables, holder>> /\ ~Busy(s)
    BY <1>3 DEF ConfidentialitySubmit, CanSubmit
  <2>2. KeyOK(r) /\ Claims(r) /\ r.kind \notin Locking
    BY DEF Idle, KeyOK, Claims, Locking
  <2>. HIDE DEF r
  <2>. QED
    BY <2>1, <2>2 DEF Starts
<1>4. ASSUME NEW u, NEW c, NEW cmd, NEW key, DecisionBegin(s, u, c, cmd, key),
             key[1] \in {"decision-unanimity", "member-objection"}
      PROVE  \E r : Starts(s, r)
  <2>. DEFINE r == [Idle EXCEPT !.kind = "decision", !.phase = "validated", !.case = c,
                             !.actor = u, !.command = cmd, !.key = key, !.filled = TRUE,
                             !.state = cases[c].state, !.version = cases[c].version]
  <2>1. Put(s, r) /\ UNCHANGED <<tables, holder>> /\ ~Busy(s)
    BY <1>4 DEF DecisionBegin, CanSubmit
  <2>2. r.kind = "decision" /\ r.key = key
    BY DEF Idle
  <2>. HIDE DEF r
  <2>3. KeyOK(r) /\ Claims(r) /\ r.kind \notin Locking
    BY <1>4, <2>2 DEF KeyOK, Claims, Locking
  <2>. QED
    BY <2>1, <2>3 DEF Starts
<1>5. ASSUME NEW u, NEW t \in DOMAIN tasks, NEW k, CompleteSubmit(s, u, t, k)
      PROVE  \E r : Starts(s, r)
  <2>. DEFINE c == tasks[t].case
              cmd == CompletionCommand[tasks[t].type]
              r == [Idle EXCEPT !.kind = "complete", !.phase = "submitted", !.case = c,
                       !.actor = u, !.command = cmd, !.key = <<"task-complete", k>>,
                       !.task = t,
                       !.state = cases[c].state, !.version = cases[c].version]
  <2>1. Put(s, r) /\ UNCHANGED <<tables, holder>> /\ ~Busy(s)
    BY <1>5 DEF CompleteSubmit, CanSubmit
  <2>2. t \in 1..Len(tasks) /\ tasks[t].type \in CompletableTasks
    BY <1>5 DEF CompleteSubmit, IInv, TypeOK
  <2>3. /\ r.kind = "complete" /\ r.phase = "submitted" /\ r.task = t
        /\ r.key = <<"task-complete", k>> /\ r.case = tasks[t].case
        /\ r.command = CompletionCommand[tasks[t].type]
    BY DEF Idle
  <2>. HIDE DEF r
  <2>4. KeyOK(r) /\ Claims(r)
    BY <2>2, <2>3 DEF KeyOK, Claims
  <2>. QED
    BY <2>1, <2>3, <2>4 DEF Starts
<1>6. ASSUME NEW u, NEW t, NEW target, DelegateSubmit(s, u, t, target)
      PROVE  \E r : Starts(s, r)
  <2>. DEFINE c == tasks[t].case
              r == [Idle EXCEPT !.kind = "delegate", !.phase = "submitted",
                              !.case = c, !.actor = u, !.task = t, !.arg = target]
  <2>1. Put(s, r) /\ UNCHANGED <<tables, holder>> /\ ~Busy(s)
    BY <1>6 DEF DelegateSubmit, CanSubmit
  <2>2. KeyOK(r) /\ Claims(r) /\ r.kind \notin Locking
    BY DEF Idle, KeyOK, Claims, Locking
  <2>. HIDE DEF r
  <2>. QED
    BY <2>1, <2>2 DEF Starts
<1>7. ASSUME NEW c, UnanimityBegin(s, c)
      PROVE  \E r : Starts(s, r)
  <2>1. PICK i \in 1..Len(transitions) :
            DecisionBegin(s, System, c, "create_decision_draft", <<"decision-unanimity", i>>)
    BY <1>7, Zenon DEF UnanimityBegin
  <2>. QED
    BY <1>4, <2>1
<1>8. ASSUME NEW u, NEW c, NEW k, ObjectionBegin(s, u, c, k)
      PROVE  \E r : Starts(s, r)
  BY <1>4, <1>8 DEF ObjectionBegin
<1>. QED
  BY <1>1, <1>2, <1>3, <1>5, <1>6, <1>7, <1>8, Zenon DEF Submit

\* A step that leaves the tables alone, or the commit of one of the five kinds of
\* transaction.
LEMMA WritingSteps ==
    ASSUME IInv, [Next]_vars
    PROVE  \/ UNCHANGED tables
           \/ \E s \in Slots : \/ OpenCommit(s) \/ TransitionCommit(s) \/ CompleteCommit(s)
                               \/ ConfidentialityCommit(s) \/ DelegateCommit(s)
<1>1. ASSUME NEW s \in Slots, Submit(s)
      PROVE  UNCHANGED tables
  BY <1>1, Submissions DEF Starts
<1>2. ASSUME NEW s \in Slots, Serve(s)
      PROVE  \/ UNCHANGED tables
             \/ OpenCommit(s) \/ TransitionCommit(s) \/ CompleteCommit(s)
             \/ ConfidentialityCommit(s) \/ DelegateCommit(s)
  BY <1>2 DEF Serve, TransitionBegin, TransitionReject, TransitionReplay, CompleteBegin,
     CompleteReject, DelegateReject, CommitConflict, Refuse
<1>3. ASSUME NEW s \in Slots, Crash(s)
      PROVE  UNCHANGED tables
  BY <1>3 DEF Crash, Refuse
<1>. QED
  BY <1>1, <1>2, <1>3 DEF Next, vars, tables

\* A step starts a request, lets one into its transaction, or ends one; and one that
\* ends without letting a lock go never had one.
LEMMA RequestSteps ==
    ASSUME IInv, [Next]_vars
    PROVE  \/ UNCHANGED <<requests, holder>>
           \/ \E s \in Slots :
                \/ \E r : Starts(s, r)
                \/ Enters(s)
                \/ Finish(s) /\ Release(s)
                \/ Finish(s) /\ holder' = holder /\ requests[s].kind \notin Locking
<1>1. ASSUME NEW s \in Slots, Serve(s)
      PROVE  \/ Enters(s)
             \/ Finish(s) /\ Release(s)
             \/ Finish(s) /\ holder' = holder /\ requests[s].kind \notin Locking
  <2>1. CASE TransitionBegin(s)
    BY <2>1 DEF TransitionBegin, Enters, Locking
  <2>2. CASE CompleteBegin(s)
    BY <2>2 DEF CompleteBegin, CompleteAllowed, Enters, Locking
  <2>3. CASE \/ TransitionReject(s) \/ TransitionReplay(s) \/ CompleteReject(s)
             \/ DelegateReject(s) \/ CommitConflict(s)
    BY <2>3 DEF TransitionReject, TransitionReplay, CompleteReject, DelegateReject,
                CommitConflict, Refuse
  <2>4. CASE TransitionCommit(s) \/ CompleteCommit(s)
    BY <2>4 DEF TransitionCommit, CompleteCommit
  <2>5. CASE OpenCommit(s) \/ ConfidentialityCommit(s) \/ DelegateCommit(s)
    BY <2>5 DEF OpenCommit, ConfidentialityCommit, DelegateCommit, Locking
  <2>. QED
    BY <1>1, <2>1, <2>2, <2>3, <2>4, <2>5 DEF Serve
<1>2. ASSUME NEW s \in Slots, Crash(s)
      PROVE  Finish(s) /\ Release(s)
  BY <1>2 DEF Crash, Refuse
<1>. QED
  BY <1>1, <1>2, Submissions DEF Next, vars

\* A transaction that moves a case, by a request, a completed task or a vote.
Moves(s) ==
    /\ requests[s].kind \in Moving /\ requests[s].phase = "validated"
    /\ Writable(requests[s]) /\ Write(requests[s])

\* The only steps that write a case or its history open it, move it or change its
\* confidentiality (the four services that update the cases table).
LEMMA StepKinds ==
    ASSUME IInv, [Next]_vars
    PROVE  \/ cases' = cases /\ transitions' = transitions
           \/ \E s \in Slots : OpenCommit(s) \/ Moves(s) \/ ConfidentialityCommit(s)
<1>1. ASSUME NEW s \in Slots, TransitionCommit(s)
      PROVE  Moves(s)
  BY <1>1 DEF TransitionCommit, Moves, Moving
<1>2. ASSUME NEW s \in Slots, CompleteCommit(s)
      PROVE  Moves(s)
  BY <1>2 DEF CompleteCommit, Moves, Moving
<1>3. ASSUME NEW s \in Slots, DelegateCommit(s)
      PROVE  cases' = cases /\ transitions' = transitions
  BY <1>3 DEF DelegateCommit
<1>. QED
  BY <1>1, <1>2, <1>3, WritingSteps DEF tables

(***************************************************************************)
(* What a step writes in a case and its history                            *)
(***************************************************************************)
\* The entry that opens a case.
LEMMA OpeningEntry ==
    ASSUME IInv, NEW s \in Slots, OpenCommit(s)
    PROVE  \E e \in Entry :
              /\ transitions' = Append(transitions, e)
              /\ e.command = "open_case" /\ e.case = requests[s].case
              /\ e.actor = requests[s].actor
              /\ ~Opened(e.case) /\ Cleared(e.actor, e.case)
              /\ cases'[e.case] = [cases[e.case] EXCEPT !.state = e.to]
              /\ \A c \in Cases \ {e.case} : cases'[c] = cases[c]
<1>. DEFINE r == requests[s]
            e == [case |-> r.case, from |-> "report_submitted", to |-> "report_submitted",
                  command |-> "open_case", actor |-> r.actor, key |-> r.key]
<1>1. /\ r.kind = "open" /\ r.phase = "validated" /\ ~Opened(r.case)
      /\ cases' = [cases EXCEPT ![r.case].state = "report_submitted"]
      /\ transitions' = Append(transitions, e)
  BY DEF OpenCommit, OpenAllowed
<1>2. r \in Request /\ RequestOK(r) /\ Fresh(r)
  BY DEF IInv, TypeOK
<1>3. r.case \in Cases /\ r.actor \in Users \cup {System} /\ Cleared(r.actor, r.case)
  BY <1>1, <1>2 DEF RequestOK, Fresh
<1>4. e \in Entry
  BY <1>2, <1>3 DEF Entry, Request, States
<1>5. /\ cases'[r.case] = [cases[r.case] EXCEPT !.state = "report_submitted"]
      /\ \A c \in Cases \ {r.case} : cases'[c] = cases[c]
  BY <1>1, <1>3 DEF IInv, TypeOK
<1>6. e.case = r.case /\ e.actor = r.actor /\ e.command = "open_case"
      /\ e.to = "report_submitted"
  OBVIOUS
<1>. HIDE DEF e
<1>. QED
  BY <1>1, <1>3, <1>4, <1>5, <1>6

\* The entry of a transaction that moves a case: it leaves the state the case is in,
\* along the edge of its command.
LEMMA MovingEntry ==
    ASSUME IInv, NEW s \in Slots, Moves(s)
    PROVE  \E e \in Entry :
              /\ transitions' = Append(transitions, e)
              /\ e.command = requests[s].command /\ e.case = requests[s].case
              /\ e.actor = requests[s].actor
              /\ e.command \in Commands /\ Opened(e.case) /\ Permitted(requests[s])
              /\ e.from = cases[e.case].state
              /\ e.from = TransitionMap[e.command].from
              /\ e.to = TransitionMap[e.command].to
              /\ cases'[e.case] = MovedCase(requests[s])
              /\ \A c \in Cases \ {e.case} : cases'[c] = cases[c]
<1>. DEFINE r == requests[s]
            e == [case |-> r.case, from |-> cases[r.case].state,
                  to |-> TransitionMap[r.command].to, command |-> r.command,
                  actor |-> r.actor, key |-> r.key]
<1>1. /\ r \in Request /\ r.case \in Cases /\ r.command \in Commands
      /\ r.actor \in Users \cup {System} /\ Permitted(r) /\ Opened(r.case)
      /\ cases[r.case].state = TransitionMap[r.command].from
  BY CommitPermitted DEF Moves
<1>2. /\ transitions' = Append(transitions, e)
      /\ cases' = [cases EXCEPT ![r.case] = MovedCase(r)]
  BY DEF Moves, Write
<1>3. e \in Entry
  BY <1>1, EdgesJoinStates DEF Entry, Request
<1>4. cases'[r.case] = MovedCase(r) /\ \A c \in Cases \ {r.case} : cases'[c] = cases[c]
  BY <1>1, <1>2 DEF IInv, TypeOK
<1>5. /\ e.case = r.case /\ e.actor = r.actor /\ e.command = r.command
      /\ e.from = cases[r.case].state /\ e.to = TransitionMap[r.command].to
  OBVIOUS
<1>. HIDE DEF e
<1>. QED
  BY <1>1, <1>2, <1>3, <1>4, <1>5

\* A change of confidentiality writes the level and the version of an opened case.
LEMMA LevelChange ==
    ASSUME IInv, NEW s \in Slots, ConfidentialityCommit(s)
    PROVE  /\ transitions' = transitions
           /\ requests[s].case \in Cases /\ Opened(requests[s].case)
           /\ cases'[requests[s].case] =
                [cases[requests[s].case] EXCEPT !.level = requests[s].level,
                                                !.version = @ + 1]
           /\ \A c \in Cases \ {requests[s].case} : cases'[c] = cases[c]
<1>. DEFINE r == requests[s]
<1>1. r \in Request /\ RequestOK(r) /\ Fresh(r)
  BY DEF IInv, TypeOK
<1>2. /\ r.kind = "confidentiality" /\ r.phase = "validated"
      /\ cases' = [cases EXCEPT ![r.case].level = r.level, ![r.case].version = @ + 1]
      /\ transitions' = transitions
  BY DEF ConfidentialityCommit
<1>3. r.case \in Cases /\ Opened(r.case)
  BY <1>1, <1>2 DEF RequestOK, Fresh
<1>4. cases[r.case] \in CaseRow
  BY <1>3 DEF IInv, TypeOK
<1>. QED
  BY <1>2, <1>3, <1>4 DEF IInv, TypeOK, CaseRow

(***************************************************************************)
(* The engine implements the ledger                                        *)
(***************************************************************************)
\* The ledger reads the same map of transitions.
LEMMA SameMap ==
    /\ Ledger!States = States /\ Ledger!Commands = Commands
    /\ Ledger!TransitionMap = TransitionMap
<1>1. Ledger!TransitionMap = TransitionMap
  BY Zenon DEF Ledger!TransitionMap, TransitionMap, Ledger!Edge, Edge, Ledger!AnyRole, AnyRole
<1>. QED
  BY <1>1, Zenon DEF Ledger!States, States, Ledger!Commands, Commands

\* Every step of the engine is a step of the ledger, or leaves it alone.
LEMMA LedgerStep ==
    ASSUME IInv, [Next]_vars
    PROVE  [Ledger!Next]_<<[c \in Cases |-> cases[c].state],
                           [c \in Cases |-> cases[c].version]>>
<1>. DEFINE stage == [c \in Cases |-> cases[c].state]
            revision == [c \in Cases |-> cases[c].version]
<1>1. ASSUME NEW c \in Cases, \A d \in Cases \ {c} : cases'[d] = cases[d]
      PROVE  /\ stage' = [stage EXCEPT ![c] = cases'[c].state]
             /\ revision' = [revision EXCEPT ![c] = cases'[c].version]
  BY <1>1
<1>2. CASE cases' = cases
  BY <1>2
<1>3. ASSUME NEW s \in Slots, OpenCommit(s)
      PROVE  Ledger!Next
  <2>1. PICK c \in Cases : /\ ~Opened(c)
                           /\ cases'[c] = [cases[c] EXCEPT !.state = "report_submitted"]
                           /\ \A d \in Cases \ {c} : cases'[d] = cases[d]
    <3>1. /\ requests[s].kind = "open" /\ ~Opened(requests[s].case)
          /\ cases' = [cases EXCEPT ![requests[s].case].state = "report_submitted"]
      BY <1>3 DEF OpenCommit, OpenAllowed
    <3>2. requests[s].case \in Cases
      BY <3>1 DEF IInv, RequestOK
    <3>. QED
      BY <3>1, <3>2 DEF IInv, TypeOK
  <2>2. cases[c] \in CaseRow
    BY <2>1 DEF IInv, TypeOK
  <2>3. cases'[c].state = "report_submitted" /\ cases'[c].version = cases[c].version
    BY <2>1, <2>2 DEF CaseRow
  <2>4. /\ stage[c] = "unopened"
        /\ stage' = [stage EXCEPT ![c] = "report_submitted"]
        /\ revision' = revision
    BY <1>1, <2>1, <2>3 DEF Opened
  <2>. QED
    BY <2>1, <2>4 DEF Ledger!Next, Ledger!Open
<1>4. ASSUME NEW s \in Slots, Moves(s)
      PROVE  Ledger!Next
  <2>1. PICK e \in Entry :
            /\ e.command = requests[s].command /\ e.case = requests[s].case
            /\ e.command \in Commands
            /\ cases[e.case].state = TransitionMap[e.command].from
            /\ cases'[e.case] = MovedCase(requests[s])
            /\ \A c \in Cases \ {e.case} : cases'[c] = cases[c]
    <3>1. PICK e \in Entry :
              /\ e.command = requests[s].command /\ e.case = requests[s].case
              /\ e.command \in Commands
              /\ e.from = cases[e.case].state
              /\ e.from = TransitionMap[e.command].from
              /\ cases'[e.case] = MovedCase(requests[s])
              /\ \A c \in Cases \ {e.case} : cases'[c] = cases[c]
      BY <1>4, MovingEntry
    <3>. QED
      BY <3>1
  <2>. DEFINE c == e.case
              cmd == e.command
  <2>2. requests[s] \in Request /\ c \in Cases /\ TypeOK
    BY <2>1 DEF IInv, TypeOK, Entry
  <2>3. /\ cases'[c].state = TransitionMap[cmd].to
        /\ cases'[c].version = cases[c].version + 1
    BY <2>1, <2>2, MovedCaseType
  <2>. HIDE DEF c, cmd
  <2>4. /\ stage[c] = TransitionMap[cmd].from
        /\ stage' = [stage EXCEPT ![c] = TransitionMap[cmd].to]
        /\ revision' = [revision EXCEPT ![c] = revision[c] + 1]
    BY <1>1, <2>1, <2>2, <2>3 DEF c, cmd
  <2>5. cmd \in Commands
    BY <2>1 DEF cmd
  <2>6. Ledger!Move(c, cmd)
    BY <2>4, SameMap DEF Ledger!Move
  <2>. QED
    BY <2>2, <2>5, <2>6, SameMap, Zenon DEF Ledger!Next
<1>5. ASSUME NEW s \in Slots, ConfidentialityCommit(s)
      PROVE  Ledger!Next
  <2>1. PICK c \in Cases :
            /\ Opened(c)
            /\ cases'[c] = [cases[c] EXCEPT !.level = requests[s].level, !.version = @ + 1]
            /\ \A d \in Cases \ {c} : cases'[d] = cases[d]
    BY <1>5, LevelChange
  <2>2. cases[c] \in CaseRow
    BY <2>1 DEF IInv, TypeOK
  <2>3. cases'[c].state = cases[c].state /\ cases'[c].version = cases[c].version + 1
    BY <2>1, <2>2 DEF CaseRow
  <2>4. /\ stage[c] \in States
        /\ stage' = stage
        /\ revision' = [revision EXCEPT ![c] = revision[c] + 1]
    BY <1>1, <2>1, <2>2, <2>3 DEF Opened, CaseRow
  <2>5. Ledger!Touch(c)
    BY <2>4, SameMap DEF Ledger!Touch
  <2>. QED
    BY <2>1, <2>5, Zenon DEF Ledger!Next
<1>. QED
  BY <1>2, <1>3, <1>4, <1>5, StepKinds

\* Whatever the requests, retries, crashes and losers of the race for a version do,
\* the cases table behaves as CaseLedger promises.
THEOREM EngineKeepsLedger == Spec => ImplementsLedger
<1>1. Init => Ledger!Init
  BY DEF Init, Ledger!Init
<1>2. IInv /\ [Next]_vars =>
        [Ledger!Next]_<<[c \in Cases |-> cases[c].state],
                        [c \in Cases |-> cases[c].version]>>
  BY LedgerStep
<1>. QED
  BY <1>1, <1>2, ChecksStayGood, PTL DEF ImplementsLedger, Ledger!Spec, Spec

(***************************************************************************)
(* The history is a path of the map                                        *)
(***************************************************************************)
\* The two conjuncts of HistoryChained, of one entry and of one case.
Chained(i) ==
    LET e == transitions[i]
    IN  IF e.command = "open_case"
        THEN \A j \in 1..(i - 1) : transitions[j].case # e.case
        ELSE /\ e.from = TransitionMap[e.command].from
             /\ e.to = TransitionMap[e.command].to
             /\ \E j \in 1..(i - 1) :
                   IsLatest(j, e.case, i - 1) /\ transitions[j].to = e.from

Reached(c) ==
    \E j \in 1..Len(transitions) :
        IsLatest(j, c, Len(transitions)) /\ transitions[j].to = cases[c].state

HInv ==
    /\ \A i \in 1..Len(transitions) : Chained(i) /\ Opened(transitions[i].case)
    /\ \A c \in Cases : Opened(c) => Reached(c)

\* An entry that starts where the history of its case ended, or begins it, and the
\* state it reached: the history stays a path.
LEMMA Extend ==
    ASSUME TypeOK, TypeOK', HInv, NEW e \in Entry, transitions' = Append(transitions, e),
           cases'[e.case].state = e.to,
           \A c \in Cases \ {e.case} : cases'[c] = cases[c],
           \/ e.command = "open_case" /\ ~Opened(e.case)
           \/ /\ e.command \in Commands /\ Opened(e.case)
              /\ e.from = cases[e.case].state
              /\ e.from = TransitionMap[e.command].from
              /\ e.to = TransitionMap[e.command].to
    PROVE  HInv'
<1>1. PICK n \in Nat :
      /\ n = Len(transitions) /\ Len(transitions') = n + 1
      /\ transitions'[n + 1] = e
      /\ \A i \in 1..n : transitions'[i] = transitions[i] /\ transitions[i] \in Entry
  <2>1. /\ transitions \in Seq(Entry) /\ Len(transitions) \in Nat
        /\ Len(transitions') = Len(transitions) + 1
        /\ transitions'[Len(transitions) + 1] = e
        /\ \A i \in 1..Len(transitions) : transitions'[i] = transitions[i]
    BY AppendProperties, LenProperties DEF TypeOK
  <2>2. \A i \in 1..Len(transitions) : transitions[i] \in Entry
    BY <2>1, ElementOfSeq
  <2>. QED
    BY <2>1, <2>2
<1>2. e.case \in Cases /\ e.to \in States
  BY DEF Entry
<1>3. \A c \in Cases : Opened(c) => cases'[c].state # "unopened"
  BY <1>2 DEF Opened, States
<1>4. cases'[e.case].state # "unopened"
  BY <1>2 DEF States
<1>5. ASSUME NEW i \in 1..n
      PROVE  Chained(i)' /\ Opened(transitions[i].case)'
  <2>1. Chained(i) /\ Opened(transitions[i].case) /\ transitions[i].case \in Cases
    BY <1>1 DEF HInv, Entry
  <2>2. \A j \in 1..i : transitions'[j] = transitions[j]
    BY <1>1
  <2>3. Chained(i)'
    BY <1>1, <2>1, <2>2 DEF Chained, IsLatest
  <2>4. Opened(transitions[i].case)'
    BY <1>1, <1>3, <2>1 DEF Opened
  <2>. QED
    BY <2>3, <2>4
<1>6. Chained(n + 1)' /\ Opened(transitions[n + 1].case)'
  <2>1. CASE e.command = "open_case" /\ ~Opened(e.case)
    <3>1. \A j \in 1..n : transitions'[j].case # e.case
      BY <1>1, <2>1 DEF HInv
    <3>. QED
      BY <1>1, <1>4, <2>1, <3>1 DEF Chained, Opened
  <2>2. CASE /\ e.command \in Commands /\ Opened(e.case)
             /\ e.from = cases[e.case].state
             /\ e.from = TransitionMap[e.command].from
             /\ e.to = TransitionMap[e.command].to
    <3>1. e.command # "open_case"
      BY <2>2 DEF Commands, TransitionMap
    <3>2. PICK j \in 1..n : IsLatest(j, e.case, n) /\ transitions[j].to = e.from
      BY <1>1, <1>2, <2>2 DEF HInv, Reached
    <3>3. IsLatest(j, e.case, n)' /\ transitions'[j].to = e.from
      BY <1>1, <3>2 DEF IsLatest
    <3>. QED
      BY <1>1, <1>4, <2>2, <3>1, <3>3 DEF Chained, Opened
  <2>. QED
    BY <2>1, <2>2
<1>7. ASSUME NEW c \in Cases, Opened(c)'
      PROVE  Reached(c)'
  <2>1. CASE c = e.case
    BY <1>1, <2>1 DEF Reached, IsLatest
  <2>2. CASE c # e.case
    <3>1. cases'[c] = cases[c] /\ Opened(c)
      BY <1>7, <2>2 DEF Opened
    <3>2. PICK j \in 1..n : IsLatest(j, c, n) /\ transitions[j].to = cases[c].state
      BY <1>1, <3>1 DEF HInv, Reached
    <3>3. IsLatest(j, c, n + 1)'
      <4>1. ASSUME NEW i \in (j + 1)..(n + 1)
            PROVE  transitions'[i].case # c
        <5>1. i = n + 1 \/ i \in (j + 1)..n
          OBVIOUS
        <5>. QED
          BY <1>1, <2>2, <3>2, <5>1 DEF IsLatest
      <4>. QED
        BY <1>1, <3>2, <4>1 DEF IsLatest
    <3>. QED
      BY <1>1, <3>1, <3>2, <3>3 DEF Reached
  <2>. QED
    BY <2>1, <2>2
<1>. QED
  BY <1>1, <1>5, <1>6, <1>7 DEF HInv

\* The invariant of the history holds.
LEMMA HistoryInvariant == Spec => []HInv
<1>1. Init => HInv
  BY DEF Init, HInv, Opened
<1>2. ASSUME IInv, IInv', HInv, [Next]_vars
      PROVE  HInv'
  <2>1. TypeOK /\ TypeOK'
    BY <1>2 DEF IInv
  <2>2. ASSUME transitions' = transitions,
               \A c \in Cases : cases'[c].state = cases[c].state
        PROVE  HInv'
    <3>1. \A i \in 1..Len(transitions) : transitions[i].case \in Cases
      <4>1. ASSUME NEW i \in 1..Len(transitions)
            PROVE  transitions[i] \in Entry
        BY <2>1, ElementOfSeq DEF TypeOK
      <4>. QED
        BY <4>1 DEF Entry
    <3>2. ASSUME NEW i \in 1..Len(transitions)
          PROVE  Chained(i)' /\ Opened(transitions[i].case)'
      <4>1. Chained(i) /\ Opened(transitions[i].case)
        BY <1>2 DEF HInv
      <4>2. Chained(i)'
        BY <2>2, <4>1 DEF Chained, IsLatest
      <4>. QED
        BY <2>2, <3>1, <4>1, <4>2 DEF Opened
    <3>3. ASSUME NEW c \in Cases, Opened(c)'
          PROVE  Reached(c)'
      <4>1. Reached(c)
        BY <1>2, <2>2, <3>3 DEF HInv, Opened
      <4>. QED
        BY <2>2, <4>1 DEF Reached, IsLatest
    <3>. QED
      BY <2>2, <3>2, <3>3 DEF HInv
  <2>3. ASSUME NEW s \in Slots, OpenCommit(s)
        PROVE  HInv'
    <3>1. PICK e \in Entry :
              /\ transitions' = Append(transitions, e) /\ e.command = "open_case"
              /\ ~Opened(e.case)
              /\ cases'[e.case] = [cases[e.case] EXCEPT !.state = e.to]
              /\ \A c \in Cases \ {e.case} : cases'[c] = cases[c]
      BY <1>2, <2>3, OpeningEntry
    <3>2. cases'[e.case].state = e.to
      BY <2>1, <3>1 DEF TypeOK, CaseRow, Entry
    <3>. QED
      BY <1>2, <2>1, <3>1, <3>2, Extend
  <2>4. ASSUME NEW s \in Slots, Moves(s)
        PROVE  HInv'
    <3>1. PICK e \in Entry :
              /\ transitions' = Append(transitions, e)
              /\ e.command = requests[s].command /\ e.case = requests[s].case
              /\ e.command \in Commands /\ Opened(e.case)
              /\ e.from = cases[e.case].state
              /\ e.from = TransitionMap[e.command].from
              /\ e.to = TransitionMap[e.command].to
              /\ cases'[e.case] = MovedCase(requests[s])
              /\ \A c \in Cases \ {e.case} : cases'[c] = cases[c]
      <4>1. PICK e \in Entry :
                /\ transitions' = Append(transitions, e)
                /\ e.command = requests[s].command /\ e.case = requests[s].case
                /\ e.actor = requests[s].actor
                /\ e.command \in Commands /\ Opened(e.case) /\ Permitted(requests[s])
                /\ e.from = cases[e.case].state
                /\ e.from = TransitionMap[e.command].from
                /\ e.to = TransitionMap[e.command].to
                /\ cases'[e.case] = MovedCase(requests[s])
                /\ \A c \in Cases \ {e.case} : cases'[c] = cases[c]
        BY <1>2, <2>4, MovingEntry
      <4>. QED
        BY <4>1
    <3>2. e.case \in Cases /\ requests[s] \in Request
      BY <2>1 DEF TypeOK, Entry
    <3>3. cases'[e.case].state = e.to
      BY <2>1, <3>1, <3>2, MovedCaseType
    <3>. QED
      BY <1>2, <2>1, <3>1, <3>3, Extend
  <2>5. ASSUME NEW s \in Slots, ConfidentialityCommit(s)
        PROVE  HInv'
    <3>1. /\ transitions' = transitions
          /\ requests[s].case \in Cases
          /\ cases'[requests[s].case] =
                [cases[requests[s].case] EXCEPT !.level = requests[s].level,
                                                !.version = @ + 1]
          /\ \A c \in Cases \ {requests[s].case} : cases'[c] = cases[c]
      BY <1>2, <2>5, LevelChange
    <3>2. \A c \in Cases : cases[c] \in CaseRow
      BY <2>1 DEF TypeOK
    <3>3. ASSUME NEW c \in Cases
          PROVE  cases'[c].state = cases[c].state
      <4>1. CASE c = requests[s].case
        BY <3>1, <3>2, <4>1 DEF CaseRow
      <4>2. CASE c # requests[s].case
        BY <3>1, <4>2
      <4>. QED
        BY <4>1, <4>2
    <3>. QED
      BY <2>2, <3>1, <3>3
  <2>6. CASE cases' = cases /\ transitions' = transitions
    BY <2>2, <2>6
  <2>. QED
    BY <1>2, <2>3, <2>4, <2>5, <2>6, StepKinds
<1>. QED
  BY <1>1, <1>2, ChecksStayGood, PTL DEF Spec

\* No interleaving of transitions, completions, votes, level changes and crashes
\* leaves an entry that does not continue the history of its case, or a case whose
\* state is not the one its last entry reached (executeInTransaction).
THEOREM HistoryIsAPath == Spec => []HistoryChained
<1>1. HInv => HistoryChained
  BY DEF HInv, Chained, Reached, HistoryChained
<1>. QED
  BY <1>1, HistoryInvariant, PTL

(***************************************************************************)
(* Clearance                                                               *)
(***************************************************************************)
\* A level raised between a check of clearance and the commit that relies on it is
\* always noticed: updateConfidentiality takes no lock, but it raises the version.
THEOREM ClearanceCoversWrites == Spec => ClearedWhenItCounts
<1>. DEFINE CheckedWrite ==
               /\ \A e \in {transitions'[i] : i \in DOMAIN transitions'} :
                     Adds(e) /\ e.actor \in Users /\ e.command \notin SystemCommands
                        => Cleared(e.actor, e.case)
               /\ \A c \in Cases :
                     /\ cases'[c].rapporteur # cases[c].rapporteur
                           => Cleared(cases'[c].rapporteur, c)
                     /\ cases'[c].owner # cases[c].owner => Cleared(cases'[c].owner, c)
<1>1. ASSUME IInv, IInv', [Next]_vars
      PROVE  CheckedWrite
  <2>1. TypeOK /\ TypeOK'
    BY <1>1 DEF IInv
  <2>2. Len(transitions) \in Nat
    BY <2>1, LenProperties DEF TypeOK
  <2>3. CASE cases' = cases /\ transitions' = transitions
    BY <2>2, <2>3 DEF Adds
  <2>4. ASSUME NEW e \in Entry, transitions' = Append(transitions, e)
        PROVE  \A d : Adds(d) => d = e
    <3>1. Len(transitions') = Len(transitions) + 1 /\ transitions'[Len(transitions) + 1] = e
      BY <2>1, <2>4, AppendProperties DEF TypeOK
    <3>. QED
      BY <3>1 DEF Adds
  <2>5. ASSUME NEW s \in Slots, OpenCommit(s)
        PROVE  CheckedWrite
    <3>1. PICK e \in Entry :
              /\ transitions' = Append(transitions, e)
              /\ Cleared(e.actor, e.case)
              /\ cases'[e.case] = [cases[e.case] EXCEPT !.state = e.to]
              /\ \A c \in Cases \ {e.case} : cases'[c] = cases[c]
      BY <1>1, <2>5, OpeningEntry
    <3>2. \A d : Adds(d) => d = e
      BY <2>4, <3>1
    <3>3. ASSUME NEW c \in Cases
          PROVE  /\ cases'[c].rapporteur = cases[c].rapporteur
                 /\ cases'[c].owner = cases[c].owner
      <4>1. cases[c] \in CaseRow
        BY <2>1 DEF TypeOK
      <4>2. CASE c = e.case
        BY <3>1, <4>1, <4>2 DEF CaseRow
      <4>3. CASE c # e.case
        BY <3>1, <4>3
      <4>. QED
        BY <4>2, <4>3
    <3>. QED
      BY <3>1, <3>2, <3>3
  <2>6. ASSUME NEW s \in Slots, Moves(s)
        PROVE  CheckedWrite
    <3>. DEFINE r == requests[s]
    <3>1. PICK e \in Entry :
              /\ transitions' = Append(transitions, e)
              /\ e.command = r.command /\ e.case = r.case /\ e.actor = r.actor
              /\ e.command \in Commands /\ Permitted(r)
              /\ cases'[e.case] = MovedCase(r)
              /\ \A c \in Cases \ {e.case} : cases'[c] = cases[c]
      <4>1. PICK e \in Entry :
                /\ transitions' = Append(transitions, e)
                /\ e.command = requests[s].command /\ e.case = requests[s].case
                /\ e.actor = requests[s].actor
                /\ e.command \in Commands /\ Opened(e.case) /\ Permitted(requests[s])
                /\ e.from = cases[e.case].state
                /\ e.from = TransitionMap[e.command].from
                /\ e.to = TransitionMap[e.command].to
                /\ cases'[e.case] = MovedCase(requests[s])
                /\ \A c \in Cases \ {e.case} : cases'[c] = cases[c]
        BY <1>1, <2>6, MovingEntry
      <4>. QED
        BY <4>1
    <3>2. \A d : Adds(d) => d = e
      BY <2>4, <3>1
    <3>3. e.actor \in Users /\ e.command \notin SystemCommands => Cleared(e.actor, e.case)
      BY <3>1, UsersAssumption DEF Permitted
    <3>4. e.case \in Cases /\ cases[e.case] \in CaseRow
      BY <2>1 DEF TypeOK, Entry
    <3>5. /\ MovedCase(r).rapporteur =
               IF r.command \in AssignRapporteur THEN r.arg ELSE cases[r.case].rapporteur
          /\ MovedCase(r).owner =
               IF r.command \in AssignOwner THEN r.arg ELSE cases[r.case].owner
      BY <3>1, <3>4 DEF MovedCase, CaseRow
    <3>6. /\ r.command \in AssignRapporteur => Cleared(r.arg, r.case)
          /\ r.command \in AssignOwner => Cleared(r.arg, r.case)
      BY <3>1 DEF Permitted, Assignable
    <3>7. /\ cases'[e.case].rapporteur # cases[e.case].rapporteur
                 => Cleared(cases'[e.case].rapporteur, e.case)
          /\ cases'[e.case].owner # cases[e.case].owner
                 => Cleared(cases'[e.case].owner, e.case)
      BY <3>1, <3>5, <3>6
    <3>. QED
      BY <3>1, <3>2, <3>3, <3>7
  <2>7. ASSUME NEW s \in Slots, ConfidentialityCommit(s)
        PROVE  CheckedWrite
    <3>. DEFINE c == requests[s].case
    <3>1. /\ transitions' = transitions /\ c \in Cases
          /\ cases'[c] = [cases[c] EXCEPT !.level = requests[s].level, !.version = @ + 1]
          /\ \A d \in Cases \ {c} : cases'[d] = cases[d]
      BY <1>1, <2>7, LevelChange
    <3>2. ASSUME NEW d \in Cases
          PROVE  /\ cases'[d].rapporteur = cases[d].rapporteur
                 /\ cases'[d].owner = cases[d].owner
      <4>1. cases[d] \in CaseRow
        BY <2>1 DEF TypeOK
      <4>2. CASE d = c
        BY <3>1, <4>1, <4>2 DEF CaseRow
      <4>3. CASE d # c
        BY <3>1, <4>3
      <4>. QED
        BY <4>2, <4>3
    <3>. QED
      BY <2>2, <3>1, <3>2 DEF Adds
  <2>. QED
    BY <1>1, <2>3, <2>5, <2>6, <2>7, StepKinds
<1>2. IInv /\ IInv' /\ [Next]_vars => [CheckedWrite]_vars
  BY <1>1
<1>3. [][CheckedWrite]_vars => ClearedWhenItCounts
  BY PTL DEF ClearedWhenItCounts
<1>. QED
  BY <1>2, <1>3, ChecksStayGood, PTL DEF Spec

(***************************************************************************)
(* The advisory locks                                                      *)
(***************************************************************************)
\* A case is locked exactly by the transaction that is inside it: no lock outlives
\* its transaction, and no transaction runs without its lock.
LockInv ==
    \A s \in Slots, c \in Cases : holder[c] = s <=> Inside(s) /\ requests[s].case = c

\* Every step keeps the locks with the transactions.
LEMMA LocksFollow ==
    ASSUME IInv, LockInv, [Next]_vars
    PROVE  LockInv'
<1>. USE DEF LockInv, Inside
<1>1. /\ requests \in [Slots -> Request] /\ holder \in [Cases -> Slots \cup {None}]
      /\ \A s \in Slots : RequestOK(requests[s])
  BY DEF IInv, TypeOK
<1>2. CASE UNCHANGED <<requests, holder>>
  BY <1>2
<1>3. ASSUME NEW s \in Slots, NEW r, Starts(s, r)
      PROVE  LockInv'
  <2>1. /\ requests' = [requests EXCEPT ![s] = r] /\ holder' = holder
        /\ requests[s].phase = "idle" /\ ~(r.kind \in Locking /\ r.phase = "validated")
    BY <1>3 DEF Starts, Put, Busy
  <2>. QED
    BY <1>1, <2>1
<1>4. ASSUME NEW s \in Slots, Enters(s)
      PROVE  LockInv'
  <2>. DEFINE q == requests[s]
  <2>1. /\ q.kind \in Locking /\ holder[q.case] = None /\ q.phase = "submitted"
        /\ requests' = [requests EXCEPT ![s] = [q EXCEPT !.phase = "validated"]]
        /\ holder' = [holder EXCEPT ![q.case] = s]
    BY <1>4 DEF Enters, LockFree, Accept, Put, TakeLock
  <2>2. q \in Request /\ q.case \in Cases
    BY <1>1, <2>1 DEF RequestOK, Locking
  <2>3. /\ requests'[s].kind = q.kind /\ requests'[s].phase = "validated"
        /\ requests'[s].case = q.case
        /\ \A t \in Slots \ {s} : requests'[t] = requests[t]
    BY <1>1, <2>1, <2>2 DEF Request
  <2>4. /\ holder'[q.case] = s
        /\ \A c \in Cases \ {q.case} : holder'[c] = holder[c]
    BY <1>1, <2>1, <2>2
  <2>5. \A t \in Slots : t # None
    BY UsersAssumption
  <2>6. ASSUME NEW t \in Slots, NEW c \in Cases
        PROVE  holder'[c] = t <=> Inside(t)' /\ requests'[t].case = c
    <3>1. CASE t = s
      <4>1. holder[c] # s
        BY <2>1
      <4>. QED
        BY <2>1, <2>2, <2>3, <2>4, <3>1, <4>1
    <3>2. CASE t # s
      <4>1. Inside(t)' /\ requests'[t].case = c <=> holder[c] = t
        BY <2>3, <3>2
      <4>. QED
        BY <2>1, <2>4, <2>5, <3>2, <4>1
    <3>. QED
      BY <3>1, <3>2
  <2>. QED
    BY <2>6
<1>5. ASSUME NEW s \in Slots, Finish(s), Release(s)
      PROVE  LockInv'
  <2>1. /\ requests' = [requests EXCEPT ![s] = Idle] /\ Idle.phase = "idle"
        /\ holder' = [c \in Cases |-> IF holder[c] = s THEN None ELSE holder[c]]
    BY <1>5 DEF Finish, Put, Release, Idle
  <2>. HIDE DEF Idle
  <2>2. \A t \in Slots : t # None
    BY UsersAssumption
  <2>. QED
    BY <1>1, <2>1, <2>2
<1>6. ASSUME NEW s \in Slots, Finish(s), holder' = holder, requests[s].kind \notin Locking
      PROVE  LockInv'
  <2>1. requests' = [requests EXCEPT ![s] = Idle] /\ Idle.phase = "idle"
    BY <1>6 DEF Finish, Put, Idle
  <2>. QED
    BY <1>1, <1>6, <2>1
<1>. QED
  BY <1>2, <1>3, <1>4, <1>5, <1>6, RequestSteps

\* Two transactions that lock the same case never overlap between their checks and
\* their commit, and the lock of a case whose transaction has ended, with an answer,
\* an error or a crash, is free (pg_advisory_xact_lock).
THEOREM LocksExclude ==
    Spec => [](/\ LockInv
               /\ \A s, t \in Slots :
                     Inside(s) /\ Inside(t) /\ requests[s].case = requests[t].case => s = t)
<1>1. Init => LockInv
  <2>1. ASSUME Init, NEW s \in Slots, NEW c \in Cases
        PROVE  holder[c] # s /\ ~Inside(s)
    BY <2>1, UsersAssumption DEF Init, Inside, Idle
  <2>. QED
    BY <2>1 DEF LockInv
<1>2. IInv /\ LockInv /\ [Next]_vars => LockInv'
  BY LocksFollow
<1>3. IInv /\ LockInv =>
        \A s, t \in Slots :
           Inside(s) /\ Inside(t) /\ requests[s].case = requests[t].case => s = t
  BY DEF IInv, RequestOK, LockInv, Inside, Locking
<1>. QED
  BY <1>1, <1>2, <1>3, ChecksStayGood, PTL DEF Spec

(***************************************************************************)
(* The rows of the tasks table                                             *)
(***************************************************************************)
\* How many tasks a transition makes: one, but one for each member of the council.
NewTaskCount(cmd) ==
    IF TasksOf(cmd) = {} THEN 0
    ELSE IF TransitionMap[cmd].to = "member_approval" THEN Len(Members) ELSE 1

\* The catalog gives a command no task, or one; that of the approval is the members'.
LEMMA CatalogIsSingle ==
    ASSUME NEW cmd \in Commands, TasksOf(cmd) # {}
    PROVE  \E type \in TaskTypes :
              /\ TasksOf(cmd) = {type}
              /\ type = "member_approval_task" <=> TransitionMap[cmd].to = "member_approval"
<1>. DEFINE to == TransitionMap[cmd].to
<1>1. to \in States
  BY EdgesJoinStates
<1>. HIDE DEF to
<1>2. TasksOf(cmd) \subseteq TaskTypes
  BY CatalogTypes
<1>3. CASE to = "agenda_ready"
  BY <1>2, <1>3 DEF TasksOf, to
<1>4. CASE to # "agenda_ready"
  <2>1. to \in DOMAIN StateTask /\ TasksOf(cmd) = {StateTask[to]}
    BY <1>4 DEF TasksOf, to
  <2>2. StateTask[to] = "member_approval_task" <=> to = "member_approval"
    BY <2>1 DEF StateTask
  <2>. QED
    BY <1>2, <2>1, <2>2 DEF to
<1>. QED
  BY <1>3, <1>4

\* The new tasks of a transition are pending, of its case, and of its entry.
LEMMA NewTaskRows ==
    ASSUME TypeOK, NEW r, r.command \in Commands, r.case \in Cases
    PROVE  /\ NewTasks(r) \in Seq(Task)
           /\ Len(NewTasks(r)) = NewTaskCount(r.command)
           /\ \A i \in 1..Len(NewTasks(r)) :
                 /\ NewTasks(r)[i].case = r.case
                 /\ NewTasks(r)[i].status = "PENDING"
                 /\ NewTasks(r)[i].by = Len(transitions) + 1
<1>0. NewTasks(r) \in Seq(Task)
  BY NewTasksType
<1>1. CASE TasksOf(r.command) = {}
  BY <1>1 DEF NewTasks, NewTaskCount
<1>2. CASE TasksOf(r.command) # {}
  <2>1. PICK type \in TaskTypes :
            /\ TasksOf(r.command) = {type}
            /\ type = "member_approval_task"
                  <=> TransitionMap[r.command].to = "member_approval"
    BY <1>2, CatalogIsSingle
  <2>. DEFINE to == Assignees(r.case, type)
  <2>2. to \in Seq(Users \cup {None})
    BY AssigneesType
  <2>3. Len(to) = IF type = "member_approval_task" THEN Len(Members) ELSE 1
    BY UsersAssumption DEF Assignees
  <2>4. NewTasks(r) =
          [i \in DOMAIN to |->
              [case |-> r.case, type |-> type, assignee |-> to[i], status |-> "PENDING",
               by |-> Len(transitions) + 1, from |-> 0, doneBy |-> None]]
    BY <1>2, <2>1 DEF NewTasks
  <2>5. DOMAIN to = 1..Len(to) /\ Len(to) \in Nat
    BY <2>2, LenProperties
  <2>. HIDE DEF to
  <2>6. Len(NewTasks(r)) = Len(to)
    BY <2>4, <2>5
  <2>. QED
    BY <1>0, <1>2, <2>1, <2>3, <2>4, <2>5, <2>6 DEF NewTaskCount
<1>. QED
  BY <1>1, <1>2

\* A moving transaction files its new tasks after the tasks that are there.
Files(r, marked) ==
    /\ Len(marked) = Len(tasks)
    /\ Len(tasks') = Len(tasks) + NewTaskCount(r.command)
    /\ \A t \in 1..Len(tasks) : tasks'[t] = marked[t]
    /\ \A t \in (Len(tasks) + 1)..Len(tasks') :
          /\ tasks'[t].case = r.case /\ tasks'[t].status = "PENDING"
          /\ tasks'[t].by = Len(transitions) + 1

\* Appending the new tasks files them.
LEMMA FilesTasks ==
    ASSUME TypeOK, NEW r, r.command \in Commands, r.case \in Cases,
           NEW marked \in Seq(Task), Len(marked) = Len(tasks),
           tasks' = marked \o NewTasks(r)
    PROVE  Files(r, marked) /\ NewTaskCount(r.command) \in Nat
<1>. DEFINE new == NewTasks(r)
<1>1. /\ new \in Seq(Task) /\ Len(new) = NewTaskCount(r.command)
      /\ \A i \in 1..Len(new) :
            /\ new[i].case = r.case /\ new[i].status = "PENDING"
            /\ new[i].by = Len(transitions) + 1
  BY NewTaskRows
<1>. HIDE DEF new
<1>2. Len(marked) \in Nat /\ Len(new) \in Nat
  BY <1>1, LenProperties
<1>3. /\ Len(marked \o new) = Len(marked) + Len(new)
      /\ \A i \in 1..(Len(marked) + Len(new)) :
            (marked \o new)[i] = IF i <= Len(marked) THEN marked[i] ELSE new[i - Len(marked)]
  <2>1. marked \in Seq(Task) /\ new \in Seq(Task)
    BY <1>1
  <2>2. Len(marked \o new) = Len(marked) + Len(new)
    BY <2>1, ConcatProperties
  <2>3. \A i \in 1..(Len(marked) + Len(new)) :
            (marked \o new)[i] = IF i <= Len(marked) THEN marked[i] ELSE new[i - Len(marked)]
    BY <2>1, ConcatProperties
  <2>. QED
    BY <2>2, <2>3
<1>4. tasks' = marked \o new
  BY DEF new
<1>. QED
  BY <1>1, <1>2, <1>3, <1>4 DEF Files

\* The rows that the commit of a transition leaves.
LEMMA TransitionRows ==
    ASSUME IInv, NEW s \in Slots, TransitionCommit(s)
    PROVE  Moves(s) /\ Files(requests[s], tasks) /\ NewTaskCount(requests[s].command) \in Nat
<1>1. /\ Moves(s) /\ tasks' = tasks \o NewTasks(requests[s])
  BY DEF TransitionCommit, Moves, Moving
<1>2. requests[s].case \in Cases /\ requests[s].command \in Commands
  BY <1>1, CommitPermitted DEF Moves
<1>. QED
  BY <1>1, <1>2, FilesTasks DEF IInv, TypeOK

\* The row of the task that a request completes.
Done(r) == [tasks[r.task] EXCEPT !.status = "COMPLETED", !.doneBy = r.actor]

\* The rows that the commit of a completion leaves.
LEMMA CompletionRows ==
    ASSUME IInv, NEW s \in Slots, CompleteCommit(s)
    PROVE  /\ Moves(s) /\ requests[s].kind = "complete"
           /\ requests[s].task \in 1..Len(tasks)
           /\ Done(requests[s]) \in Task
           /\ Files(requests[s], [tasks EXCEPT ![requests[s].task] = Done(requests[s])])
           /\ NewTaskCount(requests[s].command) \in Nat
<1>. DEFINE r == requests[s]
            marked == [tasks EXCEPT ![r.task].status = "COMPLETED", ![r.task].doneBy = r.actor]
<1>1. /\ Moves(s) /\ r.kind = "complete" /\ tasks' = marked \o NewTasks(r)
  BY DEF CompleteCommit, Moves, Moving
<1>2. r.case \in Cases /\ r.command \in Commands
  BY <1>1, CommitPermitted DEF Moves
<1>3. tasks \in Seq(Task) /\ RequestOK(r)
  BY DEF IInv, TypeOK
<1>4. r.task \in 1..Len(tasks) /\ r.actor \in Users
  BY <1>1, <1>3 DEF RequestOK
<1>5. tasks[r.task] \in Task
  BY <1>3, <1>4, ElementOfSeq
<1>6. Done(r) \in Task
  BY <1>4, <1>5 DEF Done, Task, Statuses
<1>7. marked = [tasks EXCEPT ![r.task] = Done(r)]
  BY <1>3, <1>4, <1>5 DEF Done, Task
<1>. HIDE DEF marked
<1>8. marked \in Seq(Task) /\ Len(marked) = Len(tasks)
  BY <1>3, <1>4, <1>6, <1>7, ExceptSeq
<1>. QED
  BY <1>1, <1>2, <1>4, <1>6, <1>7, <1>8, FilesTasks DEF IInv

\* The row a delegation leaves behind, and the row it adds.
Handed(t) == [tasks[t] EXCEPT !.status = "DELEGATED"]
Copied(t, u) == [tasks[t] EXCEPT !.assignee = u, !.status = "PENDING", !.from = t]

\* The rows that a delegation leaves: that of a pending task, and a pending copy.
LEMMA DelegationRows ==
    ASSUME IInv, NEW s \in Slots, DelegateCommit(s)
    PROVE  /\ requests[s].task \in 1..Len(tasks)
           /\ tasks[requests[s].task] \in Task
           /\ tasks[requests[s].task].status = "PENDING"
           /\ Len(tasks') = Len(tasks) + 1
           /\ tasks'[requests[s].task] = Handed(requests[s].task)
           /\ \A t \in 1..Len(tasks) \ {requests[s].task} : tasks'[t] = tasks[t]
           /\ tasks'[Len(tasks) + 1] = Copied(requests[s].task, requests[s].arg)
<1>. DEFINE r == requests[s]
            marked == [tasks EXCEPT ![r.task].status = "DELEGATED"]
            new == Copied(r.task, r.arg)
<1>1. r.kind = "delegate" /\ tasks' = Append(marked, new) /\ tasks[r.task].status = "PENDING"
  BY DEF DelegateCommit, DelegateAllowed, Copied
<1>2. tasks \in Seq(Task) /\ r \in Request /\ RequestOK(r)
  BY DEF IInv, TypeOK
<1>3. r.task \in 1..Len(tasks) /\ r.task \in Nat /\ r.arg \in Users \cup {None}
  BY <1>1, <1>2 DEF RequestOK, Request
<1>4. tasks[r.task] \in Task
  BY <1>2, <1>3, ElementOfSeq
<1>5. Handed(r.task) \in Task /\ new \in Task
  BY <1>3, <1>4 DEF Handed, Copied, Task, Statuses
<1>6. marked = [tasks EXCEPT ![r.task] = Handed(r.task)]
  BY <1>2, <1>3, <1>4 DEF Handed, Task
<1>. HIDE DEF marked, new
<1>7. /\ marked \in Seq(Task) /\ Len(marked) = Len(tasks)
      /\ \A t \in 1..Len(tasks) : marked[t] = IF t = r.task THEN Handed(r.task) ELSE tasks[t]
  BY <1>2, <1>3, <1>5, <1>6, ExceptSeq
<1>8. /\ Len(tasks') = Len(tasks) + 1 /\ tasks'[Len(tasks) + 1] = new
      /\ \A t \in 1..Len(tasks) : tasks'[t] = marked[t]
  BY <1>1, <1>5, <1>7, AppendProperties
<1>. QED
  BY <1>1, <1>3, <1>4, <1>7, <1>8 DEF new

(***************************************************************************)
(* What requests in flight know                                            *)
(***************************************************************************)
\* A row of the tasks table keeps its case, its type and its entry, and nothing
\* but a completion of that task makes it COMPLETED.
LEMMA TaskRowsStay ==
    ASSUME IInv, [Next]_vars, NEW t \in 1..Len(tasks)
    PROVE  /\ t \in 1..Len(tasks')
           /\ tasks'[t].case = tasks[t].case /\ tasks'[t].type = tasks[t].type
           /\ tasks'[t].by = tasks[t].by
           /\ tasks'[t].status = "COMPLETED" =>
                 \/ tasks[t].status = "COMPLETED"
                 \/ \E s \in Slots : CompleteCommit(s) /\ requests[s].task = t
<1>1. tasks \in Seq(Task) /\ Len(tasks) \in Nat /\ tasks[t] \in Task
  BY ElementOfSeq, LenProperties DEF IInv, TypeOK
<1>2. CASE tasks' = tasks
  BY <1>2
<1>3. ASSUME NEW s \in Slots, TransitionCommit(s)
      PROVE  t \in 1..Len(tasks') /\ tasks'[t] = tasks[t]
  BY <1>1, <1>3, TransitionRows DEF Files
<1>4. ASSUME NEW s \in Slots, CompleteCommit(s)
      PROVE  /\ t \in 1..Len(tasks')
             /\ tasks'[t] = IF t = requests[s].task THEN Done(requests[s]) ELSE tasks[t]
  BY <1>1, <1>4, CompletionRows DEF Files
<1>5. ASSUME NEW s \in Slots, DelegateCommit(s)
      PROVE  /\ t \in 1..Len(tasks')
             /\ tasks'[t] = IF t = requests[s].task THEN Handed(t) ELSE tasks[t]
  BY <1>1, <1>5, DelegationRows
<1>6. ASSUME NEW s \in Slots, CompleteCommit(s), t = requests[s].task
      PROVE  /\ tasks'[t].case = tasks[t].case /\ tasks'[t].type = tasks[t].type
             /\ tasks'[t].by = tasks[t].by
  BY <1>1, <1>4, <1>6 DEF Done, Task
<1>7. ASSUME NEW s \in Slots, DelegateCommit(s), t = requests[s].task
      PROVE  /\ tasks'[t].case = tasks[t].case /\ tasks'[t].type = tasks[t].type
             /\ tasks'[t].by = tasks[t].by /\ tasks'[t].status = "DELEGATED"
  BY <1>1, <1>5, <1>7 DEF Handed, Task
<1>8. ASSUME NEW s \in Slots, OpenCommit(s) \/ ConfidentialityCommit(s)
      PROVE  tasks' = tasks
  BY <1>8 DEF OpenCommit, ConfidentialityCommit
<1>9. ASSUME UNCHANGED tables
      PROVE  tasks' = tasks
  BY <1>9 DEF tables
<1>. QED
  BY <1>2, <1>3, <1>4, <1>5, <1>6, <1>7, <1>8, <1>9, WritingSteps

\* The version of a case never falls, and a transaction that moves it raises it.
LEMMA VersionsRise ==
    ASSUME IInv, [Next]_vars
    PROVE  /\ \A c \in Cases : /\ cases[c].version \in Nat /\ cases'[c].version \in Nat
                               /\ cases'[c].version >= cases[c].version
           /\ \A s \in Slots : Moves(s) =>
                 cases'[requests[s].case].version = cases[requests[s].case].version + 1
<1>1. /\ TypeOK
      /\ \A c \in Cases : cases[c] \in CaseRow /\ cases[c].version \in Nat
      /\ \A s \in Slots : requests[s] \in Request
  BY DEF IInv, TypeOK, CaseRow
<1>2. ASSUME NEW s \in Slots, OpenCommit(s), NEW c \in Cases
      PROVE  cases'[c].version = cases[c].version
  <2>1. PICK e \in Entry : /\ cases'[e.case] = [cases[e.case] EXCEPT !.state = e.to]
                           /\ \A d \in Cases \ {e.case} : cases'[d] = cases[d]
    BY <1>2, OpeningEntry
  <2>2. CASE c = e.case
    BY <1>1, <2>1, <2>2 DEF CaseRow
  <2>3. CASE c # e.case
    BY <2>1, <2>3
  <2>. QED
    BY <2>2, <2>3
<1>3. ASSUME NEW s \in Slots, Moves(s)
      PROVE  /\ requests[s].case \in Cases
             /\ cases'[requests[s].case].version = cases[requests[s].case].version + 1
             /\ \A c \in Cases \ {requests[s].case} : cases'[c] = cases[c]
  <2>1. requests[s].case \in Cases /\ requests[s].command \in Commands
    BY <1>3, CommitPermitted DEF Moves
  <2>2. /\ cases'[requests[s].case] = MovedCase(requests[s])
        /\ \A c \in Cases \ {requests[s].case} : cases'[c] = cases[c]
    BY <1>1, <1>3, <2>1 DEF Moves, Write, TypeOK
  <2>. QED
    BY <1>1, <2>1, <2>2, MovedCaseType
<1>4. ASSUME NEW s \in Slots, ConfidentialityCommit(s), NEW c \in Cases
      PROVE  cases'[c].version \in {cases[c].version, cases[c].version + 1}
  <2>1. /\ requests[s].case \in Cases
        /\ cases'[requests[s].case] =
              [cases[requests[s].case] EXCEPT !.level = requests[s].level, !.version = @ + 1]
        /\ \A d \in Cases \ {requests[s].case} : cases'[d] = cases[d]
    BY <1>4, LevelChange
  <2>2. CASE c = requests[s].case
    BY <1>1, <2>1, <2>2 DEF CaseRow
  <2>3. CASE c # requests[s].case
    BY <2>1, <2>3
  <2>. QED
    BY <2>2, <2>3
<1>5. ASSUME NEW c \in Cases
      PROVE  cases'[c].version \in Nat /\ cases'[c].version >= cases[c].version
  <2>1. CASE cases' = cases
    BY <1>1, <2>1
  <2>2. ASSUME NEW s \in Slots, OpenCommit(s)
        PROVE  cases'[c].version = cases[c].version
    BY <1>2, <2>2
  <2>3. ASSUME NEW s \in Slots, Moves(s)
        PROVE  cases'[c].version \in {cases[c].version, cases[c].version + 1}
    BY <1>3, <2>3
  <2>4. ASSUME NEW s \in Slots, ConfidentialityCommit(s)
        PROVE  cases'[c].version \in {cases[c].version, cases[c].version + 1}
    BY <1>4, <2>4
  <2>. QED
    BY <1>1, <2>1, <2>2, <2>3, <2>4, StepKinds
<1>. QED
  BY <1>1, <1>3, <1>5

\* What every request in flight knows of its key and of its task.
QInv ==
    /\ IsFiniteSet(outbox)
    /\ \A s \in Slots : KeyOK(requests[s]) /\ Claims(requests[s])

\* A request that a step does not touch keeps its claim: whoever completes its task
\* raises the version of its case, and versions never fall.
LEMMA ClaimsStay ==
    ASSUME IInv, QInv, [Next]_vars, NEW t \in Slots,
           requests'[t] = requests[t]
    PROVE  Claims(requests[t])'
<1>. DEFINE q == requests[t]
<1>. SUFFICES ASSUME q.kind = "complete"
              PROVE  /\ q.task \in 1..Len(tasks')
                     /\ tasks'[q.task].case = q.case
                     /\ tasks'[q.task].type \in CompletableTasks
                     /\ q.command = CompletionCommand[tasks'[q.task].type]
                     /\ q.phase = "validated" /\ q.version = cases'[q.case].version
                           => tasks'[q.task].status # "COMPLETED"
  BY DEF Claims
<1>1. /\ q.task \in 1..Len(tasks) /\ tasks[q.task].case = q.case
      /\ tasks[q.task].type \in CompletableTasks
      /\ q.command = CompletionCommand[tasks[q.task].type]
      /\ q.phase = "validated" /\ q.version = cases[q.case].version
            => tasks[q.task].status # "COMPLETED"
  BY DEF QInv, Claims
<1>2. /\ q.task \in 1..Len(tasks')
      /\ tasks'[q.task].case = q.case /\ tasks'[q.task].type = tasks[q.task].type
      /\ tasks'[q.task].status = "COMPLETED" =>
            \/ tasks[q.task].status = "COMPLETED"
            \/ \E s \in Slots : CompleteCommit(s) /\ requests[s].task = q.task
  BY <1>1, TaskRowsStay
<1>3. ASSUME q.phase = "validated", q.version = cases'[q.case].version,
             tasks'[q.task].status = "COMPLETED"
      PROVE  FALSE
  <2>1. q \in Request /\ q.case \in Cases /\ q.version <= cases[q.case].version
    BY <1>3 DEF IInv, TypeOK, RequestOK, Fresh, Moving
  <2>2. q.version = cases[q.case].version /\ cases'[q.case].version = cases[q.case].version
    BY <1>3, <2>1, VersionsRise DEF Request
  <2>3. PICK s \in Slots : CompleteCommit(s) /\ requests[s].task = q.task
    BY <1>1, <1>2, <1>3, <2>2
  <2>4. Moves(s) /\ requests[s].kind = "complete"
    BY <2>3, CompletionRows
  <2>5. cases'[requests[s].case].version = cases[requests[s].case].version + 1
    BY <2>4, VersionsRise
  <2>6. requests[s].case = q.case
    BY <1>1, <2>3, <2>4 DEF QInv, Claims
  <2>7. cases[q.case].version \in Nat
    BY <2>1, VersionsRise
  <2>. QED
    BY <2>2, <2>5, <2>6, <2>7
<1>. QED
  BY <1>1, <1>2, <1>3

\* Every step keeps what the requests know.
LEMMA RequestsKnow ==
    ASSUME IInv, QInv, [Next]_vars
    PROVE  QInv'
<1>1. IsFiniteSet(outbox')
  <2>1. IsFiniteSet(outbox) /\ \A key : IsFiniteSet(outbox \cup {key})
    BY FS_AddElement DEF QInv
  <2>2. ASSUME NEW s \in Slots, CompleteCommit(s)
        PROVE  IsFiniteSet(outbox')
    <3>1. outbox' = (outbox \cup {requests[s].key})
                       \cup {<<"task-completed", requests[s].key[2]>>}
      BY <2>2 DEF CompleteCommit
    <3>. QED
      BY <2>1, <3>1, FS_AddElement
  <2>3. ASSUME NEW s \in Slots,
               OpenCommit(s) \/ TransitionCommit(s) \/ ConfidentialityCommit(s)
                  \/ DelegateCommit(s)
        PROVE  outbox' = outbox \/ \E key : outbox' = outbox \cup {key}
    BY <2>3 DEF OpenCommit, TransitionCommit, ConfidentialityCommit, DelegateCommit
  <2>4. ASSUME UNCHANGED tables
        PROVE  outbox' = outbox
    BY <2>4 DEF tables
  <2>. QED
    BY <2>1, <2>2, <2>3, <2>4, WritingSteps
<1>2. ASSUME NEW t \in Slots
      PROVE  KeyOK(requests[t])' /\ Claims(requests[t])'
  <2>0. requests \in [Slots -> Request]
    BY DEF IInv, TypeOK
  <2>1. CASE requests'[t] = requests[t]
    <3>1. KeyOK(requests[t])'
      BY <2>1 DEF QInv, KeyOK
    <3>. QED
      BY <2>1, <3>1, ClaimsStay
  <2>2. CASE requests'[t] = Idle
    BY <2>2 DEF Idle, KeyOK, Claims
  <2>3. ASSUME NEW r, Starts(t, r)
        PROVE  KeyOK(requests[t])' /\ Claims(requests[t])'
    <3>1. /\ requests'[t] = r /\ KeyOK(r) /\ Claims(r)
          /\ tasks' = tasks /\ cases' = cases
      BY <2>0, <2>3 DEF Starts, Put, tables
    <3>. QED
      BY <3>1 DEF KeyOK, Claims
  <2>4. CASE Enters(t)
    <3>. DEFINE q == requests[t]
    <3>1. /\ requests'[t] = [q EXCEPT !.phase = "validated"]
          /\ tasks' = tasks /\ cases' = cases
          /\ q.kind = "complete" => tasks[q.task].status # "COMPLETED"
      BY <2>0, <2>4 DEF Enters, Accept, Put, tables
    <3>2. q \in Request /\ KeyOK(q) /\ Claims(q)
      BY <2>0 DEF QInv
    <3>3. /\ requests'[t].kind = q.kind /\ requests'[t].key = q.key
          /\ requests'[t].task = q.task /\ requests'[t].case = q.case
          /\ requests'[t].command = q.command
      BY <3>1, <3>2 DEF Request
    <3>4. KeyOK(requests[t])'
      BY <3>2, <3>3 DEF KeyOK
    <3>5. Claims(requests[t])'
      BY <3>1, <3>2, <3>3 DEF Claims
    <3>. QED
      BY <3>4, <3>5
  <2>5. \/ requests'[t] = requests[t] \/ requests'[t] = Idle
        \/ \E r : Starts(t, r)
        \/ Enters(t)
    <3>1. ASSUME NEW s \in Slots, NEW r, Put(s, r)
          PROVE  requests'[t] = IF t = s THEN r ELSE requests[t]
      BY <2>0, <3>1 DEF Put
    <3>2. ASSUME NEW s \in Slots, NEW r, Starts(s, r)
          PROVE  s = t \/ requests'[t] = requests[t]
      BY <3>1, <3>2 DEF Starts
    <3>3. ASSUME NEW s \in Slots, Enters(s)
          PROVE  s = t \/ requests'[t] = requests[t]
      BY <3>1, <3>3 DEF Enters, Accept
    <3>4. ASSUME NEW s \in Slots, Finish(s)
          PROVE  requests'[t] = Idle \/ requests'[t] = requests[t]
      BY <3>1, <3>4 DEF Finish
    <3>. QED
      BY <3>2, <3>3, <3>4, RequestSteps
  <2>. QED
    BY <2>1, <2>2, <2>3, <2>4, <2>5
<1>. QED
  BY <1>1, <1>2 DEF QInv

\* What the requests know holds in every state.
LEMMA RequestsInvariant == Spec => []QInv
<1>1. Init => QInv
  BY FS_EmptySet DEF Init, QInv, KeyOK, Claims, Idle
<1>2. IInv /\ QInv /\ [Next]_vars => QInv'
  BY RequestsKnow
<1>. QED
  BY <1>1, <1>2, ChecksStayGood, PTL DEF Spec

(***************************************************************************)
(* Counting the rows of a table                                            *)
(***************************************************************************)
\* Numbers of rows make a finite set.
LEMMA RowsAreFinite ==
    ASSUME NEW n \in Nat, NEW S \in SUBSET (1..n)
    PROVE  IsFiniteSet(S) /\ Cardinality(S) \in Nat
<1>1. IsFiniteSet(1..n)
  BY FS_Interval
<1>2. IsFiniteSet(S)
  BY <1>1, FS_Subset
<1>. QED
  BY <1>2, FS_CardinalityType

\* One more row counts one more.
LEMMA OneMoreRow ==
    ASSUME NEW n \in Nat, NEW S \in SUBSET (1..n), NEW x, x \notin S
    PROVE  Cardinality(S \cup {x}) = Cardinality(S) + 1
BY RowsAreFinite, FS_AddElement

\* A row exchanged for another leaves the count as it is.
LEMMA RowExchanged ==
    ASSUME NEW n \in Nat, NEW S \in SUBSET (1..n), NEW x \in S, NEW y, y \notin S
    PROVE  Cardinality((S \ {x}) \cup {y}) = Cardinality(S)
<1>1. IsFiniteSet(S) /\ Cardinality(S) \in Nat
  BY RowsAreFinite
<1>2. IsFiniteSet(S \ {x}) /\ Cardinality(S \ {x}) = Cardinality(S) - 1
  BY <1>1, FS_RemoveElement
<1>3. Cardinality((S \ {x}) \cup {y}) = Cardinality(S \ {x}) + 1
  BY <1>2, FS_AddElement
<1>. QED
  BY <1>1, <1>2, <1>3

\* An entry appended to the history is its last, and the others stay.
LEMMA HistoryGrows ==
    ASSUME TypeOK, NEW e \in Entry, transitions' = Append(transitions, e)
    PROVE  /\ Len(transitions) \in Nat /\ Len(transitions') = Len(transitions) + 1
           /\ transitions'[Len(transitions) + 1] = e
           /\ \A i \in 1..Len(transitions) : transitions'[i] = transitions[i]
BY AppendProperties, LenProperties DEF TypeOK

\* The keys that a transaction which moves a case writes are not of a change of
\* confidentiality, and its entry has the key of the request.
LEMMA MovingKeys ==
    ASSUME IInv, QInv, NEW s \in Slots, TransitionCommit(s) \/ CompleteCommit(s)
    PROVE  /\ Moves(s)
           /\ requests[s].key[1] # "confidentiality"
           /\ requests[s].key[1] = "task-complete" <=> requests[s].kind = "complete"
           /\ \/ outbox' = outbox \cup {requests[s].key}
              \/ outbox' = outbox \cup {requests[s].key,
                                        <<"task-completed", requests[s].key[2]>>}
<1>1. KeyOK(requests[s])
  BY DEF QInv
<1>2. CASE TransitionCommit(s)
  BY <1>1, <1>2, TransitionRows DEF TransitionCommit, KeyOK
<1>3. CASE CompleteCommit(s)
  BY <1>1, <1>3, CompletionRows DEF CompleteCommit, KeyOK
<1>. QED
  BY <1>2, <1>3

(***************************************************************************)
(* The version counts the writes                                           *)
(***************************************************************************)
\* The entries of a case after its opening, and the audited changes of confidentiality.
Written(c) ==
    {i \in 1..Len(transitions) : transitions[i].case = c /\ transitions[i].command # "open_case"}
LevelKeys == {key \in outbox : key[1] = "confidentiality"}

VInv == \A c \in Cases : Cases = {c} =>
            cases[c].version = Cardinality(Written(c)) + Cardinality(LevelKeys)

\* Every write of the only case is counted once, by its entry or by its audit key.
LEMMA WritesAreCounted ==
    ASSUME IInv, QInv, VInv, [Next]_vars
    PROVE  VInv'
<1>. SUFFICES ASSUME NEW c \in Cases, Cases = {c}
              PROVE  cases'[c].version = Cardinality(Written(c)') + Cardinality(LevelKeys')
  BY DEF VInv
<1>1. cases[c].version = Cardinality(Written(c)) + Cardinality(LevelKeys)
  BY DEF VInv
<1>2. /\ TypeOK /\ Len(transitions) \in Nat
      /\ cases[c] \in CaseRow /\ cases[c].version \in Nat
      /\ Written(c) \in SUBSET (1..Len(transitions))
      /\ Cardinality(Written(c)) \in Nat
  BY LenProperties, RowsAreFinite DEF IInv, TypeOK, CaseRow, Written
<1>3. IsFiniteSet(LevelKeys) /\ Cardinality(LevelKeys) \in Nat
  BY FS_Subset, FS_CardinalityType DEF QInv, LevelKeys
<1>4. CASE cases' = cases /\ transitions' = transitions /\ outbox' = outbox
  BY <1>1, <1>4 DEF Written, LevelKeys
<1>5. ASSUME NEW s \in Slots, OpenCommit(s)
      PROVE  cases'[c].version = Cardinality(Written(c)') + Cardinality(LevelKeys')
  <2>1. PICK e \in Entry :
            /\ transitions' = Append(transitions, e) /\ e.command = "open_case"
            /\ cases'[e.case] = [cases[e.case] EXCEPT !.state = e.to]
    BY <1>5, OpeningEntry
  <2>2. e.case = c /\ cases'[c].version = cases[c].version
    BY <1>2, <2>1 DEF Entry, CaseRow
  <2>3. Written(c)' = Written(c)
    BY <1>2, <2>1, HistoryGrows DEF Written
  <2>4. LevelKeys' = LevelKeys
    BY <1>5 DEF OpenCommit, LevelKeys
  <2>. QED
    BY <1>1, <2>2, <2>3, <2>4
<1>6. ASSUME NEW s \in Slots, TransitionCommit(s) \/ CompleteCommit(s)
      PROVE  cases'[c].version = Cardinality(Written(c)') + Cardinality(LevelKeys')
  <2>1. /\ Moves(s) /\ requests[s].key[1] # "confidentiality"
        /\ \/ outbox' = outbox \cup {requests[s].key}
           \/ outbox' = outbox \cup {requests[s].key,
                                     <<"task-completed", requests[s].key[2]>>}
    BY <1>6, MovingKeys
  <2>2. PICK e \in Entry :
            /\ transitions' = Append(transitions, e)
            /\ e.command \in Commands /\ e.case = requests[s].case
    BY <2>1, MovingEntry
  <2>3. e.case = c /\ e.command # "open_case"
    BY <2>2 DEF Entry, Commands, TransitionMap
  <2>4. cases'[c].version = cases[c].version + 1
    BY <2>1, <2>2, <2>3, VersionsRise
  <2>5. /\ Written(c)' = Written(c) \cup {Len(transitions) + 1}
        /\ Len(transitions) + 1 \notin Written(c)
    BY <1>2, <2>2, <2>3, HistoryGrows DEF Written
  <2>6. Cardinality(Written(c)') = Cardinality(Written(c)) + 1
    BY <1>2, <2>5, OneMoreRow
  <2>7. LevelKeys' = LevelKeys
    BY <2>1 DEF LevelKeys
  <2>. QED
    BY <1>1, <1>2, <1>3, <2>4, <2>6, <2>7
<1>7. ASSUME NEW s \in Slots, ConfidentialityCommit(s)
      PROVE  cases'[c].version = Cardinality(Written(c)') + Cardinality(LevelKeys')
  <2>. DEFINE r == requests[s]
  <2>1. /\ transitions' = transitions /\ r.case \in Cases
        /\ cases'[r.case] = [cases[r.case] EXCEPT !.level = r.level, !.version = @ + 1]
    BY <1>7, LevelChange
  <2>2. r.case = c /\ cases'[c].version = cases[c].version + 1
    BY <1>2, <2>1 DEF CaseRow
  <2>3. r.key \notin outbox /\ outbox' = outbox \cup {r.key} /\ r.key[1] = "confidentiality"
    BY <1>7 DEF ConfidentialityCommit, QInv, KeyOK
  <2>4. LevelKeys' = LevelKeys \cup {r.key} /\ r.key \notin LevelKeys
    BY <2>3 DEF LevelKeys
  <2>5. Cardinality(LevelKeys') = Cardinality(LevelKeys) + 1
    BY <1>3, <2>4, FS_AddElement
  <2>6. Written(c)' = Written(c)
    BY <2>1 DEF Written
  <2>. QED
    BY <1>1, <1>2, <1>3, <2>2, <2>5, <2>6
<1>8. ASSUME NEW s \in Slots, DelegateCommit(s)
      PROVE  cases' = cases /\ transitions' = transitions /\ outbox' = outbox
  BY <1>8 DEF DelegateCommit
<1>. QED
  BY <1>4, <1>5, <1>6, <1>7, <1>8, WritingSteps DEF tables

\* No write of a case is lost, made twice, or missing from the audit trail: its
\* version is the number of its transitions and of the audited changes of its
\* confidentiality (executeInTransaction, updateConfidentiality).
THEOREM VersionIsTheCount == Spec => []VersionCountsWrites
<1>1. Init => VInv
  <2>1. ASSUME Init, NEW c \in Cases
        PROVE  /\ cases[c].version = 0 /\ Written(c) = {} /\ LevelKeys = {}
    BY <2>1 DEF Init, Written, LevelKeys
  <2>. QED
    BY <2>1, FS_EmptySet DEF VInv
<1>2. IInv /\ QInv /\ VInv /\ [Next]_vars => VInv'
  BY WritesAreCounted
<1>3. VInv => VersionCountsWrites
  BY DEF VInv, VersionCountsWrites, Count, LevelChanges, Written, LevelKeys
<1>. QED
  BY <1>1, <1>2, <1>3, ChecksStayGood, RequestsInvariant, PTL DEF Spec

(***************************************************************************)
(* A completion for a transition                                           *)
(***************************************************************************)
\* The completed tasks, and the entries that completions added, of a case, a type of
\* task and a user.
Finished(c, type, u) ==
    {t \in 1..Len(tasks) : /\ tasks[t].case = c /\ tasks[t].type = type
                           /\ tasks[t].status = "COMPLETED" /\ tasks[t].doneBy = u}
Executed(c, type, u) ==
    {i \in 1..Len(transitions) : /\ transitions[i].case = c
                                 /\ transitions[i].command = CompletionCommand[type]
                                 /\ transitions[i].key[1] = "task-complete"
                                 /\ transitions[i].actor = u}

CInv == \A c \in Cases, type \in CompletableTasks, u \in Users :
            Cardinality(Finished(c, type, u)) = Cardinality(Executed(c, type, u))

\* Two types of task are completed by two commands (TASK_COMPLETION_COMMAND).
LEMMA CompletionCommandsDiffer ==
    ASSUME NEW a \in CompletableTasks, NEW b \in CompletableTasks,
           CompletionCommand[a] = CompletionCommand[b]
    PROVE  a = b
BY DEF CompletableTasks, CompletionCommand

\* The entry of a moving transaction has the case, the command, the user and the key
\* of its request.
LEMMA EntryOfRequest ==
    ASSUME IInv, NEW s \in Slots, Moves(s)
    PROVE  /\ Len(transitions) \in Nat /\ Len(transitions') = Len(transitions) + 1
           /\ \A i \in 1..Len(transitions) : transitions'[i] = transitions[i]
           /\ LET e == transitions'[Len(transitions) + 1]
              IN  /\ e.case = requests[s].case /\ e.command = requests[s].command
                  /\ e.actor = requests[s].actor /\ e.key = requests[s].key
                  /\ e.to = TransitionMap[requests[s].command].to
<1>. DEFINE r == requests[s]
            e == [case |-> r.case, from |-> cases[r.case].state,
                  to |-> TransitionMap[r.command].to, command |-> r.command,
                  actor |-> r.actor, key |-> r.key]
<1>1. /\ r \in Request /\ r.case \in Cases /\ r.command \in Commands
      /\ r.actor \in Users \cup {System}
      /\ cases[r.case].state = TransitionMap[r.command].from
  BY CommitPermitted DEF Moves
<1>2. transitions' = Append(transitions, e)
  BY DEF Moves, Write
<1>3. e \in Entry
  BY <1>1, EdgesJoinStates DEF Entry, Request
<1>4. /\ e.case = r.case /\ e.command = r.command /\ e.actor = r.actor /\ e.key = r.key
      /\ e.to = TransitionMap[r.command].to
  OBVIOUS
<1>. HIDE DEF e
<1>. QED
  BY <1>2, <1>3, <1>4, HistoryGrows DEF IInv

\* Filed tasks are not completed.
LEMMA FilingFinishesNothing ==
    ASSUME TypeOK, NEW r, NEW marked, Files(r, marked), NewTaskCount(r.command) \in Nat,
           NEW c, NEW type, NEW u
    PROVE  Finished(c, type, u)' =
             {t \in 1..Len(tasks) : /\ marked[t].case = c /\ marked[t].type = type
                                    /\ marked[t].status = "COMPLETED"
                                    /\ marked[t].doneBy = u}
<1>1. Len(tasks) \in Nat
  BY LenProperties DEF TypeOK
<1>2. 1..Len(tasks') = (1..Len(tasks)) \cup ((Len(tasks) + 1)..Len(tasks'))
  BY <1>1 DEF Files
<1>. QED
  BY <1>1, <1>2 DEF Files, Finished

\* A completion marks its task and adds its entry in one step; nothing else adds a
\* completed task or an entry under the key of a completion.
LEMMA CompletionsPair ==
    ASSUME IInv, QInv, CInv, [Next]_vars
    PROVE  CInv'
<1>. SUFFICES ASSUME NEW c \in Cases, NEW type \in CompletableTasks, NEW u \in Users
              PROVE  Cardinality(Finished(c, type, u)') = Cardinality(Executed(c, type, u)')
  BY DEF CInv
<1>. DEFINE F == Finished(c, type, u)
            X == Executed(c, type, u)
<1>1. Cardinality(F) = Cardinality(X)
  BY DEF CInv
<1>2. /\ TypeOK /\ Len(tasks) \in Nat /\ Len(transitions) \in Nat
      /\ F \in SUBSET (1..Len(tasks)) /\ X \in SUBSET (1..Len(transitions))
  BY LenProperties DEF IInv, TypeOK, Finished, Executed
<1>. HIDE DEF F, X
<1>3. CASE tasks' = tasks /\ transitions' = transitions
  BY <1>1, <1>3 DEF F, X, Finished, Executed
<1>4. ASSUME NEW s \in Slots, OpenCommit(s)
      PROVE  F' = F /\ X' = X
  <2>1. PICK e \in Entry : transitions' = Append(transitions, e) /\ e.command = "open_case"
    BY <1>4, OpeningEntry
  <2>2. e.command # CompletionCommand[type]
    BY <2>1, CompletionCommands DEF Commands, TransitionMap
  <2>3. X' = X
    BY <1>2, <2>1, <2>2, HistoryGrows DEF X, Executed
  <2>4. F' = F
    BY <1>4 DEF OpenCommit, F, Finished
  <2>. QED
    BY <2>3, <2>4
<1>5. ASSUME NEW s \in Slots, TransitionCommit(s)
      PROVE  F' = F /\ X' = X
  <2>1. /\ Moves(s) /\ Files(requests[s], tasks)
        /\ NewTaskCount(requests[s].command) \in Nat
    BY <1>5, TransitionRows
  <2>2. requests[s].key[1] # "task-complete"
    BY <1>5, MovingKeys DEF TransitionCommit
  <2>3. X' = X
    BY <1>2, <2>1, <2>2, EntryOfRequest DEF X, Executed
  <2>4. F' = {t \in 1..Len(tasks) : /\ tasks[t].case = c /\ tasks[t].type = type
                                    /\ tasks[t].status = "COMPLETED"
                                    /\ tasks[t].doneBy = u}
    BY <1>2, <2>1, FilingFinishesNothing DEF F
  <2>5. F' = F
    BY <2>4 DEF F, Finished
  <2>. QED
    BY <2>3, <2>5
<1>6. ASSUME NEW s \in Slots, CompleteCommit(s)
      PROVE  Cardinality(F') = Cardinality(X')
  <2>. DEFINE r == requests[s]
              t0 == r.task
              n == Len(transitions)
              marked == [tasks EXCEPT ![t0] = Done(r)]
              ours == c = r.case /\ type = tasks[t0].type /\ u = r.actor
  <2>1. /\ Moves(s) /\ r.kind = "complete" /\ t0 \in 1..Len(tasks) /\ Done(r) \in Task
        /\ Files(r, marked) /\ NewTaskCount(r.command) \in Nat
    BY <1>6, CompletionRows
  <2>2. /\ tasks[t0] \in Task /\ DOMAIN tasks = 1..Len(tasks)
    BY <2>1, ElementOfSeq, LenProperties DEF IInv, TypeOK
  <2>3. /\ tasks[t0].case = r.case /\ tasks[t0].type \in CompletableTasks
        /\ r.command = CompletionCommand[tasks[t0].type]
        /\ tasks[t0].status # "COMPLETED" /\ r.key[1] = "task-complete"
    BY <2>1 DEF QInv, Claims, KeyOK, Moves, Writable
  <2>4. /\ marked[t0] = Done(r)
        /\ \A t \in 1..Len(tasks) \ {t0} : marked[t] = tasks[t]
    BY <2>1, <2>2
  <2>5. /\ Done(r).case = r.case /\ Done(r).type = tasks[t0].type
        /\ Done(r).status = "COMPLETED" /\ Done(r).doneBy = r.actor
    BY <2>2, <2>3 DEF Done, Task
  <2>6. F' = {t \in 1..Len(tasks) : /\ marked[t].case = c /\ marked[t].type = type
                                    /\ marked[t].status = "COMPLETED"
                                    /\ marked[t].doneBy = u}
    BY <1>2, <2>1, FilingFinishesNothing DEF F
  <2>. HIDE DEF marked
  <2>7. F' = IF ours THEN F \cup {t0} ELSE F
    BY <2>1, <2>3, <2>4, <2>5, <2>6 DEF F, Finished
  <2>8. t0 \notin F
    BY <2>3 DEF F, Finished
  <2>9. r.command = CompletionCommand[type] <=> type = tasks[t0].type
    BY <2>3, CompletionCommandsDiffer
  <2>10. /\ Len(transitions') = n + 1
         /\ \A i \in 1..n : transitions'[i] = transitions[i]
         /\ transitions'[n + 1].case = r.case /\ transitions'[n + 1].command = r.command
         /\ transitions'[n + 1].actor = r.actor /\ transitions'[n + 1].key = r.key
    BY <2>1, EntryOfRequest
  <2>11. X' = (IF ours THEN X \cup {n + 1} ELSE X) /\ n + 1 \notin X
    BY <1>2, <2>3, <2>9, <2>10 DEF X, Executed
  <2>12. Cardinality(F \cup {t0}) = Cardinality(F) + 1
    BY <1>2, <2>8, OneMoreRow
  <2>13. Cardinality(X \cup {n + 1}) = Cardinality(X) + 1
    BY <1>2, <2>11, OneMoreRow
  <2>. QED
    BY <1>1, <2>7, <2>11, <2>12, <2>13
<1>7. ASSUME NEW s \in Slots, DelegateCommit(s)
      PROVE  F' = F /\ X' = X
  <2>. DEFINE t0 == requests[s].task
  <2>1. /\ t0 \in 1..Len(tasks) /\ tasks[t0] \in Task /\ tasks[t0].status = "PENDING"
        /\ Len(tasks') = Len(tasks) + 1
        /\ tasks'[t0] = Handed(t0)
        /\ \A t \in 1..Len(tasks) \ {t0} : tasks'[t] = tasks[t]
        /\ tasks'[Len(tasks) + 1] = Copied(t0, requests[s].arg)
    BY <1>7, DelegationRows
  <2>2. /\ Handed(t0).status # "COMPLETED"
        /\ Copied(t0, requests[s].arg).status # "COMPLETED"
    BY <2>1 DEF Handed, Copied, Task
  <2>. HIDE DEF t0
  <2>3. F' = F
    BY <1>2, <2>1, <2>2 DEF F, Finished
  <2>4. X' = X
    BY <1>7 DEF DelegateCommit, X, Executed
  <2>. QED
    BY <2>3, <2>4
<1>8. ASSUME NEW s \in Slots, ConfidentialityCommit(s)
      PROVE  tasks' = tasks /\ transitions' = transitions
  BY <1>8 DEF ConfidentialityCommit
<1>9. CASE UNCHANGED tables
  BY <1>3, <1>9 DEF tables
<1>10. ASSUME NEW s \in Slots, OpenCommit(s) \/ TransitionCommit(s) \/ DelegateCommit(s)
       PROVE  Cardinality(F') = Cardinality(X')
  <2>1. F' = F /\ X' = X
    BY <1>4, <1>5, <1>7, <1>10
  <2>. QED
    BY <1>1, <2>1, Zenon
<1>. QED
  BY <1>3, <1>6, <1>8, <1>9, <1>10, WritingSteps DEF F, X

\* No task counts as completed without the transition it stands for, and no transition
\* is executed twice for one task, however completions, delegations, retries and other
\* commands overlap (completeTask).
THEOREM CompletionsAreExecuted == Spec => []CompletionsAreTransitions
<1>1. Init => CInv
  <2>1. ASSUME Init, NEW c \in Cases, NEW type \in CompletableTasks, NEW u \in Users
        PROVE  Finished(c, type, u) = {} /\ Executed(c, type, u) = {}
    BY <2>1 DEF Init, Finished, Executed
  <2>. QED
    BY <2>1 DEF CInv
<1>2. IInv /\ QInv /\ CInv /\ [Next]_vars => CInv'
  BY CompletionsPair
<1>3. CInv => CompletionsAreTransitions
  BY DEF CInv, CompletionsAreTransitions, Count, Finished, Executed
<1>. QED
  BY <1>1, <1>2, <1>3, ChecksStayGood, RequestsInvariant, PTL DEF Spec

(***************************************************************************)
(* Somebody has the work                                                   *)
(***************************************************************************)
\* Every task was made by an entry of its case.
ByEntry ==
    \A t \in 1..Len(tasks) :
        /\ tasks[t].by \in 1..Len(transitions)
        /\ transitions[tasks[t].by].case = tasks[t].case

\* The pending tasks that an entry made, or that were delegated from those.
PendingOf(j) == {t \in 1..Len(tasks) : tasks[t].by = j /\ tasks[t].status = "PENDING"}

\* The last entry of a case that made tasks has as many pending as it made.
Staffed(c, j) ==
    /\ IsLatest(j, c, Len(transitions))
    /\ transitions[j].command # "open_case"
    /\ TasksOf(transitions[j].command) # {}
    => Cardinality(PendingOf(j)) =
          IF transitions[j].to = "member_approval" THEN Len(Members) ELSE 1

WInv ==
    /\ ByEntry
    /\ \A c \in Cases, j \in 1..Len(transitions) : Staffed(c, j)

\* A moving transaction files tasks of its own entry; of the older tasks only those of
\* its case may change, and that case has a new last entry.
LEMMA MovesStaff ==
    ASSUME IInv, WInv, NEW s \in Slots, Moves(s), NEW marked,
           Files(requests[s], marked), NewTaskCount(requests[s].command) \in Nat,
           \A t \in 1..Len(tasks) : /\ marked[t].by = tasks[t].by
                                    /\ marked[t].case = tasks[t].case
                                    /\ tasks[t].case # requests[s].case
                                          => marked[t] = tasks[t]
    PROVE  WInv'
<1>. DEFINE r == requests[s]
<1>0. PICK n \in Nat, m \in Nat : n = Len(transitions) /\ m = Len(tasks)
  BY LenProperties DEF IInv, TypeOK
<1>1. r.command \in Commands /\ r.case \in Cases
  BY CommitPermitted DEF Moves
<1>2. /\ Len(transitions') = n + 1
      /\ \A i \in 1..n : transitions'[i] = transitions[i]
      /\ transitions'[n + 1].case = r.case /\ transitions'[n + 1].command = r.command
      /\ transitions'[n + 1].to = TransitionMap[r.command].to
  BY <1>0, EntryOfRequest
<1>3. /\ Len(tasks') = m + NewTaskCount(r.command)
      /\ \A t \in 1..m : tasks'[t] = marked[t]
      /\ \A t \in (m + 1)..Len(tasks') :
            tasks'[t].case = r.case /\ tasks'[t].status = "PENDING" /\ tasks'[t].by = n + 1
  BY <1>0 DEF Files
<1>4. \A t \in 1..m : tasks[t].by \in 1..n /\ transitions[tasks[t].by].case = tasks[t].case
  BY <1>0 DEF WInv, ByEntry
<1>5. /\ \A t \in 1..Len(tasks') : t \in 1..m \/ t \in (m + 1)..Len(tasks')
      /\ \A t \in 1..m : t \in 1..Len(tasks') /\ tasks'[t].by = tasks[t].by
                                             /\ tasks'[t].case = tasks[t].case
  BY <1>0, <1>3
<1>6. ByEntry'
  <2>1. ASSUME NEW t \in 1..m
        PROVE  /\ tasks'[t].by \in 1..(n + 1)
               /\ transitions'[tasks'[t].by].case = tasks'[t].case
    <3>1. tasks[t].by \in 1..n /\ transitions[tasks[t].by].case = tasks[t].case
      BY <1>4
    <3>2. tasks'[t].by = tasks[t].by /\ tasks'[t].case = tasks[t].case
      BY <1>5
    <3>3. transitions'[tasks[t].by] = transitions[tasks[t].by]
      BY <1>2, <3>1
    <3>4. tasks[t].by \in 1..(n + 1)
      BY <3>1
    <3>. QED
      BY <3>1, <3>2, <3>3, <3>4
  <2>2. ASSUME NEW t \in (m + 1)..Len(tasks')
        PROVE  /\ tasks'[t].by \in 1..(n + 1)
               /\ transitions'[tasks'[t].by].case = tasks'[t].case
    BY <1>1, <1>2, <1>3
  <2>. QED
    BY <1>2, <1>5, <2>1, <2>2 DEF ByEntry
<1>7. ASSUME TasksOf(r.command) # {}
      PROVE  Cardinality(PendingOf(n + 1)') =
                IF TransitionMap[r.command].to = "member_approval" THEN Len(Members) ELSE 1
  <2>1. PendingOf(n + 1)' = (m + 1)..(m + NewTaskCount(r.command))
    <3>1. \A t \in 1..m : tasks'[t].by # n + 1
      BY <1>4, <1>5
    <3>. QED
      BY <1>3, <1>5, <3>1 DEF PendingOf
  <2>2. NewTaskCount(r.command) \in Nat
    OBVIOUS
  <2>3. Cardinality((m + 1)..(m + NewTaskCount(r.command))) = NewTaskCount(r.command)
    BY <1>1, <2>2, FS_Interval
  <2>. QED
    BY <1>7, <2>1, <2>3 DEF NewTaskCount
<1>8. ASSUME NEW c \in Cases, NEW j \in 1..(n + 1), IsLatest(j, c, n + 1)',
             transitions'[j].command # "open_case", TasksOf(transitions'[j].command) # {}
      PROVE  Cardinality(PendingOf(j)') =
                IF transitions'[j].to = "member_approval" THEN Len(Members) ELSE 1
  <2>1. CASE c = r.case
    <3>1. j = n + 1
      BY <1>1, <1>2, <1>8, <2>1 DEF IsLatest
    <3>. QED
      BY <1>2, <1>7, <1>8, <3>1
  <2>2. CASE c # r.case
    <3>1. j \in 1..n /\ IsLatest(j, c, n)
      BY <1>1, <1>2, <1>8, <2>2 DEF IsLatest
    <3>2. transitions'[j] = transitions[j] /\ transitions[j].case = c
      BY <1>2, <3>1 DEF IsLatest
    <3>3. Staffed(c, j)
      BY <1>0, <3>1 DEF WInv
    <3>4. Cardinality(PendingOf(j)) =
             IF transitions[j].to = "member_approval" THEN Len(Members) ELSE 1
      BY <1>0, <1>8, <3>1, <3>2, <3>3 DEF Staffed
    <3>5. \A t \in 1..m : /\ tasks'[t].by = tasks[t].by
                          /\ tasks[t].by = j => tasks'[t] = tasks[t]
      BY <1>0, <1>3, <1>4, <2>2, <3>2
    <3>6. j # n + 1
      BY <1>1, <3>1
    <3>7. PendingOf(j)' = PendingOf(j)
      BY <1>0, <1>3, <1>5, <3>5, <3>6 DEF PendingOf
    <3>. QED
      BY <3>2, <3>4, <3>7
  <2>. QED
    BY <2>1, <2>2
<1>9. \A c \in Cases, j \in 1..(n + 1) : Staffed(c, j)'
  BY <1>2, <1>8 DEF Staffed
<1>. QED
  BY <1>2, <1>6, <1>9 DEF WInv

\* A case that is opened has no entry before, and its opening makes no task.
LEMMA OpeningStaffs ==
    ASSUME IInv, WInv, NEW s \in Slots, OpenCommit(s)
    PROVE  WInv'
<1>0. PICK n \in Nat : n = Len(transitions)
  BY LenProperties DEF IInv, TypeOK
<1>1. PICK e \in Entry : transitions' = Append(transitions, e) /\ e.command = "open_case"
  BY OpeningEntry
<1>2. /\ Len(transitions') = n + 1 /\ transitions'[n + 1] = e
      /\ \A i \in 1..n : transitions'[i] = transitions[i]
  BY <1>0, <1>1, HistoryGrows DEF IInv
<1>3. tasks' = tasks
  BY DEF OpenCommit
<1>4. ByEntry'
  <2>1. \A t \in 1..Len(tasks) : /\ tasks[t].by \in 1..n
                                 /\ transitions[tasks[t].by].case = tasks[t].case
    BY <1>0 DEF WInv, ByEntry
  <2>. QED
    BY <1>2, <1>3, <2>1 DEF ByEntry
<1>5. ASSUME NEW c \in Cases, NEW j \in 1..(n + 1)
      PROVE  Staffed(c, j)'
  <2>1. CASE j = n + 1
    BY <1>1, <1>2, <2>1 DEF Staffed
  <2>2. CASE j # n + 1
    <3>1. j \in 1..n /\ transitions'[j] = transitions[j]
      BY <1>2, <2>2
    <3>2. IsLatest(j, c, n + 1)' => IsLatest(j, c, n)
      BY <1>2, <3>1 DEF IsLatest
    <3>3. Staffed(c, j)
      BY <1>0, <3>1 DEF WInv
    <3>4. PendingOf(j)' = PendingOf(j)
      BY <1>3 DEF PendingOf
    <3>. QED
      BY <1>0, <1>2, <3>1, <3>2, <3>3, <3>4 DEF Staffed
  <2>. QED
    BY <2>1, <2>2
<1>. QED
  BY <1>2, <1>4, <1>5 DEF WInv

\* A delegation exchanges a pending task for another of the same entry.
LEMMA DelegationStaffs ==
    ASSUME IInv, WInv, NEW s \in Slots, DelegateCommit(s)
    PROVE  WInv'
<1>0. PICK m \in Nat, t0 \in {requests[s].task}, u \in {requests[s].arg} :
         m = Len(tasks) /\ t0 = requests[s].task /\ u = requests[s].arg
  BY LenProperties DEF IInv, TypeOK
<1>. DEFINE new == Copied(t0, u)
<1>1. /\ t0 \in 1..m /\ tasks[t0] \in Task /\ tasks[t0].status = "PENDING"
      /\ Len(tasks') = m + 1
      /\ tasks'[t0] = Handed(t0)
      /\ \A t \in 1..m \ {t0} : tasks'[t] = tasks[t]
      /\ tasks'[m + 1] = new
  BY <1>0, DelegationRows
<1>2. transitions' = transitions
  BY DEF DelegateCommit
<1>3. /\ Handed(t0).case = tasks[t0].case /\ Handed(t0).by = tasks[t0].by
      /\ Handed(t0).status = "DELEGATED"
      /\ new.case = tasks[t0].case /\ new.by = tasks[t0].by /\ new.status = "PENDING"
  BY <1>1 DEF Handed, Copied, Task
<1>. HIDE DEF new
<1>4. ByEntry'
  <2>1. ASSUME NEW t \in 1..m
        PROVE  tasks'[t].by = tasks[t].by /\ tasks'[t].case = tasks[t].case
    BY <1>1, <1>3
  <2>2. \A t \in 1..m : /\ tasks[t].by \in 1..Len(transitions)
                         /\ transitions[tasks[t].by].case = tasks[t].case
    BY <1>0 DEF WInv, ByEntry
  <2>3. ASSUME NEW t \in 1..(m + 1)
        PROVE  /\ tasks'[t].by \in 1..Len(transitions)
               /\ transitions[tasks'[t].by].case = tasks'[t].case
    <3>1. CASE t \in 1..m
      BY <2>1, <2>2, <3>1
    <3>2. CASE t = m + 1
      BY <1>1, <1>3, <2>2, <3>2
    <3>. QED
      BY <3>1, <3>2
  <2>. QED
    BY <1>1, <1>2, <2>3 DEF ByEntry
<1>5. ASSUME NEW j
      PROVE  Cardinality(PendingOf(j)') = Cardinality(PendingOf(j))
  <2>1. PendingOf(j) \in SUBSET (1..m) /\ m + 1 \notin PendingOf(j)
    BY <1>0 DEF PendingOf
  <2>2. CASE tasks[t0].by = j
    <3>1. t0 \in PendingOf(j)
      BY <1>0, <1>1, <2>2 DEF PendingOf
    <3>2. PendingOf(j)' = (PendingOf(j) \ {t0}) \cup {m + 1}
      BY <1>0, <1>1, <1>3, <2>2 DEF PendingOf
    <3>. QED
      BY <2>1, <3>1, <3>2, RowExchanged
  <2>3. CASE tasks[t0].by # j
    <3>1. PendingOf(j)' = PendingOf(j)
      BY <1>0, <1>1, <1>3, <2>3 DEF PendingOf
    <3>. QED
      BY <3>1
  <2>. QED
    BY <2>2, <2>3
<1>6. ASSUME NEW c \in Cases, NEW j \in 1..Len(transitions)
      PROVE  Staffed(c, j)'
  BY <1>2, <1>5 DEF WInv, Staffed, IsLatest
<1>. QED
  BY <1>2, <1>4, <1>6 DEF WInv

\* Every step leaves the last entry of each case with its pending tasks.
LEMMA WorkStays ==
    ASSUME IInv, QInv, WInv, [Next]_vars
    PROVE  WInv'
<1>1. CASE tasks' = tasks /\ transitions' = transitions
  <2>1. ByEntry'
    BY <1>1 DEF WInv, ByEntry
  <2>2. ASSUME NEW c \in Cases, NEW j \in 1..Len(transitions)
        PROVE  Staffed(c, j)'
    BY <1>1 DEF WInv, Staffed, PendingOf, IsLatest
  <2>. QED
    BY <1>1, <2>1, <2>2 DEF WInv
<1>2. ASSUME NEW s \in Slots, TransitionCommit(s)
      PROVE  WInv'
  <2>1. /\ Moves(s) /\ Files(requests[s], tasks)
        /\ NewTaskCount(requests[s].command) \in Nat
    BY <1>2, TransitionRows
  <2>. QED
    BY <2>1, MovesStaff
<1>3. ASSUME NEW s \in Slots, CompleteCommit(s)
      PROVE  WInv'
  <2>. DEFINE r == requests[s]
              marked == [tasks EXCEPT ![r.task] = Done(r)]
  <2>1. /\ Moves(s) /\ r.kind = "complete" /\ r.task \in 1..Len(tasks)
        /\ Files(r, marked) /\ NewTaskCount(r.command) \in Nat
    BY <1>3, CompletionRows
  <2>2. /\ tasks[r.task] \in Task /\ DOMAIN tasks = 1..Len(tasks)
    BY <2>1, ElementOfSeq, LenProperties DEF IInv, TypeOK
  <2>3. tasks[r.task].case = r.case
    BY <2>1 DEF QInv, Claims
  <2>4. Done(r).by = tasks[r.task].by /\ Done(r).case = tasks[r.task].case
    BY <2>2 DEF Done, Task
  <2>5. \A t \in 1..Len(tasks) : marked[t] = IF t = r.task THEN Done(r) ELSE tasks[t]
    BY <2>1, <2>2
  <2>. HIDE DEF marked
  <2>6. \A t \in 1..Len(tasks) : /\ marked[t].by = tasks[t].by
                                 /\ marked[t].case = tasks[t].case
                                 /\ tasks[t].case # r.case => marked[t] = tasks[t]
    BY <2>3, <2>4, <2>5
  <2>. QED
    BY <2>1, <2>6, MovesStaff
<1>4. ASSUME NEW s \in Slots, ConfidentialityCommit(s)
      PROVE  tasks' = tasks /\ transitions' = transitions
  BY <1>4 DEF ConfidentialityCommit
<1>. QED
  BY <1>1, <1>2, <1>3, <1>4, OpeningStaffs, DelegationStaffs, WritingSteps DEF tables

\* A case that waits for work is never without it and never has it twice, whatever
\* delegations, completions, rejected and rival requests do
\* (createTasksForTransition, delegateTask).
THEOREM WorkIsAssigned == Spec => []CurrentWorkIsAssigned
<1>1. Init => WInv
  BY DEF Init, WInv, ByEntry
<1>2. IInv /\ QInv /\ WInv /\ [Next]_vars => WInv'
  BY WorkStays
<1>3. ASSUME HInv, WInv, TypeOK
      PROVE  CurrentWorkIsAssigned
  <2>1. SUFFICES ASSUME NEW c \in Cases, NEW j \in 1..Len(transitions),
                        IsLatest(j, c, Len(transitions)),
                        transitions[j].command # "open_case",
                        TasksOf(transitions[j].command) # {}
                 PROVE  Cardinality(PendingOf(j)) =
                           IF cases[c].state = "member_approval" THEN Len(Members) ELSE 1
    BY DEF CurrentWorkIsAssigned, Count, PendingOf
  <2>2. Opened(c)
    BY <1>3, <2>1 DEF HInv, IsLatest
  <2>3. PICK i \in 1..Len(transitions) :
            IsLatest(i, c, Len(transitions)) /\ transitions[i].to = cases[c].state
    BY <1>3, <2>2 DEF HInv, Reached
  <2>4. i = j
    BY <1>3, <2>1, <2>3, LenProperties DEF IsLatest, TypeOK
  <2>. QED
    BY <1>3, <2>1, <2>3, <2>4 DEF WInv, Staffed
<1>. QED
  BY <1>1, <1>2, <1>3, ChecksStayGood, TypeCorrect, RequestsInvariant, HistoryInvariant, PTL
     DEF Spec

=================================================================================
