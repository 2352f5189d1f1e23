----------------------------- MODULE DecisionRound -----------------------------
(***************************************************************************)
(* The vote of the council on one case: members approve or object          *)
(* (castVote), the silent acceptance job votes for those who stay silent   *)
(* when the time of the round is up, and whoever casts the last approval   *)
(* moves the case on to the decision draft.                                *)
(*                                                                         *)
(* Neither handler takes the advisory lock of the case.  Both read the     *)
(* active round before their transaction; inside it each statement sees    *)
(* what is committed at that moment (READ COMMITTED) and the transaction's *)
(* own rows.  A transaction is therefore three steps: insert the vote,     *)
(* decide on what is visible, and commit against the version of the case.  *)
(*                                                                         *)
(* A round gives every active member a task. A vote completes a task that  *)
(* its voter holds; a member can hand a task over to another one, before   *)
(* the vote or while it runs (delegateTask, which does take the lock).     *)
(***************************************************************************)
EXTENDS Naturals, Sequences, FiniteSets

CONSTANTS
    Members,      \* the council members active when the first round begins
    Voters,       \* those of them whose clearance lets them open the case
    Casts,        \* the vote requests that can be in flight at once
    Nobody,
    MaxRounds,       \* no objection is sent after this round (bound)
    MaxLeavers,      \* members deactivated during the vote (bound)
    MaxDelegations   \* tasks handed over during the vote (bound)

ASSUME CouncilAssumption ==
    /\ IsFiniteSet(Members) /\ Voters \subseteq Members /\ Nobody \notin Members
    /\ MaxRounds \in Nat /\ MaxLeavers \in Nat /\ MaxDelegations \in Nat

VARIABLES
    stage,      \* "member_approval" or "decision_draft"
    version,    \* the optimistic lock version of the case
    rounds,     \* for each transition to member_approval: are its 24 hours over?
    eligible,   \* the council members that are active now
    votes,      \* the committed rows of decision_votes
    open,       \* the member approval tasks that are PENDING
    done,       \* those that are COMPLETED
    handed,     \* those that are DELEGATED
    cast,       \* the vote requests in flight
    job,        \* the silent acceptance job on this case
    handing     \* the request that hands a task over

tasks == <<open, done, handed>>
vars == <<stage, version, rounds, eligible, votes, tasks, cast, job, handing>>

Explicit == {"APPROVE", "REJECT"}
Accepting == {"APPROVE", "SILENT_ACCEPTANCE"}
Vote == [round : Nat, voter : Members, type : Explicit \cup {"SILENT_ACCEPTANCE"}]

\* A task of a round: the member it was created for, how often it has been handed over
\* since, and the member who holds it now.
Task == [round : Nat, member : Members, hand : Nat, holder : Members]

Phases == {"idle", "read", "inserted", "decided"}
Plans == {"none", "draft", "objection"}

IdleCast == [phase |-> "idle", voter |-> Nobody, type |-> "APPROVE", round |-> 0,
             version |-> 0, plan |-> "none", own |-> {}]
IdleJob == [phase |-> "idle", round |-> 0, silent |-> {}, version |-> 0,
            plan |-> "none", seek |-> {}, own |-> {}]
NotHanding == [phase |-> "idle", task |-> {}, to |-> Nobody]

TypeOK ==
    /\ stage \in {"member_approval", "decision_draft"}
    /\ version \in Nat
    /\ rounds \in Seq(BOOLEAN)
    /\ eligible \subseteq Members
    /\ votes \subseteq Vote
    /\ open \subseteq Task /\ done \subseteq Task /\ handed \subseteq Task
    /\ cast \in [Casts -> [phase : Phases, voter : Members \cup {Nobody}, type : Explicit,
                           round : Nat, version : Nat, plan : Plans, own : SUBSET Task]]
    /\ job \in [phase : Phases, round : Nat, silent : SUBSET Members, version : Nat,
                plan : Plans, seek : SUBSET Members, own : SUBSET Task]
    /\ handing \in [phase : {"idle", "read", "locked"}, task : SUBSET Task,
                    to : Members \cup {Nobody}]

Active == Len(rounds)    \* findActiveMemberApprovalTransition

(***************************************************************************)
(* Rows inserted and not yet committed: nobody else sees them, but the     *)
(* unique index on (transition, voter) makes a second insert wait.         *)
(***************************************************************************)
MyVote(s) == [round |-> cast[s].round, voter |-> cast[s].voter, type |-> cast[s].type]
SilentVotes == {[round |-> job.round, voter |-> m, type |-> "SILENT_ACCEPTANCE"] :
                    m \in job.silent}

Writing(phase) == phase \in {"inserted", "decided"}
Uncommitted ==
    {MyVote(s) : s \in {x \in Casts : Writing(cast[x].phase)}}
      \cup (IF Writing(job.phase) THEN SilentVotes ELSE {})

HasVoted(m, r, rows) == \E v \in rows : v.voter = m /\ v.round = r

\* isUnanimityCompleteForTransition.
Unanimous(r, rows) ==
    /\ eligible # {}
    /\ Cardinality({v \in rows : v.round = r}) >= Cardinality(eligible)
    /\ \A m \in eligible :
          \E v \in rows : v.voter = m /\ v.round = r /\ v.type \in Accepting

(***************************************************************************)
(* The transitions of the case, at the commit of their transaction         *)
(***************************************************************************)
\* The tasks that a transition to member_approval creates.
NewTasks(r) == {[round |-> r, member |-> m, hand |-> 0, holder |-> m] : m \in eligible}

\* Mutant: the decision draft is skipped.
ToBoard(own) == /\ stage' = "board_chair_review"
                /\ version' = version + 1
                /\ open' = open \ own
                /\ UNCHANGED rounds

\* Each completes the tasks that its transaction has found, whatever their status is now.
ToDraft(own) == /\ stage' = "decision_draft"
                /\ version' = version + 1
                /\ open' = open \ own
                /\ UNCHANGED rounds

\* MEMBER_OBJECTION: a new round, with a task for every active member.
NewRound(own) == /\ rounds' = Append(rounds, FALSE)
                 /\ version' = version + 1
                 /\ open' = (open \ own) \cup NewTasks(Active + 1)
                 /\ UNCHANGED stage

Stay(own) == open' = open \ own /\ UNCHANGED <<stage, version, rounds>>

Follow(plan, own) ==
    /\ CASE plan = "draft"     -> ToDraft(own)
         [] plan = "objection" -> NewRound(own)
         [] OTHER              -> Stay(own)
    /\ done' = done \cup own
    /\ handed' = handed \ own

\* Mutant: unanimity in any round will do.
AdvanceAnyRound(r, rows) ==
    IF ~Unanimous(r, rows) \/ stage # "member_approval" THEN {"none"} ELSE {"draft"}

\* What advanceToDecisionDraftIfUnanimous does when the transaction sees these
\* rows: it moves on, stays, or fails, because the round it voted in was complete
\* but is no longer the active one.
AdvancePlans(r, rows) ==
    IF ~Unanimous(r, rows) \/ stage # "member_approval" THEN {"none"}
    ELSE IF Unanimous(Active, rows) THEN {"draft"} ELSE {}

\* Mutant: the task is looked for in the newest round, not in the round voted in.
FoundInNewest(m, r) ==
    LET mine == {t \in open : t.round = Active /\ t.holder = m}
    IN  IF mine = {} THEN {{}} ELSE {{t} : t \in mine}

\* completeMemberApprovalTask looks for a pending task of the round that the member
\* holds: if there are several, any of them.
Found(m, r) ==
    LET mine == {t \in open : t.round = r /\ t.holder = m}
    IN  IF mine = {} THEN {{}} ELSE {{t} : t \in mine}

(***************************************************************************)
(* castVote                                                                *)
(***************************************************************************)
PutCast(s, r) == cast' = [cast EXCEPT ![s] = r]

CastRead(s, m, type) ==
    /\ cast[s].phase = "idle"
    /\ m \in Voters \cap eligible
    /\ type = "REJECT" => Active < MaxRounds
    /\ stage = "member_approval"
    /\ PutCast(s, [IdleCast EXCEPT !.phase = "read", !.voter = m, !.type = type,
                                   !.round = Active])
    /\ UNCHANGED <<stage, version, rounds, eligible, votes, tasks, job, handing>>

CastInsert(s) ==
    LET r == cast[s]
    IN  /\ r.phase = "read"
        /\ stage = "member_approval"
        /\ ~HasVoted(r.voter, r.round, votes \cup Uncommitted)
        /\ \E own \in Found(r.voter, r.round) :
              PutCast(s, [r EXCEPT !.phase = "inserted", !.version = version, !.own = own])
        /\ UNCHANGED <<stage, version, rounds, eligible, votes, tasks, job, handing>>

CastRefuse(s) ==
    /\ cast[s].phase = "read"
    /\ stage # "member_approval" \/ HasVoted(cast[s].voter, cast[s].round, votes)
    /\ PutCast(s, IdleCast)
    /\ UNCHANGED <<stage, version, rounds, eligible, votes, tasks, job, handing>>

\* Mutant: the conflict of an objection is swallowed and its vote recorded.
CastSwallows(s) ==
    IF cast[s].type = "REJECT"
    THEN IF stage = "member_approval" /\ version = cast[s].version
         THEN {"objection"} ELSE {"none"}
    ELSE AdvancePlans(cast[s].round, votes \cup {MyVote(s)})

\* An objection is executed on the version read before the insert, an approval on
\* the version read after the count.
CastPlans(s) ==
    IF cast[s].type = "REJECT"
    THEN IF stage = "member_approval" /\ version = cast[s].version
         THEN {"objection"} ELSE {}
    ELSE AdvancePlans(cast[s].round, votes \cup {MyVote(s)})

CastDecide(s) ==
    /\ cast[s].phase = "inserted"
    /\ \E plan \in CastPlans(s) :
          PutCast(s, [cast[s] EXCEPT !.phase = "decided", !.plan = plan,
                                     !.version = version])
    /\ UNCHANGED <<stage, version, rounds, eligible, votes, tasks, job, handing>>

\* Mutant: the version of the case is not compared.
CommitUnversioned(s) ==
    LET r == cast[s]
    IN  /\ r.phase = "decided"
        /\ votes' = votes \cup {MyVote(s)}
        /\ Follow(r.plan, r.own)
        /\ PutCast(s, IdleCast)
        /\ UNCHANGED <<eligible, job, handing>>

CastCommit(s) ==
    LET r == cast[s]
    IN  /\ r.phase = "decided"
        /\ r.plan = "none" \/ version = r.version
        /\ votes' = votes \cup {MyVote(s)}
        /\ Follow(r.plan, r.own)
        /\ PutCast(s, IdleCast)
        /\ UNCHANGED <<eligible, job, handing>>

\* The transaction fails and takes its vote with it; the member gets an error.
CastFail(s) ==
    /\ \/ cast[s].phase = "inserted" /\ CastPlans(s) = {}
       \/ cast[s].phase = "decided" /\ cast[s].plan # "none" /\ version # cast[s].version
    /\ PutCast(s, IdleCast)
    /\ UNCHANGED <<stage, version, rounds, eligible, votes, tasks, job, handing>>

CastCrash(s) ==
    /\ cast[s].phase # "idle"
    /\ PutCast(s, IdleCast)
    /\ UNCHANGED <<stage, version, rounds, eligible, votes, tasks, job, handing>>

(***************************************************************************)
(* The silent acceptance job, every five minutes                           *)
(***************************************************************************)
\* Mutant: a round nobody is silent in is skipped.
JobReadSilentOnly ==
    /\ job.phase = "idle"
    /\ stage = "member_approval"
    /\ rounds[Active]
    /\ \E m \in eligible : ~HasVoted(m, Active, votes)
    /\ job' = [IdleJob EXCEPT !.phase = "read", !.round = Active,
                  !.silent = {m \in eligible : ~HasVoted(m, Active, votes)}]
    /\ UNCHANGED <<stage, version, rounds, eligible, votes, tasks, cast, handing>>

\* processPendingBatch and the reads of processCase.
JobRead ==
    /\ job.phase = "idle"
    /\ stage = "member_approval"
    /\ rounds[Active]
    /\ job' = [IdleJob EXCEPT !.phase = "read", !.round = Active,
                  !.silent = {m \in eligible : ~HasVoted(m, Active, votes)}]
    /\ UNCHANGED <<stage, version, rounds, eligible, votes, tasks, cast, handing>>

\* Mutant: votes committed since the job has read are not looked for.
JobInsertBlind ==
    /\ job.phase = "read"
    /\ \A m \in job.silent : ~HasVoted(m, job.round, Uncommitted)
    /\ job' = [job EXCEPT !.phase = "inserted", !.seek = job.silent]
    /\ UNCHANGED <<stage, version, rounds, eligible, votes, tasks, cast, handing>>

\* createSilentAcceptanceVote for each of them; a vote that was committed in the
\* meantime is left alone, one that is being written must end first.
JobInsert ==
    /\ job.phase = "read"
    /\ \A m \in job.silent : ~HasVoted(m, job.round, Uncommitted)
    /\ job' = [job EXCEPT !.phase = "inserted",
                  !.silent = {m \in @ : ~HasVoted(m, job.round, votes)},
                  !.seek = {m \in job.silent : ~HasVoted(m, job.round, votes)}]
    /\ UNCHANGED <<stage, version, rounds, eligible, votes, tasks, cast, handing>>

\* The vote it waits for is committed: the unique index refuses the job's own.
JobCollide ==
    /\ job.phase = "read"
    /\ \E m \in job.silent : HasVoted(m, job.round, Uncommitted)
    /\ job' = IdleJob
    /\ UNCHANGED <<stage, version, rounds, eligible, votes, tasks, cast, handing>>

\* The task of each, one member after the other.
JobFind(m) ==
    /\ job.phase = "inserted" /\ m \in job.seek
    /\ \E own \in Found(m, job.round) :
          job' = [job EXCEPT !.seek = @ \ {m}, !.own = @ \cup own]
    /\ UNCHANGED <<stage, version, rounds, eligible, votes, tasks, cast, handing>>

JobPlans == AdvancePlans(job.round, votes \cup SilentVotes)

JobDecide ==
    /\ job.phase = "inserted" /\ job.seek = {}
    /\ \E plan \in JobPlans :
          job' = [job EXCEPT !.phase = "decided", !.plan = plan, !.version = version]
    /\ UNCHANGED <<stage, version, rounds, eligible, votes, tasks, cast, handing>>

JobCommit ==
    /\ job.phase = "decided"
    /\ job.plan = "none" \/ version = job.version
    /\ votes' = votes \cup SilentVotes
    /\ Follow(job.plan, job.own)
    /\ job' = IdleJob
    /\ UNCHANGED <<eligible, cast, handing>>

\* The transaction fails, and with it this run of the job.
JobFail ==
    /\ \/ job.phase = "inserted" /\ job.seek = {} /\ JobPlans = {}
       \/ job.phase = "decided" /\ job.plan # "none" /\ version # job.version
    /\ job' = IdleJob
    /\ UNCHANGED <<stage, version, rounds, eligible, votes, tasks, cast, handing>>

JobCrash ==
    /\ job.phase # "idle"
    /\ job' = IdleJob
    /\ UNCHANGED <<stage, version, rounds, eligible, votes, tasks, cast, handing>>

(***************************************************************************)
(* delegateTask on a member approval task                                  *)
(***************************************************************************)
PutHanding(r) == handing' = r /\ UNCHANGED <<stage, version, rounds, eligible, votes, cast, job>>

\* The tasks that were created by handing one over.
Delegated == {t \in open \cup done \cup handed : t.hand > 0}

\* Whoever holds the task names an active member to take it; nothing asks for the type of
\* the task, the state of the case, or the clearance of that member.
DelegateRead(t, m) ==
    /\ handing.phase = "idle"
    /\ Cardinality(Delegated) < MaxDelegations
    /\ t \in open
    /\ t.holder \in Voters \cap eligible
    /\ m \in eligible \ {t.holder}
    /\ PutHanding([phase |-> "read", task |-> {t}, to |-> m])
    /\ UNCHANGED tasks

\* The lock of the case is taken and the task read again.
DelegateLock ==
    /\ handing.phase = "read" /\ handing.task \subseteq open
    /\ PutHanding([handing EXCEPT !.phase = "locked"])
    /\ UNCHANGED tasks

DelegateRefuse ==
    /\ handing.phase = "read" /\ ~(handing.task \subseteq open)
    /\ PutHanding(NotHanding)
    /\ UNCHANGED tasks

\* The rows that a transaction has completed and not yet committed: nobody else can update
\* them before it ends.
Completing == UNION ({cast[s].own : s \in {x \in Casts : cast[x].phase = "decided"}}
                       \cup (IF job.phase = "decided" THEN {job.own} ELSE {}))

\* Whatever the task has become since it was read is overwritten, COMPLETED by a vote too.
DelegateCommit ==
    /\ handing.phase = "locked"
    /\ \E t \in handing.task \ Completing :
          /\ open' = (open \ {t}) \cup {[t EXCEPT !.hand = @ + 1, !.holder = handing.to]}
          /\ done' = done \ {t}
          /\ handed' = handed \cup {t}
    /\ PutHanding(NotHanding)

DelegateCrash ==
    /\ handing.phase # "idle"
    /\ PutHanding(NotHanding)
    /\ UNCHANGED tasks

(***************************************************************************)
(* The rest of the world                                                   *)
(***************************************************************************)
\* The two commands of this stage sent to the transition endpoint, by a secretary
\* and by a member (module CaseWorkflow has their steps). They take the lock of the case.
SecretaryDraft ==
    /\ stage = "member_approval"
    /\ Unanimous(Active, votes)
    /\ handing.phase # "locked"
    /\ ToDraft({})
    /\ UNCHANGED <<eligible, votes, done, handed, cast, job, handing>>

ObjectionCommand ==
    /\ stage = "member_approval"
    /\ Active < MaxRounds
    /\ handing.phase # "locked"
    /\ NewRound({})
    /\ UNCHANGED <<eligible, votes, done, handed, cast, job, handing>>

\* Twenty-four hours pass since the round began.
Expire ==
    /\ stage = "member_approval" /\ ~rounds[Active]
    /\ rounds' = [rounds EXCEPT ![Active] = TRUE]
    /\ UNCHANGED <<stage, version, eligible, votes, tasks, cast, job, handing>>

\* An administrator deactivates a member.
Deactivate(m) ==
    /\ m \in eligible
    /\ Cardinality(Members \ eligible) < MaxLeavers
    /\ eligible' = eligible \ {m}
    /\ UNCHANGED <<stage, version, rounds, votes, tasks, cast, job, handing>>

Init ==
    /\ stage = "member_approval" /\ version = 0 /\ rounds = <<FALSE>>
    /\ eligible = Members
    /\ votes = {}
    /\ open = NewTasks(1) /\ done = {} /\ handed = {}
    /\ cast = [s \in Casts |-> IdleCast]
    /\ job = IdleJob
    /\ handing = NotHanding

CastWorks(s) == CastInsert(s) \/ CastRefuse(s) \/ CastDecide(s) \/ CastCommit(s)
                  \/ CastFail(s)
JobWorks == \/ JobRead \/ JobInsert \/ JobDecide \/ JobCommit \/ JobFail
            \/ \E m \in Members : JobFind(m)
Delegating == \/ \E t \in open, m \in Members : DelegateRead(t, m)
              \/ DelegateLock \/ DelegateRefuse \/ DelegateCommit \/ DelegateCrash

Next ==
    \/ \E s \in Casts : \/ \E m \in Members, type \in Explicit : CastRead(s, m, type)
                        \/ CastWorks(s) \/ CastCrash(s)
    \/ JobWorks \/ JobCollide \/ JobCrash
    \/ Delegating
    \/ SecretaryDraft \/ ObjectionCommand \/ Expire
    \/ \E m \in Members : Deactivate(m)

Spec == Init /\ [][Next]_vars

\* Requests are served, time passes, and the worker runs the job again and again.
\* SF: neither a request nor the job crashes every time it is at the same point,
\* and a wait on the unique index is granted in turn.
FairSpec ==
    /\ Spec
    /\ \A s \in Casts :
          /\ SF_vars(CastInsert(s)) /\ SF_vars(CastDecide(s)) /\ SF_vars(CastCommit(s))
          /\ WF_vars(CastRefuse(s) \/ CastFail(s))
    /\ SF_vars(JobRead) /\ SF_vars(JobInsert)
    /\ \A n \in 1..Cardinality(Members) :
          SF_vars(\E m \in Members : Cardinality(job.seek) = n /\ JobFind(m))
    /\ SF_vars(JobDecide) /\ SF_vars(JobCommit) /\ WF_vars(JobFail)
    /\ WF_vars(Expire)

(***************************************************************************)
(* Properties                                                              *)
(***************************************************************************)
\* A case reaches its decision draft only in a step after which every active
\* member has approved, or silently accepted, in the round that is then the last
\* one - not in an earlier round that an objection has overtaken
\* (decision.service.ts, advanceToDecisionDraftIfUnanimous).
DraftNeedsUnanimity ==
    [][stage' # stage =>
          /\ eligible # {}
          /\ \A m \in eligible : \E v \in votes' :
                v.voter = m /\ v.round = Active /\ v.type \in Accepting]_vars

\* A member's answer to a round and the silence assumed for them exclude each
\* other, however the request and the job overlap.
AnswerOrSilence ==
    \A v, w \in votes : v.round = w.round /\ v.voter = w.voter => v = w

\* Tasks of the round that were handed over to a member and are no longer pending.
TakenOver(m, r) == {t \in done \cup handed : t.round = r /\ t.holder = m /\ t.hand > 0}

\* A completed task stands for the vote of its holder in its round, and a vote completes
\* one task: although tasks change hands while votes are cast, nobody's task is completed
\* without their answer. A voter's own task stays pending only if the vote was counted on
\* another that had been handed over to them (completeMemberApprovalTask, delegateTask).
TasksFollowVotes ==
    /\ \A t \in done : HasVoted(t.holder, t.round, votes)
    /\ \A t, u \in done : t.round = u.round /\ t.holder = u.holder => t = u
    /\ \A t \in open : t.hand = 0 /\ HasVoted(t.holder, t.round, votes)
                          => TakenOver(t.holder, t.round) # {}

\* A recorded objection has reopened the approval: no rejected round is the last.
ObjectionReopens ==
    \A v \in votes : v.type = "REJECT" => v.round < Active

\* The vote keeps the promise of CouncilVote: what requests and the job do in several
\* steps, seeing less than each other's rows, comes to one step that sees them all, and
\* after the decision nothing reopens the approval (castVote, processCase).
Council == INSTANCE CouncilVote WITH
               round <- Active, seated <- eligible, ballots <- votes
ImplementsCouncil == Council!Spec

\* When objections end, the council decides: silence cannot block it, and neither
\* can two last approvals that did not see each other.
CouncilDecides == <>(stage = "decision_draft")

(***************************************************************************)
(* A claim of the documents that the code does not keep                    *)
(***************************************************************************)
\* Docs/01_DOMAIN_MODEL.md:538: when all members have approved, the case moves on
\* to the decision draft. The code keeps it only once the time is up. Checked when no
\* request and no job is at work.
ApprovedByAllMovesOn ==
    (\A s \in Casts : cast[s].phase = "idle") /\ job.phase = "idle"
        /\ stage = "member_approval"
    => ~Unanimous(Active, votes)

================================================================================
