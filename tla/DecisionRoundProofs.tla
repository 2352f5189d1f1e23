-------------------------- MODULE DecisionRoundProofs --------------------------
(***************************************************************************)
(* Theorems about the vote of the council, for every council, every number *)
(* of requests in flight, rounds and members that leave.                   *)
(*                                                                         *)
(* Nothing but the unique index and the version of the case stands between *)
(* the transactions. OneWriter says what the index is worth: no two of the *)
(* rows that are committed or being written are of one member and round.   *)
(* Counted says what the version is worth: who has found the round         *)
(* complete and still has the version of the case will find it complete.   *)
(***************************************************************************)
EXTENDS DecisionRound, SequenceTheorems, FiniteSetTheorems, TLAPS

(***************************************************************************)
(* Types                                                                   *)
(***************************************************************************)
\* What is in flight: the round of a request or of the job is one that has begun, and
\* the version it has read one that has been.
Flying ==
    /\ Active >= 1
    /\ \A s \in Casts : cast[s].phase # "idle" =>
          /\ cast[s].voter \in Members
          /\ cast[s].round \in 1..Active /\ cast[s].version <= version
          /\ cast[s].phase = "decided" => (cast[s].plan = "objection" <=> cast[s].type = "REJECT")
    /\ job.phase # "idle" =>
          /\ job.round \in 1..Active /\ job.version <= version
          /\ job.phase = "decided" => job.plan # "objection"
    /\ handing.phase # "idle" => handing.to \in Members

Typed == TypeOK /\ Flying

\* Rounds begin one after the other.
LEMMA RoundsType ==
    ASSUME TypeOK
    PROVE  /\ Active \in Nat
           /\ Append(rounds, FALSE) \in Seq(BOOLEAN) /\ Len(Append(rounds, FALSE)) = Active + 1
           /\ Active >= 1 => /\ [rounds EXCEPT ![Active] = TRUE] \in Seq(BOOLEAN)
                             /\ Len([rounds EXCEPT ![Active] = TRUE]) = Active
<1>1. rounds \in Seq(BOOLEAN) /\ Len(rounds) \in Nat
  BY LenProperties DEF TypeOK
<1>2. Append(rounds, FALSE) \in Seq(BOOLEAN) /\ Len(Append(rounds, FALSE)) = Len(rounds) + 1
  BY <1>1, AppendProperties
<1>3. ASSUME Len(rounds) >= 1
      PROVE  /\ [rounds EXCEPT ![Len(rounds)] = TRUE] \in Seq(BOOLEAN)
             /\ Len([rounds EXCEPT ![Len(rounds)] = TRUE]) = Len(rounds)
  BY <1>1, <1>3, ExceptSeq
<1>. QED
  BY <1>1, <1>2, <1>3 DEF Active

\* The tasks of a round.
LEMMA NewTasksTypes ==
    ASSUME TypeOK, NEW r \in Nat
    PROVE  /\ NewTasks(r) \subseteq Task
           /\ \A t \in NewTasks(r) : t.round = r /\ t.hand = 0 /\ t.holder = t.member
BY DEF NewTasks, Task, TypeOK

\* What a transition does to the case.
LEMMA FollowEffect ==
    ASSUME TypeOK, Active >= 1, NEW plan \in Plans, NEW own \in SUBSET Task,
           Follow(plan, own)
    PROVE  /\ stage' \in {"member_approval", "decision_draft"}
           /\ stage' # stage => plan = "draft"
           /\ plan = "draft" => stage' = "decision_draft"
           /\ version' = IF plan = "none" THEN version ELSE version + 1
           /\ rounds' \in Seq(BOOLEAN)
           /\ Active' = IF plan = "objection" THEN Active + 1 ELSE Active
           /\ open' = (open \ own) \cup (IF plan = "objection" THEN NewTasks(Active + 1) ELSE {})
           /\ done' = done \cup own /\ handed' = handed \ own
           /\ open' \subseteq Task /\ done' \subseteq Task /\ handed' \subseteq Task
<1>1. CASE plan = "draft"
  BY <1>1 DEF Follow, ToDraft, TypeOK, Active
<1>2. CASE plan = "objection"
  <2>1. NewRound(own) /\ done' = done \cup own /\ handed' = handed \ own
    BY <1>2 DEF Follow
  <2>2. rounds' \in Seq(BOOLEAN) /\ Active' = Active + 1 /\ Active \in Nat
    BY <2>1, RoundsType DEF NewRound, Active
  <2>3. NewTasks(Active + 1) \subseteq Task
    BY <2>2, NewTasksTypes
  <2>. QED
    BY <1>2, <2>1, <2>2, <2>3 DEF NewRound, TypeOK
<1>3. CASE plan = "none"
  BY <1>3 DEF Follow, Stay, TypeOK, Active
<1>. QED
  BY <1>1, <1>2, <1>3 DEF Plans

\* The task that a vote completes: one of those that its voter holds, if there is one.
LEMMA FoundOne ==
    ASSUME NEW m, NEW r, NEW own \in Found(m, r)
    PROVE  /\ own \subseteq open
           /\ \A t \in own : t.round = r /\ t.holder = m
           /\ \A t, u \in own : t = u
           /\ own = {} => \A t \in open : t.round = r => t.holder # m
BY DEF Found

\* A step that only puts a request forward.
LEMMA CastTypes ==
    ASSUME Typed, NEW s \in Casts,
           \/ \E m \in Members, type \in Explicit : CastRead(s, m, type)
           \/ CastInsert(s) \/ CastRefuse(s) \/ CastDecide(s) \/ CastFail(s) \/ CastCrash(s)
    PROVE  Typed'
<1>. DEFINE Casting == [phase : Phases, voter : Members \cup {Nobody}, type : Explicit,
                        round : Nat, version : Nat, plan : Plans, own : SUBSET Task]
<1>0. UNCHANGED <<stage, version, rounds, eligible, votes, tasks, job, handing>>
  BY DEF CastRead, CastInsert, CastRefuse, CastDecide, CastFail, CastCrash
<1>1. IdleCast \in Casting /\ IdleCast.phase = "idle"
  BY DEF IdleCast, Phases, Explicit, Plans
<1>2. PICK r \in Casting :
        /\ PutCast(s, r)
        /\ r.phase # "idle" => /\ r.voter \in Members
                               /\ r.round \in 1..Active /\ r.version <= version
                               /\ r.phase = "decided" => (r.plan = "objection" <=> r.type = "REJECT")
  <2>1. CASE \E m \in Members, type \in Explicit : CastRead(s, m, type)
    <3>1. PICK m \in Members, type \in Explicit : CastRead(s, m, type)
      BY <2>1
    <3>. DEFINE r == [IdleCast EXCEPT !.phase = "read", !.voter = m, !.type = type, !.round = Active]
    <3>2. r \in Casting /\ r.phase = "read" /\ r.voter = m /\ r.round = Active /\ r.version = 0
      BY RoundsType DEF Typed, IdleCast, Phases, Plans
    <3>3. PutCast(s, r)
      BY <3>1 DEF CastRead
    <3>4. Active >= 1 /\ Active \in Nat /\ version \in Nat
      BY RoundsType DEF Typed, Flying, TypeOK
    <3>. HIDE DEF r
    <3>. QED
      BY <3>2, <3>3, <3>4
  <2>2. CASE CastInsert(s)
    <3>1. PICK own \in Found(cast[s].voter, cast[s].round) :
            PutCast(s, [cast[s] EXCEPT !.phase = "inserted", !.version = version, !.own = own])
      BY <2>2 DEF CastInsert
    <3>. DEFINE r == [cast[s] EXCEPT !.phase = "inserted", !.version = version, !.own = own]
    <3>2. own \in SUBSET Task
      BY FoundOne DEF Typed, TypeOK
    <3>3. r \in Casting /\ r.phase = "inserted" /\ r.voter = cast[s].voter
          /\ r.round = cast[s].round /\ r.version = version
      BY <3>2 DEF Typed, TypeOK, Phases
    <3>4. PutCast(s, r) /\ cast[s].phase = "read" /\ version \in Nat
      BY <2>2, <3>1 DEF CastInsert, Typed, TypeOK
    <3>. HIDE DEF r
    <3>. QED
      BY <3>3, <3>4 DEF Typed, Flying
  <2>3. CASE CastDecide(s)
    <3>1. PICK plan \in CastPlans(s) :
            PutCast(s, [cast[s] EXCEPT !.phase = "decided", !.plan = plan, !.version = version])
      BY <2>3 DEF CastDecide
    <3>. DEFINE r == [cast[s] EXCEPT !.phase = "decided", !.plan = plan, !.version = version]
    <3>2. plan \in Plans /\ (plan = "objection" <=> cast[s].type = "REJECT")
      BY <3>1 DEF CastPlans, AdvancePlans, Plans
    <3>3. r \in Casting /\ r.phase = "decided" /\ r.voter = cast[s].voter /\ r.type = cast[s].type
          /\ r.round = cast[s].round /\ r.version = version /\ r.plan = plan
      BY <3>2 DEF Typed, TypeOK, Phases
    <3>4. PutCast(s, r) /\ cast[s].phase = "inserted" /\ version \in Nat
      BY <2>3, <3>1 DEF CastDecide, Typed, TypeOK
    <3>. HIDE DEF r
    <3>. QED
      BY <3>2, <3>3, <3>4 DEF Typed, Flying
  <2>4. CASE CastRefuse(s) \/ CastFail(s) \/ CastCrash(s)
    BY <1>1, <2>4 DEF CastRefuse, CastFail, CastCrash
  <2>. QED
    BY <2>1, <2>2, <2>3, <2>4
<1>3. cast' \in [Casts -> Casting] /\ cast'[s] = r /\ \A u \in Casts : u # s => cast'[u] = cast[u]
  BY <1>2 DEF PutCast, Typed, TypeOK
<1>. HIDE DEF Casting
<1>4. TypeOK'
  BY <1>0, <1>3 DEF Typed, TypeOK, Casting, Vote, tasks
<1>5. Active' = Active
  BY <1>0 DEF Active
<1>6. Flying'
  BY <1>0, <1>2, <1>3, <1>5 DEF Typed, Flying
<1>. QED
  BY <1>4, <1>6 DEF Typed

\* A step that only puts the job forward.
LEMMA JobTypes ==
    ASSUME Typed,
           \/ JobRead \/ JobInsert \/ JobCollide \/ JobDecide \/ JobFail \/ JobCrash
           \/ \E m \in Members : JobFind(m)
    PROVE  Typed'
<1>. DEFINE Working == [phase : Phases, round : Nat, silent : SUBSET Members, version : Nat,
                        plan : Plans, seek : SUBSET Members, own : SUBSET Task]
<1>0. UNCHANGED <<stage, version, rounds, eligible, votes, tasks, cast, handing>>
  BY DEF JobRead, JobInsert, JobCollide, JobFind, JobDecide, JobFail, JobCrash
<1>1. IdleJob \in Working /\ IdleJob.phase = "idle"
  BY DEF IdleJob, Phases, Plans
<1>2. /\ job' \in Working
      /\ job'.phase # "idle" => /\ job'.round \in 1..Active /\ job'.version <= version
                                /\ job'.phase = "decided" => job'.plan # "objection"
  <2>1. CASE JobRead
    <3>. DEFINE silent == {m \in eligible : ~HasVoted(m, Active, votes)}
    <3>1. job' = [IdleJob EXCEPT !.phase = "read", !.round = Active, !.silent = silent]
      BY <2>1 DEF JobRead
    <3>2. silent \in SUBSET Members /\ Active \in Nat /\ Active >= 1 /\ version \in Nat
      BY RoundsType DEF Typed, Flying, TypeOK
    <3>. HIDE DEF silent
    <3>3. job' \in Working /\ job'.phase = "read" /\ job'.round = Active /\ job'.version = 0
      BY <3>1, <3>2 DEF IdleJob, Phases, Plans
    <3>. QED
      BY <3>2, <3>3
  <2>2. CASE JobInsert
    <3>. DEFINE silent == {m \in job.silent : ~HasVoted(m, job.round, votes)}
    <3>1. job' = [job EXCEPT !.phase = "inserted", !.silent = silent, !.seek = silent]
          /\ job.phase = "read"
      BY <2>2 DEF JobInsert
    <3>2. silent \in SUBSET Members
      BY DEF Typed, TypeOK
    <3>. HIDE DEF silent
    <3>3. job' \in Working /\ job'.phase = "inserted" /\ job'.round = job.round
          /\ job'.version = job.version
      BY <3>1, <3>2 DEF Phases, Typed, TypeOK
    <3>. QED
      BY <3>1, <3>3 DEF Typed, Flying
  <2>3. CASE JobDecide
    <3>1. PICK plan \in JobPlans :
            job' = [job EXCEPT !.phase = "decided", !.plan = plan, !.version = version]
      BY <2>3 DEF JobDecide
    <3>2. plan \in {"none", "draft"} /\ job.phase = "inserted"
      BY <2>3 DEF JobDecide, JobPlans, AdvancePlans
    <3>3. job' \in Working /\ job'.phase = "decided" /\ job'.round = job.round
          /\ job'.version = version /\ job'.plan = plan /\ version \in Nat
      BY <3>1, <3>2 DEF Phases, Plans, Typed, TypeOK
    <3>. QED
      BY <3>2, <3>3 DEF Typed, Flying
  <2>4. CASE JobCollide \/ JobFail \/ JobCrash
    BY <1>1, <2>4 DEF JobCollide, JobFail, JobCrash
  <2>5. ASSUME NEW m \in Members, JobFind(m)
        PROVE  /\ job' \in Working /\ job'.phase = "inserted"
               /\ job'.round \in 1..Active /\ job'.version <= version
    <3>1. PICK own \in Found(m, job.round) :
            job' = [job EXCEPT !.seek = @ \ {m}, !.own = @ \cup own]
      BY <2>5 DEF JobFind
    <3>2. own \in SUBSET Task /\ job.phase = "inserted"
      <4>1. own \subseteq open
        BY <3>1, FoundOne
      <4>. QED
        BY <2>5, <4>1 DEF JobFind, Typed, TypeOK
    <3>3. job' \in Working /\ job'.phase = "inserted" /\ job'.round = job.round
          /\ job'.version = job.version
      BY <3>1, <3>2 DEF Typed, TypeOK
    <3>. QED
      BY <3>2, <3>3 DEF Typed, Flying
  <2>. QED
    BY <2>1, <2>2, <2>3, <2>4, <2>5
<1>3. TypeOK'
  BY <1>0, <1>2 DEF Typed, TypeOK, Vote, tasks
<1>4. Active' = Active
  BY <1>0 DEF Active
<1>. HIDE DEF Working
<1>5. Flying'
  BY <1>0, <1>2, <1>4 DEF Typed, Flying
<1>. QED
  BY <1>3, <1>5 DEF Typed

\* Whatever moves the case on leaves what is in flight behind.
LEMMA FlyingOn ==
    ASSUME Typed, Active' \in {Active, Active + 1}, version' \in Nat, version' >= version,
           \A s \in Casts : cast'[s] = cast[s] \/ cast'[s].phase = "idle",
           job' = job \/ job'.phase = "idle", handing' = handing
    PROVE  Flying'
<1>1. Active \in Nat /\ version \in Nat
  BY RoundsType DEF Typed, TypeOK
<1>2. \A s \in Casts : cast[s].version \in Nat /\ cast[s].round \in Nat
  BY DEF Typed, TypeOK
<1>3. job.version \in Nat /\ job.round \in Nat
  BY DEF Typed, TypeOK
<1>. QED
  BY <1>1, <1>2, <1>3 DEF Typed, Flying

\* The commit of a request, with the vote it records.
LEMMA CastCommitEffect ==
    ASSUME Typed, NEW s \in Casts, CastCommit(s)
    PROVE  /\ Typed'
           /\ MyVote(s) \in Vote /\ MyVote(s).voter = cast[s].voter /\ MyVote(s).round = cast[s].round
           /\ MyVote(s).type = cast[s].type
           /\ votes' = votes \cup {MyVote(s)}
           /\ Follow(cast[s].plan, cast[s].own)
           /\ cast[s].own \in SUBSET Task
           /\ cast[s].plan \in Plans /\ cast[s].round \in 1..Active
           /\ cast'[s].phase = "idle" /\ \A u \in Casts : u # s => cast'[u] = cast[u]
<1>1. cast[s].phase = "decided" /\ UNCHANGED <<eligible, job, handing>> /\ votes' = votes \cup {MyVote(s)}
      /\ Follow(cast[s].plan, cast[s].own) /\ PutCast(s, IdleCast)
  BY DEF CastCommit
<1>2. /\ cast[s].voter \in Members /\ cast[s].round \in 1..Active /\ cast[s].type \in Explicit
      /\ cast[s].round \in Nat /\ cast[s].plan \in Plans
  BY <1>1 DEF Typed, Flying, TypeOK
<1>3. MyVote(s) \in Vote /\ MyVote(s).voter = cast[s].voter /\ MyVote(s).round = cast[s].round
      /\ MyVote(s).type = cast[s].type
  BY <1>2 DEF MyVote, Vote
<1>4. cast[s].own \in SUBSET Task
  BY DEF Typed, TypeOK
<1>5. /\ stage' \in {"member_approval", "decision_draft"}
      /\ version' \in Nat /\ version' >= version
      /\ rounds' \in Seq(BOOLEAN) /\ Active' \in {Active, Active + 1}
      /\ open' \subseteq Task /\ done' \subseteq Task /\ handed' \subseteq Task
  <2>. DEFINE own == cast[s].own
  <2>1. own \in SUBSET Task /\ Follow(cast[s].plan, own)
    BY <1>1, <1>4
  <2>2. TypeOK /\ Active >= 1 /\ version \in Nat
    BY DEF Typed, Flying, TypeOK
  <2>. HIDE DEF own
  <2>. QED
    BY <1>2, <2>1, <2>2, FollowEffect
<1>6. /\ cast' \in [Casts -> [phase : Phases, voter : Members \cup {Nobody}, type : Explicit,
                              round : Nat, version : Nat, plan : Plans, own : SUBSET Task]]
      /\ cast'[s].phase = "idle" /\ \A u \in Casts : u # s => cast'[u] = cast[u]
  BY <1>1 DEF PutCast, IdleCast, Phases, Explicit, Plans, Typed, TypeOK
<1>7. TypeOK'
  BY <1>1, <1>3, <1>5, <1>6 DEF Typed, TypeOK, Vote
<1>8. Flying'
  BY <1>1, <1>5, <1>6, FlyingOn
<1>. QED
  BY <1>1, <1>2, <1>3, <1>4, <1>6, <1>7, <1>8 DEF Typed

\* The commit of the job, with the votes it records.
LEMMA JobCommitEffect ==
    ASSUME Typed, JobCommit
    PROVE  /\ Typed'
           /\ SilentVotes \subseteq Vote
           /\ \A v \in SilentVotes : v.voter \in job.silent /\ v.round = job.round
                                     /\ v.type = "SILENT_ACCEPTANCE"
           /\ votes' = votes \cup SilentVotes
           /\ Follow(job.plan, job.own)
           /\ job.own \in SUBSET Task
           /\ job.plan \in {"none", "draft"} /\ job.plan \in Plans /\ job.round \in 1..Active
           /\ job'.phase = "idle" /\ cast' = cast
<1>1. job.phase = "decided" /\ UNCHANGED <<eligible, cast, handing>> /\ votes' = votes \cup SilentVotes
      /\ Follow(job.plan, job.own) /\ job' = IdleJob
  BY DEF JobCommit
<1>2. /\ job.silent \in SUBSET Members /\ job.round \in 1..Active /\ job.round \in Nat
      /\ job.plan \in Plans /\ job.plan \in {"none", "draft"}
  BY <1>1 DEF Typed, Flying, TypeOK, Plans
<1>3. SilentVotes \subseteq Vote /\ \A v \in SilentVotes : v.voter \in job.silent /\ v.round = job.round
                                        /\ v.type = "SILENT_ACCEPTANCE"
  BY <1>2 DEF SilentVotes, Vote
<1>4. job.own \in SUBSET Task
  BY DEF Typed, TypeOK
<1>5. /\ stage' \in {"member_approval", "decision_draft"}
      /\ version' \in Nat /\ version' >= version
      /\ rounds' \in Seq(BOOLEAN) /\ Active' \in {Active, Active + 1}
      /\ open' \subseteq Task /\ done' \subseteq Task /\ handed' \subseteq Task
  <2>. DEFINE own == job.own
  <2>1. own \in SUBSET Task /\ Follow(job.plan, own)
    BY <1>1, <1>4
  <2>2. TypeOK /\ Active >= 1 /\ version \in Nat
    BY DEF Typed, Flying, TypeOK
  <2>. HIDE DEF own
  <2>. QED
    BY <1>2, <2>1, <2>2, FollowEffect
<1>6. job' \in [phase : Phases, round : Nat, silent : SUBSET Members, version : Nat,
                plan : Plans, seek : SUBSET Members, own : SUBSET Task]
      /\ job'.phase = "idle"
  BY <1>1 DEF IdleJob, Phases, Plans
<1>7. TypeOK'
  BY <1>1, <1>3, <1>5, <1>6 DEF Typed, TypeOK, Vote
<1>8. Flying'
  BY <1>1, <1>5, <1>6, FlyingOn
<1>. QED
  BY <1>1, <1>2, <1>3, <1>4, <1>6, <1>7, <1>8 DEF Typed

\* The commands, the clock and the administrator.
LEMMA WorldTypes ==
    ASSUME Typed, SecretaryDraft \/ ObjectionCommand \/ Expire \/ \E m \in Members : Deactivate(m)
    PROVE  Typed'
<1>. USE DEF Typed
<1>1. CASE SecretaryDraft
  <2>1. TypeOK' /\ version' = version + 1 /\ Active' = Active /\ UNCHANGED <<cast, job, handing>>
    BY <1>1 DEF SecretaryDraft, ToDraft, TypeOK, Active, Vote
  <2>. QED
    BY <2>1, FlyingOn DEF TypeOK
<1>2. CASE ObjectionCommand
  <2>1. /\ version' = version + 1 /\ UNCHANGED <<stage, eligible, votes, done, handed, cast, job, handing>>
        /\ rounds' \in Seq(BOOLEAN) /\ Active' = Active + 1 /\ Active \in Nat
        /\ open' = (open \ {}) \cup NewTasks(Active + 1)
    BY <1>2, RoundsType DEF ObjectionCommand, NewRound, Active
  <2>2. NewTasks(Active + 1) \subseteq Task
    BY <2>1, NewTasksTypes
  <2>3. TypeOK'
    BY <2>1, <2>2 DEF TypeOK, Vote
  <2>. QED
    BY <2>1, <2>3, FlyingOn DEF TypeOK
<1>3. CASE Expire
  <2>1. /\ UNCHANGED <<stage, version, eligible, votes, tasks, cast, job, handing>>
        /\ rounds' \in Seq(BOOLEAN) /\ Active' = Active
    BY <1>3, RoundsType DEF Expire, Active, Flying
  <2>2. TypeOK'
    BY <2>1 DEF TypeOK, Vote, tasks
  <2>. QED
    BY <2>1, <2>2, FlyingOn DEF TypeOK
<1>4. ASSUME NEW m \in Members, Deactivate(m)
      PROVE  Typed'
  <2>1. TypeOK' /\ Active' = Active /\ UNCHANGED <<version, cast, job, handing>>
    BY <1>4 DEF Deactivate, TypeOK, Active, Vote, tasks
  <2>. QED
    BY <2>1, FlyingOn DEF TypeOK
<1>. QED
  BY <1>1, <1>2, <1>3, <1>4

\* A task that is handed over leaves the rest as it is.
LEMMA DelegatingLeaves ==
    ASSUME Delegating
    PROVE  UNCHANGED <<stage, version, rounds, eligible, votes, cast, job>>
BY DEF Delegating, DelegateRead, DelegateLock, DelegateRefuse, DelegateCommit, DelegateCrash, PutHanding

\* The task that is created for the member it goes to.
LEMMA HandedType ==
    ASSUME NEW t \in Task, NEW m \in Members
    PROVE  /\ [t EXCEPT !.hand = @ + 1, !.holder = m] \in Task
           /\ [t EXCEPT !.hand = @ + 1, !.holder = m].hand # 0
<1>1. t.hand \in Nat /\ t.hand + 1 \in Nat /\ t.hand + 1 # 0
  BY DEF Task
<1>. DEFINE n == t.hand + 1
<1>2. [t EXCEPT !.hand = n, !.holder = m] \in Task
  BY <1>1 DEF Task
<1>3. [t EXCEPT !.hand = n, !.holder = m].hand = n
  BY <1>1 DEF Task
<1>. QED
  BY <1>1, <1>2, <1>3

LEMMA DelegateTypes ==
    ASSUME Typed, Delegating
    PROVE  Typed'
<1>. DEFINE Handing == [phase : {"idle", "read", "locked"}, task : SUBSET Task,
                        to : Members \cup {Nobody}]
<1>0. UNCHANGED <<stage, version, rounds, eligible, votes, cast, job>>
  BY DelegatingLeaves
<1>1. NotHanding \in Handing /\ NotHanding.phase = "idle"
  BY DEF NotHanding
<1>2. handing \in Handing /\ open \subseteq Task /\ done \subseteq Task /\ handed \subseteq Task
      /\ eligible \subseteq Members /\ (handing.phase # "idle" => handing.to \in Members)
  BY DEF Typed, TypeOK, Flying
<1>3. /\ handing' \in Handing
      /\ handing'.phase # "idle" => handing'.to \in Members
      /\ open' \subseteq Task /\ done' \subseteq Task /\ handed' \subseteq Task
  <2>1. ASSUME NEW t \in open, NEW m \in Members, DelegateRead(t, m)
        PROVE  handing' \in Handing /\ handing'.to \in Members /\ UNCHANGED tasks
    BY <1>2, <2>1 DEF DelegateRead, PutHanding
  <2>2. ASSUME DelegateLock
        PROVE  handing' \in Handing /\ handing'.to \in Members /\ UNCHANGED tasks
    BY <1>2, <2>2 DEF DelegateLock, PutHanding
  <2>3. ASSUME DelegateRefuse \/ DelegateCrash
        PROVE  handing' = NotHanding /\ UNCHANGED tasks
    BY <2>3 DEF DelegateRefuse, DelegateCrash, PutHanding
  <2>4. ASSUME DelegateCommit
        PROVE  /\ handing' = NotHanding
               /\ open' \subseteq Task /\ done' \subseteq Task /\ handed' \subseteq Task
    <3>1. PICK t \in handing.task \ Completing :
            /\ open' = (open \ {t}) \cup {[t EXCEPT !.hand = @ + 1, !.holder = handing.to]}
            /\ done' = done \ {t}
            /\ handed' = handed \cup {t}
      BY <2>4 DEF DelegateCommit
    <3>2. t \in Task /\ handing.to \in Members
      BY <1>2, <2>4 DEF DelegateCommit
    <3>3. [t EXCEPT !.hand = @ + 1, !.holder = handing.to] \in Task
      BY <3>2, HandedType
    <3>. QED
      BY <1>2, <2>4, <3>1, <3>2, <3>3 DEF DelegateCommit, PutHanding
  <2>. QED
    BY <1>1, <1>2, <2>1, <2>2, <2>3, <2>4 DEF Delegating, tasks
<1>4. TypeOK'
  BY <1>0, <1>3 DEF Typed, TypeOK, Vote
<1>5. Flying'
  BY <1>0, <1>3 DEF Typed, Flying, Active
<1>. QED
  BY <1>4, <1>5 DEF Typed

\* Every step.
LEMMA TypedStep ==
    ASSUME Typed, [Next]_vars
    PROVE  Typed'
<1>1. CASE UNCHANGED vars
  BY <1>1 DEF vars, tasks, Typed, TypeOK, Flying, Active, Vote
<1>. QED
  BY <1>1, CastTypes, JobTypes, CastCommitEffect, JobCommitEffect, DelegateTypes, WorldTypes
     DEF Next, CastWorks, JobWorks

\* The rows of a vote, the case and what is in flight have their types.
THEOREM RoundTypes == Spec => [](TypeOK /\ Flying)
<1>1. Init => TypeOK
  BY DEF Init, TypeOK, NewTasks, Task, IdleCast, IdleJob, NotHanding, Phases, Explicit, Plans
<1>2. Init => Flying
  BY DEF Init, Flying, Active, IdleCast, IdleJob, NotHanding
<1>3. Typed /\ [Next]_vars => Typed'
  BY TypedStep
<1>4. Typed <=> (TypeOK /\ Flying)
  BY DEF Typed
<1>. QED
  BY <1>1, <1>2, <1>3, <1>4, PTL DEF Spec

(***************************************************************************)
(* One row of a member and a round                                         *)
(***************************************************************************)
\* No two rows, committed or being written, are of one member and round, nor are those
\* of two requests, or of a request and the job.
OneWriter ==
    /\ AnswerOrSilence
    /\ \A s \in Casts : Writing(cast[s].phase) =>
          /\ ~HasVoted(cast[s].voter, cast[s].round, votes)
          /\ \A u \in Casts \ {s} : Writing(cast[u].phase) =>
                cast[u].voter # cast[s].voter \/ cast[u].round # cast[s].round
          /\ Writing(job.phase) => cast[s].voter \notin job.silent \/ cast[s].round # job.round
    /\ Writing(job.phase) => \A m \in job.silent : ~HasVoted(m, job.round, votes)

\* Who writes is not idle.
LEMMA WritingIsAtWork == ASSUME NEW phase, Writing(phase)
                         PROVE  phase # "idle" /\ phase # "read" /\ phase \in {"inserted", "decided"}
BY DEF Writing

\* A step that stops writers, or puts one forward, and leaves the votes alone.
LEMMA OneWriterStays ==
    ASSUME OneWriter, votes' = votes,
           \A s \in Casts : Writing(cast'[s].phase) =>
              /\ Writing(cast[s].phase)
              /\ cast'[s].voter = cast[s].voter /\ cast'[s].round = cast[s].round,
           Writing(job'.phase) => /\ Writing(job.phase)
                                  /\ job'.round = job.round /\ job'.silent = job.silent
    PROVE  OneWriter'
BY DEF OneWriter, AnswerOrSilence, HasVoted

\* The member's insert.
LEMMA OneWriterCastInsert ==
    ASSUME Typed, OneWriter, NEW s \in Casts, CastInsert(s)
    PROVE  OneWriter'
<1>1. ~HasVoted(cast[s].voter, cast[s].round, votes \cup Uncommitted) /\ votes' = votes /\ job' = job
  BY DEF CastInsert
<1>2. /\ cast'[s].voter = cast[s].voter /\ cast'[s].round = cast[s].round
      /\ \A u \in Casts : u # s => cast'[u] = cast[u]
  BY DEF CastInsert, PutCast, Typed, TypeOK
<1>3. ASSUME NEW u \in Casts \ {s}, Writing(cast[u].phase)
      PROVE  cast[u].voter # cast[s].voter \/ cast[u].round # cast[s].round
  <2>1. MyVote(u) \in Uncommitted
    BY <1>3 DEF Uncommitted
  <2>. QED
    BY <1>1, <2>1 DEF HasVoted, MyVote
<1>4. ASSUME Writing(job.phase)
      PROVE  cast[s].voter \notin job.silent \/ cast[s].round # job.round
  <2>1. SUFFICES ASSUME cast[s].voter \in job.silent, cast[s].round = job.round
                 PROVE  FALSE
    OBVIOUS
  <2>2. [round |-> job.round, voter |-> cast[s].voter, type |-> "SILENT_ACCEPTANCE"] \in Uncommitted
    BY <1>4, <2>1 DEF Uncommitted, SilentVotes
  <2>. QED
    BY <1>1, <2>1, <2>2 DEF HasVoted
<1>5. ~HasVoted(cast[s].voter, cast[s].round, votes)
  BY <1>1 DEF HasVoted
<1>. QED
  BY <1>1, <1>2, <1>3, <1>4, <1>5 DEF OneWriter, AnswerOrSilence, HasVoted

\* The job's insert.
LEMMA OneWriterJobInsert ==
    ASSUME Typed, OneWriter, JobInsert
    PROVE  OneWriter'
<1>1. /\ \A m \in job.silent : ~HasVoted(m, job.round, Uncommitted)
      /\ votes' = votes /\ cast' = cast
      /\ job'.round = job.round
      /\ job'.silent = {m \in job.silent : ~HasVoted(m, job.round, votes)}
  BY DEF JobInsert, Typed, TypeOK
<1>2. ASSUME NEW s \in Casts, Writing(cast[s].phase)
      PROVE  cast[s].voter \notin job'.silent \/ cast[s].round # job'.round
  <2>1. MyVote(s) \in Uncommitted
    BY <1>2 DEF Uncommitted
  <2>. QED
    BY <1>1, <2>1 DEF HasVoted, MyVote
<1>. QED
  BY <1>1, <1>2 DEF OneWriter, AnswerOrSilence, HasVoted

\* The commits.
LEMMA OneWriterCommits ==
    ASSUME Typed, OneWriter, (\E s \in Casts : CastCommit(s)) \/ JobCommit
    PROVE  OneWriter'
<1>1. ASSUME NEW s \in Casts, CastCommit(s)
      PROVE  OneWriter'
  <2>1. /\ MyVote(s).voter = cast[s].voter /\ MyVote(s).round = cast[s].round
        /\ votes' = votes \cup {MyVote(s)}
        /\ cast'[s].phase = "idle" /\ \A u \in Casts : u # s => cast'[u] = cast[u]
    BY <1>1, CastCommitEffect
  <2>2. Writing(cast[s].phase) /\ job' = job /\ ~Writing(cast'[s].phase)
    BY <1>1, <2>1 DEF CastCommit, Writing
  <2>3. /\ ~HasVoted(cast[s].voter, cast[s].round, votes)
        /\ \A u \in Casts \ {s} : Writing(cast[u].phase) =>
              cast[u].voter # cast[s].voter \/ cast[u].round # cast[s].round
        /\ Writing(job.phase) => cast[s].voter \notin job.silent \/ cast[s].round # job.round
    BY <2>2 DEF OneWriter
  <2>4. \A v, w \in votes' : v.round = w.round /\ v.voter = w.voter => v = w
    BY <2>1, <2>3 DEF OneWriter, AnswerOrSilence, HasVoted
  <2>5. \A m, r : HasVoted(m, r, votes') =>
           HasVoted(m, r, votes) \/ (m = cast[s].voter /\ r = cast[s].round)
    BY <2>1 DEF HasVoted
  <2>6. \A u \in Casts : Writing(cast'[u].phase) => u # s /\ cast'[u] = cast[u]
    BY <2>1, <2>2
  <2>. QED
    BY <2>2, <2>3, <2>4, <2>5, <2>6 DEF OneWriter, AnswerOrSilence
<1>2. CASE JobCommit
  <2>1. /\ \A v \in SilentVotes : v.voter \in job.silent /\ v.round = job.round
                                  /\ v.type = "SILENT_ACCEPTANCE"
        /\ SilentVotes \subseteq Vote
        /\ votes' = votes \cup SilentVotes
        /\ job'.phase = "idle" /\ cast' = cast
    BY <1>2, JobCommitEffect
  <2>2. Writing(job.phase) /\ ~Writing(job'.phase)
    BY <1>2, <2>1 DEF JobCommit, Writing
  <2>3. /\ \A m \in job.silent : ~HasVoted(m, job.round, votes)
        /\ \A s \in Casts : Writing(cast[s].phase) =>
              cast[s].voter \notin job.silent \/ cast[s].round # job.round
    BY <2>2 DEF OneWriter
  <2>4. ASSUME NEW v \in votes', NEW w \in votes', v.round = w.round, v.voter = w.voter
        PROVE  v = w
    <3>1. CASE v \in votes /\ w \in votes
      BY <2>4, <3>1 DEF OneWriter, AnswerOrSilence
    <3>2. CASE v \in SilentVotes /\ w \in SilentVotes
      BY <2>1, <2>4, <3>2 DEF Vote
    <3>3. CASE v \in SilentVotes /\ w \in votes
      BY <2>1, <2>3, <2>4, <3>3 DEF HasVoted
    <3>4. CASE v \in votes /\ w \in SilentVotes
      BY <2>1, <2>3, <2>4, <3>4 DEF HasVoted
    <3>. QED
      BY <2>1, <3>1, <3>2, <3>3, <3>4
  <2>5. \A m, r : HasVoted(m, r, votes') =>
           HasVoted(m, r, votes) \/ (m \in job.silent /\ r = job.round)
    BY <2>1 DEF HasVoted
  <2>. QED
    BY <2>1, <2>2, <2>3, <2>4, <2>5 DEF OneWriter, AnswerOrSilence
<1>. QED
  BY <1>1, <1>2

\* Every step.
LEMMA OneWriterStep ==
    ASSUME Typed, OneWriter, [Next]_vars
    PROVE  OneWriter'
<1>1. CASE UNCHANGED vars
  BY <1>1, OneWriterStays DEF vars
<1>2. ASSUME NEW s \in Casts,
             \/ \E m \in Members, type \in Explicit : CastRead(s, m, type)
             \/ CastRefuse(s) \/ CastFail(s) \/ CastCrash(s)
      PROVE  OneWriter'
  <2>1. /\ cast'[s].phase \in {"idle", "read"} /\ \A u \in Casts : u # s => cast'[u] = cast[u]
        /\ votes' = votes /\ job' = job
    <3>1. \E r : r.phase \in {"idle", "read"} /\ PutCast(s, r)
      <4>1. CASE \E m \in Members, type \in Explicit : CastRead(s, m, type)
        <5>1. PICK m \in Members, type \in Explicit : CastRead(s, m, type)
          BY <4>1
        <5>. DEFINE r == [IdleCast EXCEPT !.phase = "read", !.voter = m, !.type = type,
                                          !.round = Active]
        <5>2. PutCast(s, r)
          BY <5>1 DEF CastRead
        <5>3. r.phase = "read"
          BY DEF IdleCast
        <5>. HIDE DEF r
        <5>. QED
          BY <5>2, <5>3
      <4>2. CASE CastRefuse(s) \/ CastFail(s) \/ CastCrash(s)
        BY <4>2 DEF CastRefuse, CastFail, CastCrash, IdleCast
      <4>. QED
        BY <1>2, <4>1, <4>2
    <3>2. votes' = votes /\ job' = job
      BY <1>2 DEF CastRead, CastRefuse, CastFail, CastCrash
    <3>. QED
      BY <3>1, <3>2 DEF PutCast, Typed, TypeOK
  <2>. QED
    BY <2>1, OneWriterStays, WritingIsAtWork
<1>3. ASSUME NEW s \in Casts, CastDecide(s)
      PROVE  OneWriter'
  <2>1. /\ cast[s].phase = "inserted" /\ cast'[s].voter = cast[s].voter /\ cast'[s].round = cast[s].round
        /\ \A u \in Casts : u # s => cast'[u] = cast[u]
        /\ votes' = votes /\ job' = job
    BY <1>3 DEF CastDecide, PutCast, Typed, TypeOK
  <2>2. Writing(cast[s].phase)
    BY <2>1 DEF Writing
  <2>. QED
    BY <2>1, <2>2, OneWriterStays
<1>4. CASE JobRead \/ JobCollide \/ JobFail \/ JobCrash
  <2>1. job'.phase \in {"idle", "read"} /\ votes' = votes /\ cast' = cast
    <3>1. CASE JobRead
      BY <3>1 DEF JobRead, IdleJob
    <3>2. CASE JobCollide \/ JobFail \/ JobCrash
      BY <3>2 DEF JobCollide, JobFail, JobCrash, IdleJob
    <3>. QED
      BY <1>4, <3>1, <3>2
  <2>. QED
    BY <2>1, OneWriterStays, WritingIsAtWork
<1>5. CASE JobDecide \/ \E m \in Members : JobFind(m)
  <2>1. job.phase = "inserted" /\ job'.round = job.round /\ job'.silent = job.silent
        /\ votes' = votes /\ cast' = cast
    BY <1>5 DEF JobDecide, JobFind, Typed, TypeOK
  <2>2. Writing(job.phase)
    BY <2>1 DEF Writing
  <2>. QED
    BY <2>1, <2>2, OneWriterStays
<1>6. CASE SecretaryDraft \/ ObjectionCommand \/ Expire \/ \E m \in Members : Deactivate(m)
  BY <1>6, OneWriterStays DEF SecretaryDraft, ObjectionCommand, Expire, Deactivate
<1>7. CASE Delegating
  BY <1>7, DelegatingLeaves, OneWriterStays
<1>. QED
  BY <1>1, <1>2, <1>3, <1>4, <1>5, <1>6, <1>7, OneWriterCastInsert, OneWriterJobInsert, OneWriterCommits
     DEF Next, CastWorks, JobWorks

\* A member's answer to a round and the silence assumed for them exclude each other,
\* however requests and the job overlap (castVote, createSilentAcceptanceVote).
THEOREM OneVoteAMember == Spec => []AnswerOrSilence
<1>1. Init => OneWriter
  BY DEF Init, OneWriter, AnswerOrSilence, IdleCast, IdleJob, Writing
<1>2. Typed /\ OneWriter /\ [Next]_vars => OneWriter'
  BY OneWriterStep
<1>3. OneWriter => AnswerOrSilence
  BY DEF OneWriter
<1>4. Typed <=> (TypeOK /\ Flying)
  BY DEF Typed
<1>. QED
  BY <1>1, <1>2, <1>3, <1>4, RoundTypes, PTL DEF Spec

(***************************************************************************)
(* Votes and rounds                                                        *)
(***************************************************************************)
\* Votes are of rounds that have begun, objections of rounds that are over.
Dated == \A v \in votes : v.round <= Active /\ (v.type = "REJECT" => v.round < Active)

\* A step that records no vote.
LEMMA DatedStays ==
    ASSUME Typed, Dated, votes' = votes, Active' \in {Active, Active + 1}
    PROVE  Dated'
<1>1. Active \in Nat /\ \A v \in votes : v.round \in Nat
  BY RoundsType DEF Typed, TypeOK, Vote
<1>. QED
  BY <1>1 DEF Dated

\* A transaction that records votes.
LEMMA DatedRecords ==
    ASSUME Typed, Dated, NEW plan \in Plans, NEW own \in SUBSET Task, Follow(plan, own),
           NEW rows \in SUBSET Vote, votes' = votes \cup rows,
           \A v \in rows : v.round <= Active /\ (v.type = "REJECT" => plan = "objection")
    PROVE  Dated'
<1>1. Active' = IF plan = "objection" THEN Active + 1 ELSE Active
  <2>1. TypeOK /\ Active >= 1
    BY DEF Typed, Flying
  <2>. QED
    BY <2>1, FollowEffect
<1>2. Active \in Nat /\ \A v \in votes \cup rows : v.round \in Nat
  BY RoundsType DEF Typed, TypeOK, Vote
<1>3. ASSUME NEW v \in votes
      PROVE  v.round <= Active' /\ (v.type = "REJECT" => v.round < Active')
  BY <1>1, <1>2, <1>3 DEF Dated
<1>4. ASSUME NEW v \in rows
      PROVE  v.round <= Active' /\ (v.type = "REJECT" => v.round < Active')
  <2>1. v.round <= Active /\ v.round \in Nat /\ (v.type = "REJECT" => plan = "objection")
    BY <1>2
  <2>. QED
    BY <1>1, <1>2, <2>1
<1>. QED
  BY <1>3, <1>4 DEF Dated

\* Every step.
LEMMA DatedStep ==
    ASSUME Typed, Dated, [Next]_vars
    PROVE  Dated'
<1>1. ASSUME NEW s \in Casts, CastCommit(s)
      PROVE  Dated'
  <2>. DEFINE rows == {MyVote(s)}
              own == cast[s].own
  <2>1. /\ MyVote(s) \in Vote /\ MyVote(s).round = cast[s].round /\ MyVote(s).type = cast[s].type
        /\ votes' = votes \cup rows /\ Follow(cast[s].plan, own) /\ own \in SUBSET Task
        /\ cast[s].plan \in Plans /\ cast[s].round \in 1..Active
    BY <1>1, CastCommitEffect
  <2>2. cast[s].type = "REJECT" => cast[s].plan = "objection"
    BY <1>1 DEF CastCommit, Typed, Flying
  <2>3. \A v \in rows : v.round <= Active /\ (v.type = "REJECT" => cast[s].plan = "objection")
    BY <2>1, <2>2
  <2>4. rows \in SUBSET Vote
    BY <2>1
  <2>. HIDE DEF rows, own
  <2>. QED
    BY <2>1, <2>3, <2>4, DatedRecords
<1>2. CASE JobCommit
  BY <1>2, JobCommitEffect, DatedRecords
<1>3. CASE ObjectionCommand
  BY <1>3, RoundsType, DatedStays DEF ObjectionCommand, NewRound, Active, Typed
<1>4. CASE Expire
  BY <1>4, RoundsType, DatedStays DEF Expire, Active, Typed, Flying
<1>5. CASE Delegating
  BY <1>5, DelegatingLeaves, DatedStays DEF Active
<1>6. CASE \/ UNCHANGED vars
           \/ \E s \in Casts : \/ \E m \in Members, type \in Explicit : CastRead(s, m, type)
                               \/ CastInsert(s) \/ CastRefuse(s) \/ CastDecide(s)
                               \/ CastFail(s) \/ CastCrash(s)
           \/ JobRead \/ JobInsert \/ JobDecide \/ JobFail \/ JobCollide \/ JobCrash
           \/ SecretaryDraft
           \/ \E m \in Members : JobFind(m) \/ Deactivate(m)
  <2>1. UNCHANGED <<votes, rounds>>
    BY <1>6 DEF CastRead, CastInsert, CastRefuse, CastDecide, CastFail, CastCrash, JobRead, JobInsert,
       JobFind, JobDecide, JobFail, JobCollide, JobCrash, SecretaryDraft, ToDraft, Deactivate, vars
  <2>. QED
    BY <2>1, DatedStays DEF Active
<1>. QED
  BY <1>1, <1>2, <1>3, <1>4, <1>5, <1>6 DEF Next, CastWorks, JobWorks

(***************************************************************************)
(* Votes and tasks                                                         *)
(***************************************************************************)
\* A task that was not handed over is held by the member it was created for: there is one
\* for a member and a round.
Rooted(t) == t.hand = 0 => t.holder = t.member

\* What a transaction that writes the vote of m in round r completes: nothing but one task
\* that m holds, and that if the one created for m is pending.
Claims(m, r, own, pending) ==
    /\ \A t \in own : t.holder = m /\ t.round = r /\ Rooted(t)
    /\ \A t, u \in own : t = u
    /\ own = {} => \A t \in pending : t.hand = 0 /\ t.round = r => t.holder # m

\* The tasks that the job completes for m.
JobOwn(m) == {t \in job.own : t.holder = m}

\* Every vote that is being written has looked for its task, except those of the members
\* that the job has yet to look for.
Claimed ==
    /\ \A s \in Casts : Writing(cast[s].phase) =>
          Claims(cast[s].voter, cast[s].round, cast[s].own, open)
    /\ job.phase = "read" => job.own = {}
    /\ Writing(job.phase) =>
          /\ job.seek \subseteq job.silent
          /\ job.phase = "decided" => job.seek = {}
          /\ \A t \in job.own : t.holder \in job.silent \ job.seek
          /\ \A m \in job.silent \ job.seek : Claims(m, job.round, JobOwn(m), open)

\* The committed votes and the tasks.
Filed ==
    /\ TasksFollowVotes
    /\ \A t \in open : Rooted(t)

\* No step adds a task that was not handed over to a round that has begun.
LEMMA OpenStep ==
    ASSUME Typed, [Next]_vars
    PROVE  \A t \in open' : t.hand = 0 /\ t.round \in 1..Active => t \in open
<1>1. Active \in Nat /\ TypeOK /\ Active >= 1
  BY RoundsType DEF Typed, Flying
<1>2. \A t \in NewTasks(Active + 1) : t.round = Active + 1
  BY <1>1, NewTasksTypes
<1>3. ASSUME NEW plan \in Plans, NEW own \in SUBSET Task, Follow(plan, own)
      PROVE  \A t \in open' : t.round \in 1..Active => t \in open
  <2>1. open' \subseteq open \cup NewTasks(Active + 1)
    BY <1>1, <1>3, FollowEffect
  <2>. QED
    BY <1>1, <1>2, <2>1
<1>4. ASSUME NEW s \in Casts, CastCommit(s)
      PROVE  \A t \in open' : t.round \in 1..Active => t \in open
  BY <1>3, <1>4, CastCommitEffect
<1>5. CASE JobCommit
  BY <1>3, <1>5, JobCommitEffect
<1>6. CASE ObjectionCommand
  <2>1. open' = (open \ {}) \cup NewTasks(Active + 1)
    BY <1>6 DEF ObjectionCommand, NewRound
  <2>. QED
    BY <1>1, <1>2, <2>1
<1>7. CASE DelegateCommit
  <2>1. PICK t \in handing.task : open' = (open \ {t}) \cup {[t EXCEPT !.hand = @ + 1, !.holder = handing.to]}
    BY <1>7 DEF DelegateCommit
  <2>2. t \in Task /\ handing.to \in Members
    BY <1>7, <2>1 DEF DelegateCommit, Typed, TypeOK, Flying
  <2>. QED
    BY <2>1, <2>2, HandedType
<1>8. CASE \/ UNCHANGED vars
           \/ \E s \in Casts : \/ \E m \in Members, type \in Explicit : CastRead(s, m, type)
                               \/ CastInsert(s) \/ CastRefuse(s) \/ CastDecide(s)
                               \/ CastFail(s) \/ CastCrash(s)
           \/ JobRead \/ JobInsert \/ JobDecide \/ JobFail \/ JobCollide \/ JobCrash
           \/ DelegateLock \/ DelegateRefuse \/ DelegateCrash
           \/ \E t \in open, m \in Members : DelegateRead(t, m)
           \/ SecretaryDraft \/ Expire
           \/ \E m \in Members : JobFind(m) \/ Deactivate(m)
  <2>1. open' \subseteq open
    BY <1>8 DEF CastRead, CastInsert, CastRefuse, CastDecide, CastFail, CastCrash, JobRead, JobInsert,
       JobFind, JobDecide, JobFail, JobCollide, JobCrash, DelegateRead, DelegateLock, DelegateRefuse,
       DelegateCrash, SecretaryDraft, ToDraft, Expire, Deactivate, vars, tasks
  <2>. QED
    BY <2>1
<1>. QED
  BY <1>4, <1>5, <1>6, <1>7, <1>8 DEF Next, CastWorks, JobWorks, Delegating

\* What is claimed stays so while no such task is added.
LEMMA ClaimsStay ==
    ASSUME NEW m, NEW r, NEW own, NEW before, NEW after, Claims(m, r, own, before),
           \A t \in after : t.hand = 0 /\ t.round = r => t \in before
    PROVE  Claims(m, r, own, after)
BY DEF Claims

\* The transactions that are not at the step.
LEMMA ClaimedCasts ==
    ASSUME Typed, Claimed, [Next]_vars, NEW s \in Casts, cast'[s] = cast[s], Writing(cast[s].phase)
    PROVE  Claims(cast'[s].voter, cast'[s].round, cast'[s].own, open')
<1>1. Claims(cast[s].voter, cast[s].round, cast[s].own, open) /\ cast[s].round \in 1..Active
  BY WritingIsAtWork DEF Claimed, Typed, Flying
<1>. QED
  BY <1>1, OpenStep, ClaimsStay

LEMMA ClaimedJob ==
    ASSUME Typed, Claimed, [Next]_vars, job'.round = job.round, Writing(job.phase),
           NEW m \in job.silent \ job.seek, JobOwn(m)' = JobOwn(m)
    PROVE  Claims(m, job'.round, JobOwn(m)', open')
<1>1. Claims(m, job.round, JobOwn(m), open) /\ job.round \in 1..Active
  BY WritingIsAtWork DEF Claimed, Typed, Flying
<1>. QED
  BY <1>1, OpenStep, ClaimsStay

\* What a step of the requests, or of anything but the job, has to keep.
LEMMA ClaimedByCasts ==
    ASSUME Typed, Claimed, [Next]_vars,
           \A s \in Casts : Writing(cast'[s].phase) =>
              \/ cast'[s] = cast[s]
              \/ Claims(cast'[s].voter, cast'[s].round, cast'[s].own, open'),
           job' = job \/ job'.phase = "idle" \/ (job'.phase = "read" /\ job'.own = {})
    PROVE  Claimed'
<1>1. \A s \in Casts : Writing(cast'[s].phase) =>
         Claims(cast'[s].voter, cast'[s].round, cast'[s].own, open')
  BY ClaimedCasts
<1>2. CASE job' = job
  <2>1. \A m : JobOwn(m)' = JobOwn(m)
    BY <1>2 DEF JobOwn
  <2>2. Writing(job.phase) => \A m \in job.silent \ job.seek : Claims(m, job'.round, JobOwn(m)', open')
    BY <1>2, <2>1, ClaimedJob
  <2>. QED
    BY <1>1, <1>2, <2>2 DEF Claimed
<1>3. CASE job'.phase = "idle" \/ (job'.phase = "read" /\ job'.own = {})
  BY <1>1, <1>3, WritingIsAtWork DEF Claimed
<1>. QED
  BY <1>2, <1>3

\* A request looks for the task of its voter.
LEMMA ClaimedCastInsert ==
    ASSUME Typed, Claimed, Filed, NEW s \in Casts, CastInsert(s)
    PROVE  Claimed'
<1>1. PICK own \in Found(cast[s].voter, cast[s].round) :
        PutCast(s, [cast[s] EXCEPT !.phase = "inserted", !.version = version, !.own = own])
  BY DEF CastInsert
<1>2. /\ cast'[s].voter = cast[s].voter /\ cast'[s].round = cast[s].round /\ cast'[s].own = own
      /\ \A u \in Casts : u # s => cast'[u] = cast[u]
  BY <1>1 DEF PutCast, Typed, TypeOK
<1>3. open' = open /\ job' = job /\ [Next]_vars
  BY DEF CastInsert, tasks, Next, CastWorks
<1>4. Claims(cast[s].voter, cast[s].round, own, open)
  BY FoundOne DEF Claims, Filed
<1>. QED
  BY <1>2, <1>3, <1>4, ClaimedByCasts

\* The job looks for the tasks of the silent.
LEMMA ClaimedJobWorks ==
    ASSUME Typed, Claimed, Filed, \/ JobInsert \/ JobDecide \/ \E m \in Members : JobFind(m)
    PROVE  Claimed'
<1>1. open' = open /\ cast' = cast /\ [Next]_vars
  BY DEF JobInsert, JobDecide, JobFind, tasks, Next, JobWorks
<1>2. \A s \in Casts : Writing(cast'[s].phase) =>
         Claims(cast'[s].voter, cast'[s].round, cast'[s].own, open')
  BY <1>1, ClaimedCasts
<1>3. CASE JobInsert
  <2>1. job.phase = "read" /\ job'.phase = "inserted" /\ job'.own = job.own /\ job'.seek = job'.silent
    BY <1>3 DEF JobInsert, Typed, TypeOK
  <2>2. job.own = {}
    BY <2>1 DEF Claimed
  <2>. QED
    BY <1>2, <2>1, <2>2 DEF Claimed
<1>4. CASE JobDecide
  <2>1. /\ job.phase = "inserted" /\ job'.phase = "decided" /\ job.seek = {}
        /\ job'.own = job.own /\ job'.seek = job.seek /\ job'.silent = job.silent
        /\ job'.round = job.round
    BY <1>4 DEF JobDecide, Typed, TypeOK
  <2>2. Writing(job.phase) /\ \A m : JobOwn(m)' = JobOwn(m)
    BY <2>1 DEF Writing, JobOwn
  <2>3. \A m \in job.silent \ job.seek : Claims(m, job'.round, JobOwn(m)', open')
    BY <1>1, <2>1, <2>2, ClaimedJob
  <2>. QED
    BY <1>2, <2>1, <2>2, <2>3 DEF Claimed
<1>5. ASSUME NEW m \in Members, JobFind(m)
      PROVE  Claimed'
  <2>1. PICK own \in Found(m, job.round) :
          job' = [job EXCEPT !.seek = @ \ {m}, !.own = @ \cup own]
    BY <1>5 DEF JobFind
  <2>2. /\ job.phase = "inserted" /\ job'.phase = "inserted" /\ m \in job.seek
        /\ job'.own = job.own \cup own /\ job'.seek = job.seek \ {m} /\ job'.silent = job.silent
        /\ job'.round = job.round
    BY <1>5, <2>1 DEF JobFind, Typed, TypeOK
  <2>3. /\ Writing(job.phase) /\ job.seek \subseteq job.silent
        /\ \A t \in job.own : t.holder \in job.silent \ job.seek
    BY <2>2 DEF Writing, Claimed
  <2>4. /\ own \subseteq open /\ \A t \in own : t.round = job.round /\ t.holder = m
        /\ \A t, u \in own : t = u
        /\ own = {} => \A t \in open : t.round = job.round => t.holder # m
    BY <2>1, FoundOne
  <2>5. Claims(m, job'.round, JobOwn(m)', open')
    <3>1. JobOwn(m)' = own
      BY <2>2, <2>3, <2>4 DEF JobOwn
    <3>. QED
      BY <1>1, <2>2, <2>4, <3>1 DEF Claims, Filed
  <2>6. ASSUME NEW n \in job.silent \ job.seek
        PROVE  Claims(n, job'.round, JobOwn(n)', open')
    <3>1. JobOwn(n)' = JobOwn(n)
      BY <2>2, <2>4 DEF JobOwn
    <3>. QED
      BY <1>1, <2>2, <2>3, <3>1, ClaimedJob
  <2>7. job'.silent \ job'.seek \subseteq (job.silent \ job.seek) \cup {m}
    BY <2>2
  <2>. QED
    BY <1>2, <2>2, <2>3, <2>4, <2>5, <2>6, <2>7 DEF Claimed
<1>. QED
  BY <1>3, <1>4, <1>5

\* Every step.
LEMMA ClaimedStep ==
    ASSUME Typed, Claimed, Filed, [Next]_vars
    PROVE  Claimed'
<1>1. ASSUME NEW s \in Casts,
             \/ \E m \in Members, type \in Explicit : CastRead(s, m, type)
             \/ CastRefuse(s) \/ CastFail(s) \/ CastCrash(s)
      PROVE  Claimed'
  <2>1. PICK r : r.phase \in {"idle", "read"} /\ PutCast(s, r)
    <3>1. CASE \E m \in Members, type \in Explicit : CastRead(s, m, type)
      <4>1. PICK m \in Members, type \in Explicit : CastRead(s, m, type)
        BY <3>1
      <4>. DEFINE r == [IdleCast EXCEPT !.phase = "read", !.voter = m, !.type = type,
                                        !.round = Active]
      <4>2. PutCast(s, r)
        BY <4>1 DEF CastRead
      <4>3. r.phase = "read"
        BY DEF IdleCast
      <4>. HIDE DEF r
      <4>. QED
        BY <4>2, <4>3
    <3>2. CASE CastRefuse(s) \/ CastFail(s) \/ CastCrash(s)
      BY <3>2 DEF CastRefuse, CastFail, CastCrash, IdleCast
    <3>. QED
      BY <1>1, <3>1, <3>2
  <2>2. cast'[s] = r /\ \A u \in Casts : u # s => cast'[u] = cast[u]
    BY <2>1 DEF PutCast, Typed, TypeOK
  <2>3. job' = job
    BY <1>1 DEF CastRead, CastRefuse, CastFail, CastCrash
  <2>. QED
    BY <2>1, <2>2, <2>3, WritingIsAtWork, ClaimedByCasts
<1>2. ASSUME NEW s \in Casts, CastDecide(s)
      PROVE  Claimed'
  <2>1. /\ cast[s].phase = "inserted" /\ cast'[s].voter = cast[s].voter /\ cast'[s].round = cast[s].round
        /\ cast'[s].own = cast[s].own
        /\ \A u \in Casts : u # s => cast'[u] = cast[u]
        /\ open' = open /\ job' = job
    BY <1>2 DEF CastDecide, PutCast, Typed, TypeOK, tasks
  <2>2. Claims(cast[s].voter, cast[s].round, cast[s].own, open)
    BY <2>1 DEF Claimed, Writing
  <2>. QED
    BY <2>1, <2>2, ClaimedByCasts
<1>3. ASSUME NEW s \in Casts, CastCommit(s)
      PROVE  Claimed'
  <2>1. cast'[s].phase = "idle" /\ \A u \in Casts : u # s => cast'[u] = cast[u]
    BY <1>3, CastCommitEffect
  <2>2. job' = job
    BY <1>3 DEF CastCommit
  <2>. QED
    BY <2>1, <2>2, WritingIsAtWork, ClaimedByCasts
<1>4. CASE JobCommit
  BY <1>4, JobCommitEffect, ClaimedByCasts
<1>5. CASE JobRead \/ JobCollide \/ JobFail \/ JobCrash
  <2>1. CASE JobRead
    <3>1. cast' = cast /\ job'.phase = "read" /\ job'.own = {}
      BY <2>1 DEF JobRead, IdleJob
    <3>. QED
      BY <3>1, ClaimedByCasts
  <2>2. CASE JobCollide \/ JobFail \/ JobCrash
    <3>1. cast' = cast /\ job'.phase = "idle"
      BY <2>2 DEF JobCollide, JobFail, JobCrash, IdleJob
    <3>. QED
      BY <3>1, ClaimedByCasts
  <2>. QED
    BY <1>5, <2>1, <2>2
<1>6. CASE SecretaryDraft \/ ObjectionCommand \/ Expire \/ UNCHANGED vars \/ \E m \in Members : Deactivate(m)
  BY <1>6, ClaimedByCasts DEF SecretaryDraft, ObjectionCommand, Expire, Deactivate, vars
<1>7. CASE Delegating
  BY <1>7, DelegatingLeaves, ClaimedByCasts
<1>. QED
  BY <1>1, <1>2, <1>3, <1>4, <1>5, <1>6, <1>7, ClaimedCastInsert, ClaimedJobWorks
     DEF Next, CastWorks, JobWorks

\* Tasks that were handed over stay so, completed or not.
LEMMA TakenOverStays ==
    ASSUME NEW m, NEW r, TakenOver(m, r) # {}, done \cup handed \subseteq done' \cup handed'
    PROVE  TakenOver(m, r)' # {}
BY DEF TakenOver

\* A transaction that records votes, each with the task that it has claimed.
LEMMA FiledRecords ==
    ASSUME Typed, Dated, Filed, NEW plan \in Plans, NEW own \in SUBSET Task, Follow(plan, own),
           NEW rows \in SUBSET Vote, votes' = votes \cup rows,
           \A v \in rows : v.round <= Active /\ ~HasVoted(v.voter, v.round, votes),
           \A t \in own : HasVoted(t.holder, t.round, rows) /\ Rooted(t),
           \A t, u \in own : t.holder = u.holder => t = u,
           \A t \in open : t.hand = 0 /\ HasVoted(t.holder, t.round, rows) =>
              \E u \in own : u.holder = t.holder /\ u.round = t.round
    PROVE  Filed'
<1>1. /\ open' = (open \ own) \cup (IF plan = "objection" THEN NewTasks(Active + 1) ELSE {})
      /\ done' = done \cup own /\ handed' = handed \ own
  <2>1. TypeOK /\ Active >= 1
    BY DEF Typed, Flying
  <2>. QED
    BY <2>1, FollowEffect
<1>2. Active \in Nat /\ \A v \in votes' : v.round \in Nat /\ v.round <= Active
  BY RoundsType DEF Typed, TypeOK, Vote, Dated
<1>3. \A m, r : HasVoted(m, r, votes') <=> HasVoted(m, r, votes) \/ HasVoted(m, r, rows)
  BY DEF HasVoted
<1>4. \A t \in NewTasks(Active + 1) : t.round = Active + 1 /\ t.holder = t.member
  BY <1>2, NewTasksTypes DEF Typed
<1>5. \A t \in done' : HasVoted(t.holder, t.round, votes')
  BY <1>1, <1>3 DEF Filed, TasksFollowVotes
<1>6. ASSUME NEW t \in done', NEW u \in done', t.round = u.round, t.holder = u.holder
      PROVE  t = u
  <2>1. \A v, w : v \in done /\ w \in own => v.holder # w.holder \/ v.round # w.round
    <3>1. \A v \in done : HasVoted(v.holder, v.round, votes)
      BY DEF Filed, TasksFollowVotes
    <3>2. \A w \in own : ~HasVoted(w.holder, w.round, votes)
      BY DEF HasVoted
    <3>. QED
      BY <3>1, <3>2
  <2>2. CASE t \in done /\ u \in done
    BY <1>6, <2>2 DEF Filed, TasksFollowVotes
  <2>3. CASE t \in own /\ u \in own
    BY <1>6, <2>3
  <2>. QED
    BY <1>1, <1>6, <2>1, <2>2, <2>3
<1>7. ASSUME NEW t \in open', t.hand = 0, HasVoted(t.holder, t.round, votes')
      PROVE  TakenOver(t.holder, t.round)' # {}
  <2>1. t \in open /\ t \notin own
    <3>1. t.round # Active + 1
      BY <1>2, <1>7 DEF HasVoted
    <3>. QED
      BY <1>1, <1>4, <3>1
  <2>2. CASE HasVoted(t.holder, t.round, votes)
    <3>1. TakenOver(t.holder, t.round) # {}
      BY <1>7, <2>1, <2>2 DEF Filed, TasksFollowVotes
    <3>. QED
      BY <1>1, <3>1, TakenOverStays
  <2>3. CASE HasVoted(t.holder, t.round, rows)
    <3>1. PICK u \in own : u.holder = t.holder /\ u.round = t.round
      BY <1>7, <2>1, <2>3
    <3>2. u.hand # 0
      <4>1. SUFFICES ASSUME u.hand = 0
                     PROVE  u = t
        BY <2>1
      <4>2. u.member = t.member /\ u.hand = t.hand
        BY <1>7, <2>1, <3>1, <4>1 DEF Filed, Rooted
      <4>3. u \in Task /\ t \in Task
        BY <2>1 DEF Typed, TypeOK
      <4>. QED
        BY <3>1, <4>2, <4>3 DEF Task
    <3>3. u.hand > 0 /\ u \in done'
      BY <1>1, <3>2 DEF Task
    <3>. QED
      BY <3>1, <3>3 DEF TakenOver
  <2>. QED
    BY <1>3, <1>7, <2>2, <2>3
<1>8. \A t \in open' : Rooted(t)
  BY <1>1, <1>4 DEF Filed, Rooted
<1>. QED
  BY <1>5, <1>6, <1>7, <1>8 DEF Filed, TasksFollowVotes

\* A task is handed over.
LEMMA FiledDelegates ==
    ASSUME Typed, Filed, Delegating
    PROVE  Filed'
<1>1. votes' = votes
  BY DelegatingLeaves
<1>2. CASE DelegateCommit
  <2>1. PICK t \in handing.task :
          /\ open' = (open \ {t}) \cup {[t EXCEPT !.hand = @ + 1, !.holder = handing.to]}
          /\ done' = done \ {t} /\ handed' = handed \cup {t}
    BY <1>2 DEF DelegateCommit
  <2>2. t \in Task /\ handing.to \in Members
    BY <1>2, <2>1 DEF DelegateCommit, Typed, TypeOK, Flying
  <2>3. \A u \in open' : u \in open \/ u.hand # 0
    BY <2>1, <2>2, HandedType
  <2>4. ASSUME NEW u \in open', u.hand = 0, HasVoted(u.holder, u.round, votes')
        PROVE  TakenOver(u.holder, u.round)' # {}
    <3>1. TakenOver(u.holder, u.round) # {}
      BY <1>1, <2>3, <2>4 DEF Filed, TasksFollowVotes
    <3>. QED
      BY <2>1, <3>1, TakenOverStays
  <2>. QED
    BY <1>1, <2>1, <2>3, <2>4 DEF Filed, TasksFollowVotes, Rooted
<1>3. CASE UNCHANGED tasks
  BY <1>1, <1>3 DEF Filed, TasksFollowVotes, TakenOver, tasks
<1>. QED
  BY <1>2, <1>3 DEF Delegating, DelegateRead, DelegateLock, DelegateRefuse, DelegateCrash

\* Every step.
LEMMA FiledStep ==
    ASSUME Typed, Dated, OneWriter, Claimed, Filed, [Next]_vars
    PROVE  Filed'
<1>1. ASSUME NEW s \in Casts, CastCommit(s)
      PROVE  Filed'
  <2>. DEFINE v == MyVote(s)
              rows == {v}
              own == cast[s].own
  <2>1. /\ v \in Vote /\ v.voter = cast[s].voter /\ v.round = cast[s].round
        /\ votes' = votes \cup rows /\ Follow(cast[s].plan, own) /\ own \in SUBSET Task
        /\ cast[s].plan \in Plans /\ cast[s].round \in 1..Active
    BY <1>1, CastCommitEffect
  <2>2. /\ Claims(cast[s].voter, cast[s].round, own, open)
        /\ ~HasVoted(cast[s].voter, cast[s].round, votes)
    BY <1>1 DEF CastCommit, Writing, OneWriter, Claimed
  <2>3. /\ rows \in SUBSET Vote
        /\ \A w \in rows : w.round <= Active /\ ~HasVoted(w.voter, w.round, votes)
    BY <2>1, <2>2
  <2>4. \A m, r : HasVoted(m, r, rows) <=> m = cast[s].voter /\ r = cast[s].round
    BY <2>1 DEF HasVoted
  <2>5. \A t \in own : HasVoted(t.holder, t.round, rows) /\ Rooted(t)
    BY <2>2, <2>4 DEF Claims
  <2>6. \A t, u \in own : t.holder = u.holder => t = u
    BY <2>2 DEF Claims
  <2>7. \A t \in open : t.hand = 0 /\ HasVoted(t.holder, t.round, rows) =>
           \E u \in own : u.holder = t.holder /\ u.round = t.round
    BY <2>2, <2>4 DEF Claims
  <2>. HIDE DEF v, rows, own
  <2>. QED
    BY <2>1, <2>3, <2>5, <2>6, <2>7, FiledRecords
<1>2. CASE JobCommit
  <2>. DEFINE rows == SilentVotes
              own == job.own
              plan == job.plan
  <2>1. /\ rows \in SUBSET Vote
        /\ \A v \in rows : v.voter \in job.silent /\ v.round = job.round
        /\ votes' = votes \cup rows /\ Follow(plan, own) /\ own \in SUBSET Task
        /\ plan \in Plans /\ job.round \in 1..Active
    BY <1>2, JobCommitEffect
  <2>2. /\ \A m \in job.silent : ~HasVoted(m, job.round, votes)
        /\ \A t \in own : t.holder \in job.silent
        /\ \A m \in job.silent : Claims(m, job.round, JobOwn(m), open)
    BY <1>2 DEF JobCommit, Writing, OneWriter, Claimed
  <2>3. \A m, r : HasVoted(m, r, rows) <=> m \in job.silent /\ r = job.round
    <3>1. ASSUME NEW m \in job.silent
          PROVE  HasVoted(m, job.round, rows)
      <4>. DEFINE v == [round |-> job.round, voter |-> m, type |-> "SILENT_ACCEPTANCE"]
      <4>1. v \in rows /\ v.voter = m /\ v.round = job.round
        BY DEF SilentVotes
      <4>. HIDE DEF v
      <4>. QED
        BY <4>1 DEF HasVoted
    <3>. QED
      BY <2>1, <3>1 DEF HasVoted
  <2>4. \A v \in rows : v.round <= Active /\ ~HasVoted(v.voter, v.round, votes)
    BY <2>1, <2>2
  <2>5. \A t \in own : t \in JobOwn(t.holder) /\ t.holder \in job.silent
    BY <2>2 DEF JobOwn
  <2>6. \A t \in own : HasVoted(t.holder, t.round, rows) /\ Rooted(t)
    BY <2>2, <2>3, <2>5 DEF Claims
  <2>7. \A t, u \in own : t.holder = u.holder => t = u
    BY <2>2, <2>5 DEF Claims
  <2>8. \A t \in open : t.hand = 0 /\ HasVoted(t.holder, t.round, rows) =>
           \E u \in own : u.holder = t.holder /\ u.round = t.round
    <3>. SUFFICES ASSUME NEW t \in open, t.hand = 0, HasVoted(t.holder, t.round, rows)
                  PROVE  \E u \in own : u.holder = t.holder /\ u.round = t.round
      OBVIOUS
    <3>1. Claims(t.holder, job.round, JobOwn(t.holder), open) /\ t.round = job.round
      BY <2>2, <2>3
    <3>2. JobOwn(t.holder) # {}
      BY <3>1 DEF Claims
    <3>. QED
      BY <3>1, <3>2 DEF Claims, JobOwn
  <2>. HIDE DEF rows, own, plan
  <2>. QED
    BY <2>1, <2>4, <2>6, <2>7, <2>8, FiledRecords
<1>3. CASE Delegating
  BY <1>3, FiledDelegates
<1>4. CASE ObjectionCommand
  <2>1. /\ votes' = votes /\ done' = done /\ handed' = handed /\ Active \in Nat
        /\ open' = (open \ {}) \cup NewTasks(Active + 1)
    BY <1>4, RoundsType DEF ObjectionCommand, NewRound, Typed
  <2>2. \A t \in NewTasks(Active + 1) : t.round = Active + 1 /\ t.holder = t.member
    BY <2>1, NewTasksTypes DEF Typed
  <2>3. \A v \in votes : v.round \in Nat /\ v.round <= Active
    BY DEF Typed, TypeOK, Vote, Dated
  <2>4. \A t \in NewTasks(Active + 1) : ~HasVoted(t.holder, t.round, votes)
    BY <2>1, <2>2, <2>3 DEF HasVoted
  <2>5. \A m, r : TakenOver(m, r)' = TakenOver(m, r)
    BY <2>1 DEF TakenOver
  <2>. QED
    BY <2>1, <2>2, <2>4, <2>5 DEF Filed, TasksFollowVotes, Rooted
<1>5. CASE \/ UNCHANGED vars
           \/ \E s \in Casts : \/ \E m \in Members, type \in Explicit : CastRead(s, m, type)
                               \/ CastInsert(s) \/ CastRefuse(s) \/ CastDecide(s)
                               \/ CastFail(s) \/ CastCrash(s)
           \/ JobRead \/ JobInsert \/ JobDecide \/ JobFail \/ JobCollide \/ JobCrash
           \/ SecretaryDraft \/ Expire
           \/ \E m \in Members : JobFind(m) \/ Deactivate(m)
  <2>1. UNCHANGED <<votes, done, handed>> /\ open' \subseteq open
    BY <1>5 DEF CastRead, CastInsert, CastRefuse, CastDecide, CastFail, CastCrash, JobRead, JobInsert,
       JobFind, JobDecide, JobFail, JobCollide, JobCrash, SecretaryDraft, ToDraft, Expire, Deactivate,
       vars, tasks
  <2>2. \A m, r : TakenOver(m, r)' = TakenOver(m, r)
    BY <2>1 DEF TakenOver
  <2>. QED
    BY <2>1, <2>2 DEF Filed, TasksFollowVotes
<1>. QED
  BY <1>1, <1>2, <1>3, <1>4, <1>5 DEF Next, CastWorks, JobWorks

\* A completed task is of its holder's vote, and a vote completes one; a voter's own task
\* is left over only if another's, handed over to them, was completed or handed on
\* (completeMemberApprovalTask, delegateTask).
THEOREM TasksAreOfVotes == Spec => []TasksFollowVotes
<1>1. Init => OneWriter
  BY DEF Init, OneWriter, AnswerOrSilence, IdleCast, IdleJob, Writing
<1>2. Init => Dated
  BY DEF Init, Dated
<1>3. Init => Claimed
  BY DEF Init, Claimed, IdleCast, IdleJob, Writing
<1>4. Init => Filed
  BY DEF Init, Filed, TasksFollowVotes, HasVoted, NewTasks, Rooted
<1>5. Typed /\ OneWriter /\ [Next]_vars => OneWriter'
  BY OneWriterStep
<1>6. Typed /\ Dated /\ [Next]_vars => Dated'
  BY DatedStep
<1>7. Typed /\ Claimed /\ Filed /\ [Next]_vars => Claimed'
  BY ClaimedStep
<1>8. Typed /\ Dated /\ OneWriter /\ Claimed /\ Filed /\ [Next]_vars => Filed'
  BY FiledStep
<1>9. Filed => TasksFollowVotes
  BY DEF Filed
<1>10. Typed <=> (TypeOK /\ Flying)
  BY DEF Typed
<1>. QED
  BY <1>1, <1>2, <1>3, <1>4, <1>5, <1>6, <1>7, <1>8, <1>9, <1>10, RoundTypes, PTL DEF Spec

\* A recorded objection has reopened the approval (castVote, executeTransition).
THEOREM ObjectionsReopen == Spec => []ObjectionReopens
<1>1. Init => Dated
  BY DEF Init, Dated
<1>2. Typed /\ Dated /\ [Next]_vars => Dated'
  BY DatedStep
<1>3. Dated => ObjectionReopens
  BY DEF Dated, ObjectionReopens
<1>4. Typed <=> (TypeOK /\ Flying)
  BY DEF Typed
<1>. QED
  BY <1>1, <1>2, <1>3, <1>4, RoundTypes, PTL DEF Spec

(***************************************************************************)
(* The decision draft                                                      *)
(***************************************************************************)
\* Every active member accepts, in the active round, in one of these rows.
Complete(rows) ==
    \A m \in eligible : \E v \in rows : v.voter = m /\ v.round = Active /\ v.type \in Accepting

\* Who has decided to move the case, and still has its version, will find it where it
\* was; and the round complete, if complete it was found.
Counted ==
    /\ \A s \in Casts :
          cast[s].phase = "decided" /\ cast[s].plan # "none" /\ cast[s].version = version =>
             /\ stage = "member_approval"
             /\ cast[s].plan = "draft" => Complete(votes \cup {MyVote(s)})
    /\ job.phase = "decided" /\ job.plan # "none" /\ job.version = version =>
             /\ stage = "member_approval"
             /\ job.plan = "draft" => Complete(votes \cup SilentVotes)

\* Not too many members have left.
Enough == Cardinality(Members \ eligible) <= MaxLeavers

\* A step that counts nothing.
LEMMA CountedStays ==
    ASSUME Typed, Counted, votes \subseteq votes', eligible' \subseteq eligible,
           \/ UNCHANGED <<version, stage>> /\ Active' = Active
           \/ version' = version + 1,
           \A s \in Casts : cast'[s] = cast[s] \/ cast'[s].phase # "decided",
           job' = job \/ job'.phase # "decided"
    PROVE  Counted'
<1>1. /\ version \in Nat
      /\ \A s \in Casts : cast[s].phase # "idle" => cast[s].version \in Nat /\ cast[s].version <= version
      /\ job.phase # "idle" => job.version \in Nat /\ job.version <= version
  BY DEF Typed, TypeOK, Flying
<1>2. ASSUME version' = version, Active' = Active, NEW rows, Complete(rows), NEW more, rows \subseteq more
      PROVE  Complete(more)'
  BY <1>2 DEF Complete
<1>3. ASSUME NEW s \in Casts, cast'[s].phase = "decided", cast'[s].plan # "none",
             cast'[s].version = version'
      PROVE  /\ stage' = "member_approval"
             /\ cast'[s].plan = "draft" => Complete(votes \cup {MyVote(s)})'
  <2>1. cast'[s] = cast[s]
    BY <1>3
  <2>2. UNCHANGED <<version, stage>> /\ Active' = Active
    BY <1>1, <1>3, <2>1
  <2>3. MyVote(s)' = MyVote(s)
    BY <2>1 DEF MyVote
  <2>4. /\ stage = "member_approval"
        /\ cast[s].plan = "draft" =>
              \A m \in eligible : \E v \in votes \cup {MyVote(s)} :
                 v.voter = m /\ v.round = Active /\ v.type \in Accepting
    BY <1>3, <2>1, <2>2 DEF Counted, Complete
  <2>. QED
    BY <2>1, <2>2, <2>3, <2>4 DEF Complete
<1>4. ASSUME job'.phase = "decided", job'.plan # "none", job'.version = version'
      PROVE  /\ stage' = "member_approval"
             /\ job'.plan = "draft" => Complete(votes \cup SilentVotes)'
  <2>1. job' = job
    BY <1>4
  <2>2. UNCHANGED <<version, stage>> /\ Active' = Active
    BY <1>1, <1>4, <2>1
  <2>3. SilentVotes' = SilentVotes
    BY <2>1 DEF SilentVotes
  <2>4. /\ stage = "member_approval"
        /\ job.plan = "draft" =>
              \A m \in eligible : \E v \in votes \cup SilentVotes :
                 v.voter = m /\ v.round = Active /\ v.type \in Accepting
    BY <1>4, <2>1, <2>2 DEF Counted, Complete
  <2>. QED
    BY <2>1, <2>2, <2>3, <2>4 DEF Complete
<1>. QED
  BY <1>3, <1>4 DEF Counted

\* The count of a request.
LEMMA CastCounts ==
    ASSUME Typed, Counted, NEW s \in Casts, CastDecide(s)
    PROVE  Counted'
<1>1. PICK plan \in CastPlans(s) :
        PutCast(s, [cast[s] EXCEPT !.phase = "decided", !.plan = plan, !.version = version])
  BY DEF CastDecide
<1>2. /\ cast'[s].voter = cast[s].voter /\ cast'[s].round = cast[s].round
      /\ cast'[s].type = cast[s].type /\ cast'[s].plan = plan
      /\ \A u \in Casts : u # s => cast'[u] = cast[u]
  BY <1>1 DEF PutCast, Typed, TypeOK
<1>3. UNCHANGED <<stage, version, rounds, eligible, votes, tasks, job, handing>>
  BY DEF CastDecide
<1>4. /\ plan # "none" => stage = "member_approval"
      /\ plan = "draft" => Complete(votes \cup {MyVote(s)})
  BY <1>1 DEF CastPlans, AdvancePlans, Unanimous, Complete
<1>5. \A u \in Casts : MyVote(u)' = MyVote(u)
  BY <1>2 DEF MyVote
<1>. QED
  BY <1>2, <1>3, <1>4, <1>5 DEF Counted, Complete, Active, SilentVotes

\* The count of the job.
LEMMA JobCounts ==
    ASSUME Typed, Counted, JobDecide
    PROVE  Counted'
<1>1. PICK plan \in JobPlans :
        job' = [job EXCEPT !.phase = "decided", !.plan = plan, !.version = version]
  BY DEF JobDecide
<1>2. job'.round = job.round /\ job'.silent = job.silent /\ job'.plan = plan
  BY <1>1 DEF Typed, TypeOK
<1>3. UNCHANGED <<stage, version, rounds, eligible, votes, tasks, cast, handing>>
  BY DEF JobDecide
<1>4. /\ plan # "none" => stage = "member_approval"
      /\ plan = "draft" => Complete(votes \cup SilentVotes)
  BY <1>1 DEF JobPlans, AdvancePlans, Unanimous, Complete
<1>5. SilentVotes' = SilentVotes
  BY <1>2 DEF SilentVotes
<1>. QED
  BY <1>2, <1>3, <1>4, <1>5 DEF Counted, Complete, Active, MyVote

\* Every step.
LEMMA CountedStep ==
    ASSUME Typed, Counted, [Next]_vars
    PROVE  Counted'
<1>1. CASE UNCHANGED vars
  BY <1>1, CountedStays DEF vars, Active
<1>2. ASSUME NEW s \in Casts, \E m \in Members, type \in Explicit : CastRead(s, m, type)
      PROVE  Counted'
  <2>1. PICK m \in Members, type \in Explicit : CastRead(s, m, type)
    BY <1>2
  <2>. DEFINE r == [IdleCast EXCEPT !.phase = "read", !.voter = m, !.type = type, !.round = Active]
  <2>2. PutCast(s, r) /\ UNCHANGED <<stage, version, rounds, eligible, votes, job>>
    BY <2>1 DEF CastRead
  <2>3. r.phase # "decided"
    BY DEF IdleCast
  <2>. HIDE DEF r
  <2>4. \A u \in Casts : cast'[u] = cast[u] \/ cast'[u].phase # "decided"
    BY <2>2, <2>3 DEF PutCast, Typed, TypeOK
  <2>. QED
    BY <2>2, <2>4, CountedStays DEF Active
<1>3. ASSUME NEW s \in Casts, CastInsert(s) \/ CastRefuse(s) \/ CastFail(s) \/ CastCrash(s)
      PROVE  Counted'
  <2>1. UNCHANGED <<stage, version, rounds, eligible, votes, job>>
    BY <1>3 DEF CastInsert, CastRefuse, CastFail, CastCrash
  <2>2. \A u \in Casts : cast'[u] = cast[u] \/ cast'[u].phase # "decided"
    <3>1. CASE CastInsert(s)
      BY <3>1 DEF CastInsert, PutCast, Typed, TypeOK
    <3>2. CASE CastRefuse(s) \/ CastFail(s) \/ CastCrash(s)
      <4>1. PutCast(s, IdleCast)
        BY <3>2 DEF CastRefuse, CastFail, CastCrash
      <4>2. IdleCast.phase # "decided"
        BY DEF IdleCast
      <4>. QED
        BY <4>1, <4>2 DEF PutCast, Typed, TypeOK
    <3>. QED
      BY <1>3, <3>1, <3>2
  <2>. QED
    BY <2>1, <2>2, CountedStays DEF Active
<1>4. CASE JobRead \/ JobInsert \/ JobFail \/ JobCollide \/ JobCrash \/ \E m \in Members : JobFind(m)
  <2>1. UNCHANGED <<stage, version, rounds, eligible, votes, cast>>
    BY <1>4 DEF JobRead, JobInsert, JobFind, JobFail, JobCollide, JobCrash
  <2>2. job'.phase # "decided"
    <3>1. CASE JobRead
      BY <3>1 DEF JobRead, IdleJob
    <3>2. CASE JobInsert
      BY <3>2 DEF JobInsert, Typed, TypeOK
    <3>3. CASE JobFail \/ JobCollide \/ JobCrash
      BY <3>3 DEF JobFail, JobCollide, JobCrash, IdleJob
    <3>4. ASSUME NEW m \in Members, JobFind(m)
          PROVE  job'.phase = "inserted"
      BY <3>4 DEF JobFind, Typed, TypeOK
    <3>. QED
      BY <1>4, <3>1, <3>2, <3>3, <3>4
  <2>. QED
    BY <2>1, <2>2, CountedStays DEF Active
<1>5. ASSUME NEW s \in Casts, CastCommit(s)
      PROVE  Counted'
  <2>. DEFINE own == cast[s].own
  <2>1. /\ Follow(cast[s].plan, own) /\ own \in SUBSET Task /\ cast[s].plan \in Plans
        /\ votes \subseteq votes'
        /\ cast'[s].phase = "idle" /\ \A u \in Casts : u # s => cast'[u] = cast[u]
    BY <1>5, CastCommitEffect
  <2>2. eligible' = eligible /\ job' = job /\ TypeOK /\ Active >= 1
    BY <1>5 DEF CastCommit, Typed, Flying
  <2>. HIDE DEF own
  <2>3. (UNCHANGED <<version, stage>> /\ Active' = Active) \/ version' = version + 1
    BY <2>1, <2>2, FollowEffect DEF Plans
  <2>. QED
    BY <2>1, <2>2, <2>3, CountedStays
<1>6. CASE JobCommit
  <2>. DEFINE own == job.own
  <2>1. /\ Follow(job.plan, own) /\ own \in SUBSET Task /\ job.plan \in Plans
        /\ votes \subseteq votes' /\ job'.phase = "idle" /\ cast' = cast
    BY <1>6, JobCommitEffect
  <2>2. eligible' = eligible /\ TypeOK /\ Active >= 1
    BY <1>6 DEF JobCommit, Typed, Flying
  <2>. HIDE DEF own
  <2>3. (UNCHANGED <<version, stage>> /\ Active' = Active) \/ version' = version + 1
    BY <2>1, <2>2, FollowEffect DEF Plans
  <2>. QED
    BY <2>1, <2>2, <2>3, CountedStays
<1>7. CASE SecretaryDraft \/ ObjectionCommand
  BY <1>7, CountedStays DEF SecretaryDraft, ObjectionCommand, ToDraft, NewRound
<1>8. CASE Expire
  <2>1. Active' = Active
    BY <1>8, RoundsType DEF Expire, Active, Typed, Flying
  <2>. QED
    BY <1>8, <2>1, CountedStays DEF Expire
<1>9. ASSUME NEW m \in Members, Deactivate(m)
      PROVE  Counted'
  BY <1>9, CountedStays DEF Deactivate, Active
<1>10. CASE Delegating
  BY <1>10, DelegatingLeaves, CountedStays DEF Active
<1>. QED
  BY <1>1, <1>2, <1>3, <1>4, <1>5, <1>6, <1>7, <1>8, <1>9, <1>10, CastCounts, JobCounts
     DEF Next, CastWorks, JobWorks

\* Only a member who leaves makes the council smaller.
LEMMA EnoughStep ==
    ASSUME TypeOK, Enough, [Next]_vars
    PROVE  Enough'
<1>1. ASSUME NEW m \in Members, Deactivate(m)
      PROVE  Enough'
  <2>1. IsFiniteSet(Members \ eligible) /\ Cardinality(Members \ eligible) \in Nat
    BY CouncilAssumption, FS_Subset, FS_CardinalityType
  <2>2. Members \ eligible' = (Members \ eligible) \cup {m}
    BY <1>1 DEF Deactivate, TypeOK
  <2>3. Cardinality((Members \ eligible) \cup {m}) \in Nat
        /\ Cardinality((Members \ eligible) \cup {m}) <= Cardinality(Members \ eligible) + 1
    <3>. DEFINE left == Members \ eligible
    <3>1. IsFiniteSet(left) /\ Cardinality(left) \in Nat
      BY <2>1
    <3>. HIDE DEF left
    <3>2. /\ IsFiniteSet(left \cup {m})
          /\ Cardinality(left \cup {m}) = Cardinality(left)
             \/ Cardinality(left \cup {m}) = Cardinality(left) + 1
      BY <3>1, FS_AddElement
    <3>3. /\ Cardinality(left \cup {m}) \in Nat
          /\ Cardinality(left \cup {m}) <= Cardinality(left) + 1
      BY <3>1, <3>2
    <3>. QED
      BY <3>3 DEF left
  <2>. QED
    BY <1>1, <2>1, <2>2, <2>3, CouncilAssumption DEF Enough, Deactivate
<1>2. CASE eligible' = eligible
  BY <1>2 DEF Enough
<1>3. CASE Delegating
  BY <1>2, <1>3, DelegatingLeaves
<1>. QED
  BY <1>1, <1>2, <1>3 DEF Next, CastWorks, JobWorks, CastRead, CastInsert, CastRefuse, CastDecide,
     CastCommit, CastFail, CastCrash, JobRead, JobInsert, JobFind, JobDecide, JobCommit, JobFail,
     JobCollide, JobCrash, SecretaryDraft, ObjectionCommand, Expire, vars

\* What the decision draft needs, at the step that reaches it.
LEMMA DraftStep ==
    ASSUME MaxLeavers < Cardinality(Members), Typed, Counted, Enough, [Next]_vars, stage' # stage
    PROVE  /\ eligible # {}
           /\ \A m \in eligible : \E v \in votes' :
                 v.voter = m /\ v.round = Active /\ v.type \in Accepting
<1>1. eligible # {}
  <2>1. Members \ {} = Members /\ Cardinality(Members) \in Nat
    BY CouncilAssumption, FS_CardinalityType
  <2>. QED
    BY <2>1, CouncilAssumption DEF Enough
<1>2. ASSUME NEW s \in Casts, CastCommit(s)
      PROVE  Complete(votes')
  <2>. DEFINE own == cast[s].own
  <2>1. /\ Follow(cast[s].plan, own) /\ own \in SUBSET Task /\ cast[s].plan \in Plans
        /\ votes' = votes \cup {MyVote(s)}
    BY <1>2, CastCommitEffect
  <2>2. TypeOK /\ Active >= 1
    BY DEF Typed, Flying
  <2>. HIDE DEF own
  <2>3. cast[s].plan = "draft"
    BY <2>1, <2>2, FollowEffect
  <2>4. cast[s].phase = "decided" /\ cast[s].version = version
    BY <1>2, <2>3 DEF CastCommit
  <2>. QED
    BY <2>1, <2>3, <2>4 DEF Counted
<1>3. ASSUME JobCommit
      PROVE  Complete(votes')
  <2>. DEFINE own == job.own
  <2>1. /\ Follow(job.plan, own) /\ own \in SUBSET Task /\ job.plan \in Plans
        /\ votes' = votes \cup SilentVotes
    BY <1>3, JobCommitEffect
  <2>2. TypeOK /\ Active >= 1
    BY DEF Typed, Flying
  <2>. HIDE DEF own
  <2>3. job.plan = "draft"
    BY <2>1, <2>2, FollowEffect
  <2>4. job.phase = "decided" /\ job.version = version
    BY <1>3, <2>3 DEF JobCommit
  <2>. QED
    BY <2>1, <2>3, <2>4 DEF Counted
<1>4. ASSUME SecretaryDraft
      PROVE  Complete(votes')
  BY <1>4 DEF SecretaryDraft, Unanimous, Complete
<1>5. Complete(votes')
  BY <1>2, <1>3, <1>4, DelegatingLeaves DEF Next, CastWorks, JobWorks, CastRead, CastInsert,
     CastRefuse, CastDecide, CastFail, CastCrash, JobRead, JobInsert, JobFind, JobDecide, JobFail,
     JobCollide, JobCrash, ObjectionCommand, NewRound, Expire, Deactivate, vars
<1>. QED
  BY <1>1, <1>5 DEF Complete

\* If a member stays, the case reaches its decision draft only when every active member
\* has accepted, in the round that is then the last (advanceToDecisionDraftIfUnanimous).
THEOREM DraftIsUnanimous ==
    ASSUME MaxLeavers < Cardinality(Members)
    PROVE  Spec => DraftNeedsUnanimity
<1>1. Init => Counted
  BY DEF Init, Counted, IdleCast, IdleJob
<1>2. Init => Enough
  BY CouncilAssumption, FS_EmptySet DEF Init, Enough
<1>3. Typed /\ Counted /\ [Next]_vars => Counted'
  BY CountedStep
<1>4. Typed /\ Enough /\ [Next]_vars => Enough'
  BY EnoughStep DEF Typed
<1>5. Typed /\ Counted /\ Enough /\ [Next]_vars =>
         [stage' # stage =>
             /\ eligible # {}
             /\ \A m \in eligible : \E v \in votes' :
                   v.voter = m /\ v.round = Active /\ v.type \in Accepting]_vars
  BY DraftStep
<1>6. Typed <=> (TypeOK /\ Flying)
  BY DEF Typed
<1>. QED
  BY <1>1, <1>2, <1>3, <1>4, <1>5, <1>6, RoundTypes, PTL DEF Spec, DraftNeedsUnanimity

(***************************************************************************)
(* The vote implements CouncilVote                                         *)
(***************************************************************************)
\* A transaction that records votes, and what follows from them, is one step of the
\* abstract vote, if what it had decided still holds.
LEMMA RecordingStep ==
    ASSUME Typed, AnswerOrSilence', NEW plan \in Plans, NEW own \in SUBSET Task,
           Follow(plan, own), eligible' = eligible,
           NEW rows, votes' = votes \cup rows,
           \A v \in rows : /\ v.round \in 1..Active
                           /\ v.type \in IF plan = "objection" THEN {"REJECT"} ELSE Accepting,
           plan # "none" => stage = "member_approval",
           plan = "draft" => Complete(votes')
    PROVE  Council!Next
<1>1. /\ stage' # stage => plan = "draft"
      /\ plan = "draft" => stage' = "decision_draft"
      /\ Active' = IF plan = "objection" THEN Active + 1 ELSE Active
  <2>1. TypeOK /\ Active >= 1
    BY DEF Typed, Flying
  <2>. QED
    BY <2>1, FollowEffect
<1>2. ASSUME NEW types, \A v \in rows : v.type \in types
      PROVE  Council!Records(types)
  BY <1>2 DEF Council!Records, AnswerOrSilence
<1>3. Council!Accepting = Accepting
  BY DEF Council!Accepting, Accepting
<1>4. CASE plan = "none"
  BY <1>1, <1>2, <1>3, <1>4 DEF Council!Next, Council!Accept
<1>5. CASE plan = "draft"
  BY <1>1, <1>2, <1>3, <1>5 DEF Council!Next, Council!Conclude, Complete
<1>6. CASE plan = "objection"
  BY <1>1, <1>2, <1>6 DEF Council!Next, Council!Reopen
<1>. QED
  BY <1>4, <1>5, <1>6 DEF Plans

\* Every step is a step of the abstract vote, or leaves it alone.
LEMMA CouncilStep ==
    ASSUME Typed, OneWriter, Counted, [Next]_vars
    PROVE  [Council!Next]_<<stage, Active, eligible, votes>>
<1>1. AnswerOrSilence'
  BY OneWriterStep DEF OneWriter
<1>2. ASSUME NEW s \in Casts, CastCommit(s)
      PROVE  Council!Next
  <2>. DEFINE rows == {MyVote(s)}
              own == cast[s].own
              plan == cast[s].plan
  <2>1. /\ MyVote(s).round = cast[s].round /\ MyVote(s).type = cast[s].type
        /\ votes' = votes \cup rows
        /\ Follow(plan, own) /\ own \in SUBSET Task
        /\ plan \in Plans /\ cast[s].round \in 1..Active
    BY <1>2, CastCommitEffect
  <2>2. /\ cast[s].phase = "decided" /\ eligible' = eligible
        /\ plan = "none" \/ version = cast[s].version
    BY <1>2 DEF CastCommit
  <2>3. cast[s].type \in IF plan = "objection" THEN {"REJECT"} ELSE Accepting
    BY <2>2 DEF Typed, TypeOK, Flying, Explicit, Accepting
  <2>4. /\ plan # "none" => stage = "member_approval"
        /\ plan = "draft" => Complete(votes')
    BY <2>1, <2>2 DEF Counted
  <2>5. \A v \in rows : /\ v.round \in 1..Active
                        /\ v.type \in IF plan = "objection" THEN {"REJECT"} ELSE Accepting
    BY <2>1, <2>3
  <2>. HIDE DEF rows, own, plan
  <2>. QED
    BY <1>1, <2>1, <2>2, <2>4, <2>5, RecordingStep
<1>3. CASE JobCommit
  <2>. DEFINE own == job.own
              plan == job.plan
  <2>1. /\ \A v \in SilentVotes : v.round = job.round /\ v.type = "SILENT_ACCEPTANCE"
        /\ votes' = votes \cup SilentVotes
        /\ Follow(plan, own) /\ own \in SUBSET Task
        /\ plan \in {"none", "draft"} /\ plan \in Plans /\ job.round \in 1..Active
    BY <1>3, JobCommitEffect
  <2>2. /\ job.phase = "decided" /\ eligible' = eligible
        /\ plan = "none" \/ version = job.version
    BY <1>3 DEF JobCommit
  <2>3. /\ plan # "none" => stage = "member_approval"
        /\ plan = "draft" => Complete(votes')
    BY <2>1, <2>2 DEF Counted
  <2>4. \A v \in SilentVotes : /\ v.round \in 1..Active
                               /\ v.type \in IF plan = "objection" THEN {"REJECT"} ELSE Accepting
    BY <2>1 DEF Accepting
  <2>. HIDE DEF own, plan
  <2>. QED
    BY <1>1, <2>1, <2>2, <2>3, <2>4, RecordingStep
<1>4. ASSUME votes' = votes
      PROVE  \A types : Council!Records(types)
  BY <1>4 DEF Council!Records
<1>5. CASE SecretaryDraft
  <2>1. /\ stage = "member_approval" /\ stage' = "decision_draft"
        /\ Active' = Active /\ eligible' = eligible /\ votes' = votes
        /\ Complete(votes)
    BY <1>5 DEF SecretaryDraft, ToDraft, Unanimous, Complete, Active
  <2>2. \A m \in eligible : \E v \in votes' :
           v.voter = m /\ v.round = Active /\ v.type \in Council!Accepting
    BY <2>1 DEF Complete, Accepting, Council!Accepting
  <2>. QED
    BY <1>4, <2>1, <2>2 DEF Council!Next, Council!Conclude
<1>6. CASE ObjectionCommand
  <2>1. /\ stage = "member_approval" /\ stage' = stage
        /\ Active' = Active + 1 /\ eligible' = eligible /\ votes' = votes
    BY <1>6, RoundsType DEF ObjectionCommand, NewRound, Active, Typed
  <2>. QED
    BY <1>4, <2>1 DEF Council!Next, Council!Reopen
<1>7. CASE Expire
  <2>1. Active' = Active
    BY <1>7, RoundsType DEF Expire, Active, Typed, Flying
  <2>. QED
    BY <1>7, <2>1 DEF Expire
<1>8. ASSUME NEW m \in Members, Deactivate(m)
      PROVE  Council!Next
  BY <1>8 DEF Deactivate, Active, Council!Next, Council!Leave
<1>9. CASE \/ UNCHANGED vars
           \/ \E s \in Casts : \/ \E m \in Members, type \in Explicit : CastRead(s, m, type)
                               \/ CastInsert(s) \/ CastRefuse(s) \/ CastDecide(s)
                               \/ CastFail(s) \/ CastCrash(s)
           \/ JobRead \/ JobInsert \/ JobDecide \/ JobFail \/ JobCollide \/ JobCrash
           \/ Delegating \/ \E m \in Members : JobFind(m)
  <2>1. UNCHANGED <<stage, rounds, eligible, votes>>
    BY <1>9, DelegatingLeaves DEF CastRead, CastInsert, CastRefuse, CastDecide, CastFail, CastCrash,
       JobRead, JobInsert, JobFind, JobDecide, JobFail, JobCollide, JobCrash, vars
  <2>. QED
    BY <2>1 DEF Active
<1>. QED
  BY <1>2, <1>3, <1>5, <1>6, <1>7, <1>8, <1>9 DEF Next, CastWorks, JobWorks

\* Whatever requests and the job overlap, crash or see too late, the vote is that of
\* CouncilVote: each transaction comes to one step that sees all the rows.
THEOREM VoteIsAtomic == Spec => ImplementsCouncil
<1>1. Init => Council!Init
  BY DEF Init, Council!Init, Active
<1>2. Init => OneWriter /\ Counted
  BY DEF Init, OneWriter, AnswerOrSilence, Counted, IdleCast, IdleJob, Writing
<1>3. Typed /\ OneWriter /\ Counted /\ [Next]_vars => OneWriter' /\ Counted'
  BY OneWriterStep, CountedStep
<1>4. Typed /\ OneWriter /\ Counted /\ [Next]_vars =>
         [Council!Next]_<<stage, Active, eligible, votes>>
  BY CouncilStep
<1>5. Typed <=> (TypeOK /\ Flying)
  BY DEF Typed
<1>. QED
  BY <1>1, <1>2, <1>3, <1>4, <1>5, RoundTypes, PTL DEF Spec, ImplementsCouncil, Council!Spec

================================================================================
