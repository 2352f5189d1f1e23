--------------------------- MODULE NotificationProofs ---------------------------
(***************************************************************************)
(* Theorems about the delivery of notifications, for every number of       *)
(* events, ticks, retries and faults.                                      *)
(*                                                                         *)
(* An in-app event becomes SENT with a new notification or because an      *)
(* older look found one. Looked says that what was found is still there    *)
(* when the tick relies on it, Covers that a notification which replaces   *)
(* another covers all that the other did.                                  *)
(***************************************************************************)
EXTENDS NotificationDispatch, FiniteSetTheorems, SequenceTheorems, WellFoundedInduction, TLAPS

(***************************************************************************)
(* Types                                                                   *)
(***************************************************************************)
\* The events a tick has still to serve, with the retry counts that it has read.
Todo == UNION {[S -> Nat] : S \in SUBSET Events}

Tick == [phase : {"idle", "next", "locked", "mailed", "mark"}, todo : Todo, found : BOOLEAN]

\* TypeOK, with the ticks as elements of a set of functions.
Types ==
    /\ events \in [Events -> [status : Statuses, retries : Nat]]
    /\ cold \subseteq Events
    /\ notes \in [Events \ Mails -> Note]
    /\ mails \in [Mails -> Nat]
    /\ ticks \in [Ticks -> Tick]
    /\ \A t \in Ticks : ticks[t].phase # "idle" => DOMAIN ticks[t].todo # {}
    /\ lock \in Ticks \cup {Nobody}
    /\ faults \in 0..MaxFaults

\* A set of events that is not empty has an oldest one.
LEMMA OldestIs ==
    ASSUME NEW S \in SUBSET Events, S # {}
    PROVE  \E x \in S : \A y \in S : x <= y
<1>. DEFINE R == OpToRel(<, Nat)
<1>1. IsWellFoundedOn(R, Nat)
  BY NatLessThanWellFounded
<1>2. R = {ss \in Nat \X Nat : ss[1] < ss[2]}
  BY DEF OpToRel
<1>3. S \in SUBSET Nat
  BY NotificationAssumption
<1>. HIDE DEF R
<1>4. PICK x \in S : \A y \in S : ~(<<y, x>> \in R)
  BY <1>1, <1>3, WFMin
<1>5. ASSUME NEW y \in S
      PROVE  x <= y
  <2>1. ~(y < x)
    BY <1>2, <1>3, <1>4
  <2>. QED
    BY <1>3, <2>1
<1>. QED
  BY <1>5

\* A batch is a function on some events.
LEMMA TodoDomain ==
    ASSUME NEW todo \in Todo
    PROVE  /\ DOMAIN todo \in SUBSET Events
           /\ \A e \in DOMAIN todo : todo[e] \in Nat
           /\ \A S \in SUBSET DOMAIN todo : [e \in S |-> todo[e]] \in Todo
<1>1. PICK S \in SUBSET Events : todo \in [S -> Nat]
  BY DEF Todo
<1>2. ASSUME NEW T \in SUBSET DOMAIN todo
      PROVE  [e \in T |-> todo[e]] \in Todo
  <2>1. T \in SUBSET Events /\ [e \in T |-> todo[e]] \in [T -> Nat]
    BY <1>1
  <2>. QED
    BY <2>1 DEF Todo
<1>. QED
  BY <1>1, <1>2

\* No batch.
LEMMA IdleTickType == IdleTick \in Tick /\ IdleTick.phase = "idle" /\ DOMAIN IdleTick.todo = {}
<1>1. <<>> \in [{} -> Nat]
  <2>1. <<>> \in Seq(Nat) /\ Len(<<>>) = 0
    BY EmptySeq
  <2>2. <<>> \in [1..0 -> Nat]
    BY <2>1, LenProperties
  <2>. QED
    BY <2>2
<1>2. <<>> \in Todo
  <2>1. {} \in SUBSET Events
    OBVIOUS
  <2>. QED
    BY <1>1, <2>1 DEF Todo
<1>. QED
  BY <1>1, <1>2 DEF IdleTick, Tick

\* The event a tick serves is one of its batch.
LEMMA CurrentIsIn ==
    ASSUME Types, NEW t \in Ticks, ticks[t].phase # "idle"
    PROVE  Current(t) \in DOMAIN ticks[t].todo /\ Current(t) \in Events
<1>1. ticks[t].todo \in Todo /\ DOMAIN ticks[t].todo # {}
  BY DEF Types, Tick
<1>2. DOMAIN ticks[t].todo \in SUBSET Events
  BY <1>1, TodoDomain
<1>3. \E e \in DOMAIN ticks[t].todo : \A f \in DOMAIN ticks[t].todo : e <= f
  BY <1>1, <1>2, OldestIs
<1>. QED
  BY <1>2, <1>3 DEF Current

\* The ticks: each keeps its batch, or part of it, or starts over.
TicksType == ticks \in [Ticks -> Tick] /\ \A t \in Ticks : ticks[t].phase # "idle" => DOMAIN ticks[t].todo # {}

\* A tick that goes on.
LEMMA AdvanceEffect ==
    ASSUME Types, NEW t \in Ticks, Advance(t)
    PROVE  /\ TicksType'
           /\ \A u \in Ticks : u # t => ticks'[u] = ticks[u]
           /\ ticks'[t].phase \in {"idle", "next"}
           /\ DOMAIN ticks'[t].todo \subseteq DOMAIN ticks[t].todo
<1>. DEFINE rest == DOMAIN ticks[t].todo \ {Current(t)}
            going == [phase |-> "next", todo |-> [e \in rest |-> ticks[t].todo[e]], found |-> FALSE]
<1>1. ticks[t].todo \in Todo
  BY DEF Types, Tick
<1>2. CASE rest = {}
  <2>1. ticks' = [ticks EXCEPT ![t] = IdleTick]
    BY <1>2 DEF Advance, Abandon
  <2>. QED
    BY <2>1, IdleTickType DEF Types, TicksType
<1>3. CASE rest # {}
  <2>1. ticks' = [ticks EXCEPT ![t] = going]
    BY <1>3 DEF Advance
  <2>2. rest \in SUBSET DOMAIN ticks[t].todo
    OBVIOUS
  <2>3. [e \in rest |-> ticks[t].todo[e]] \in Todo
    BY <1>1, <2>2, TodoDomain
  <2>4. going \in Tick /\ going.phase = "next" /\ DOMAIN going.todo = rest
    BY <2>3 DEF Tick
  <2>. HIDE DEF going, rest
  <2>. QED
    BY <1>3, <2>1, <2>2, <2>4 DEF Types, TicksType
<1>. QED
  BY <1>2, <1>3

\* A tick that reaches a phase, or is abandoned.
LEMMA GoEffect ==
    ASSUME Types, NEW t \in Ticks,
           \/ Abandon(t)
           \/ ticks[t].phase # "idle" /\ \E p \in {"mailed", "mark"} : Go(t, p)
    PROVE  /\ TicksType'
           /\ \A u \in Ticks : u # t => ticks'[u] = ticks[u]
           /\ ticks'[t].phase \in {"idle", "mailed", "mark"}
           /\ DOMAIN ticks'[t].todo \subseteq DOMAIN ticks[t].todo
<1>1. CASE Abandon(t)
  BY <1>1, IdleTickType DEF Abandon, Types, TicksType
<1>2. ASSUME NEW p \in {"mailed", "mark"}, Go(t, p), ticks[t].phase # "idle"
      PROVE  /\ TicksType'
             /\ \A u \in Ticks : u # t => ticks'[u] = ticks[u]
             /\ ticks'[t].phase = p
             /\ ticks'[t].todo = ticks[t].todo
  BY <1>2 DEF Go, Types, TicksType, Tick
<1>. QED
  BY <1>1, <1>2

\* An attempt that fails.
LEMMA FailsEffect ==
    ASSUME Types, NEW e \in Events, NEW retries \in Nat, Fails(e, retries)
    PROVE  /\ events' \in [Events -> [status : Statuses, retries : Nat]]
           /\ cold' \subseteq Events
           /\ events'[e].status \in {"PERMANENTLY_FAILED", "RETRYING"}
           /\ \A f \in Events : f # e => events'[f] = events[f]
BY DEF Fails, Types, Statuses

\* The bound on the faults.
LEMMA FaultType ==
    ASSUME Types, Fault
    PROVE  faults' \in 0..MaxFaults
BY NotificationAssumption DEF Types, Fault

\* The statuses of an event that is published.
Out(e) == events[e].status \notin {"unborn", "drafted"}

\* The events of a transaction are enqueued together, a tick serves events that are
\* published, and what it holds it holds alone. What has been tried once is published.
Served ==
    /\ \A e, f \in Events : OriginOf[e] = OriginOf[f] /\ ~Out(e) => events[f].status = events[e].status
    /\ \A t \in Ticks : \A e \in DOMAIN ticks[t].todo : Out(e)
    /\ \A t \in Ticks : ticks[t].phase \in {"locked", "mailed"} => lock = t
    /\ \A t \in Ticks : ticks[t].phase = "mailed" => Current(t) \in Mails

Typed == Types /\ Served

\* The statuses of the types.
LEMMA OutIs ==
    ASSUME Types, NEW e \in Events
    PROVE  /\ Is(e, "unborn") => ~Out(e)
           /\ Is(e, "drafted") => ~Out(e)
           /\ Out(e) => Born(e)
           /\ Waiting(e) => Out(e)
BY DEF Is, Out, Born, Waiting, Types

\* A transaction that enqueues, and its commit.
LEMMA EnqueueTypes ==
    ASSUME Typed, NEW x \in Origins, Draft(x) \/ Publish(x)
    PROVE  /\ Typed'
           /\ \A e \in Events : events'[e] = events[e] \/ ~Out(e)
           /\ \A e \in Events : events'[e].status = "drafted" \/ events'[e].status = "PENDING"
                                  \/ events'[e] = events[e]
           /\ UNCHANGED <<cold, notes, mails, ticks, lock, faults>>
<1>0. UNCHANGED <<cold, notes, mails, ticks, lock, faults>>
  BY DEF Draft, Publish
<1>1. PICK s \in {"drafted", "PENDING"} :
        events' = [e \in Events |-> IF e \in EventsOf(x) THEN [events[e] EXCEPT !.status = s] ELSE events[e]]
  BY DEF Draft, Publish
<1>2. PICK d \in EventsOf(x) : ~Out(d)
  BY DEF Draft, Publish, Born, Is, Out
<1>3. \A e \in EventsOf(x) : ~Out(e)
  BY <1>2 DEF Typed, Served, EventsOf, Out
<1>4. \A e \in Events : /\ e \in EventsOf(x) => events'[e].status = s
                        /\ e \notin EventsOf(x) => events'[e] = events[e]
  BY <1>1 DEF Typed, Types
<1>5. events' \in [Events -> [status : Statuses, retries : Nat]]
  BY <1>1 DEF Typed, Types, Statuses
<1>6. Types'
  BY <1>0, <1>5 DEF Typed, Types
<1>7. \A e, f \in Events : OriginOf[e] = OriginOf[f] => (e \in EventsOf(x) <=> f \in EventsOf(x))
  BY DEF EventsOf
<1>8. \A e \in Events : Out(e) => e \notin EventsOf(x)
  BY <1>3
<1>9. \A t \in Ticks : DOMAIN ticks[t].todo \in SUBSET Events
  BY TodoDomain DEF Typed, Types, Tick
<1>10. \A e \in Events : Out(e) => Out(e)'
  BY <1>4, <1>8 DEF Out
<1>11. \A e, f \in Events : OriginOf[e] = OriginOf[f] /\ ~Out(e)' => events'[f].status = events'[e].status
  BY <1>4, <1>7 DEF Out, Typed, Served
<1>12. Served'
  BY <1>0, <1>9, <1>10, <1>11 DEF Typed, Served, Current, Out
<1>. QED
  BY <1>0, <1>3, <1>4, <1>6, <1>12 DEF Typed, EventsOf

\* What a tick does to the events and to the lock, while others stay as they are.
LEMMA TickOn ==
    ASSUME Typed, NEW t \in Ticks, TicksType', \A u \in Ticks : u # t => ticks'[u] = ticks[u],
           events' \in [Events -> [status : Statuses, retries : Nat]],
           \A e \in Events : Out(e) => Out(e)', \A e \in Events : ~Out(e) => events'[e] = events[e],
           cold' \subseteq Events, notes' \in [Events \ Mails -> Note], mails' \in [Mails -> Nat],
           faults' \in 0..MaxFaults, lock' \in Ticks \cup {Nobody},
           \A e \in DOMAIN ticks'[t].todo : e \in Events /\ Out(e)',
           ticks'[t].phase \in {"locked", "mailed"} => lock' = t,
           lock' = lock \/ (lock' = Nobody /\ lock = t) \/ (lock' = t /\ lock = Nobody),
           ticks'[t].phase = "mailed" => Current(t)' \in Mails
    PROVE  Typed'
<1>1. Types'
  BY DEF Typed, Types, TicksType
<1>2. \A e, f \in Events : OriginOf[e] = OriginOf[f] /\ ~Out(e)' => events'[f].status = events'[e].status
  <2>1. SUFFICES ASSUME NEW e \in Events, NEW f \in Events, OriginOf[e] = OriginOf[f], ~Out(e)'
                 PROVE  events'[f].status = events'[e].status
    OBVIOUS
  <2>2. ~Out(e) /\ events'[e] = events[e]
    BY <2>1
  <2>3. events[f].status = events[e].status
    BY <2>1, <2>2 DEF Typed, Served
  <2>4. ~Out(f)
    BY <2>2, <2>3 DEF Out
  <2>. QED
    BY <2>2, <2>3, <2>4
<1>3. \A u \in Ticks : DOMAIN ticks[u].todo \in SUBSET Events
  BY TodoDomain DEF Typed, Types, Tick
<1>4. \A u \in Ticks : \A e \in DOMAIN ticks'[u].todo : Out(e)'
  BY <1>3 DEF Typed, Served
<1>5. \A u \in Ticks : ticks'[u].phase \in {"locked", "mailed"} => lock' = u
  BY NotificationAssumption DEF Typed, Served
<1>6. \A u \in Ticks : ticks'[u].phase = "mailed" => Current(u)' \in Mails
  BY DEF Typed, Served, Current
<1>. QED
  BY <1>1, <1>2, <1>4, <1>5, <1>6 DEF Typed, Served

\* A tick that changes no event.
LEMMA QuietTick ==
    ASSUME Typed, NEW t \in Ticks, TicksType', \A u \in Ticks : u # t => ticks'[u] = ticks[u],
           UNCHANGED <<events, cold, notes>>, mails' \in [Mails -> Nat], faults' \in 0..MaxFaults,
           DOMAIN ticks'[t].todo \subseteq DOMAIN ticks[t].todo,
           lock' \in Ticks \cup {Nobody},
           ticks'[t].phase \in {"locked", "mailed"} => lock' = t,
           lock' = lock \/ (lock' = Nobody /\ lock = t) \/ (lock' = t /\ lock = Nobody),
           ticks'[t].phase = "mailed" => Current(t)' \in Mails
    PROVE  Typed'
<1>1. DOMAIN ticks[t].todo \in SUBSET Events
  BY TodoDomain DEF Typed, Types, Tick
<1>2. \A e \in DOMAIN ticks'[t].todo : e \in Events /\ Out(e)'
  BY <1>1 DEF Typed, Served, Out
<1>3. Types
  BY DEF Typed
<1>. QED
  BY <1>2, <1>3, TickOn DEF Types, Out

\* The lock that is let go of.
LEMMA ReleaseEffect ==
    ASSUME Typed, NEW t \in Ticks, Release(t)
    PROVE  /\ lock' \in Ticks \cup {Nobody}
           /\ lock' = lock \/ (lock' = Nobody /\ lock = t)
BY DEF Release, Typed, Types

\* The notification that a tick makes.
MadeBy(t) ==
    [place |-> "listed", read |-> FALSE,
     covers |-> {f \in Events \ Mails : Born(f) /\ SubjectOf[f] = SubjectOf[Current(t)]}]

\* An event that becomes SENT.
LEMMA SentEffect ==
    ASSUME Typed, NEW t \in Ticks, Sent(t)
    PROVE  /\ ticks[t].phase \in {"locked", "mailed"} /\ Current(t) \in Events /\ Out(Current(t))
           /\ Current(t) \in DOMAIN ticks[t].todo
           /\ events' \in [Events -> [status : Statuses, retries : Nat]]
           /\ events'[Current(t)].status = "SENT"
           /\ \A f \in Events : f # Current(t) => events'[f] = events[f]
           /\ cold' \subseteq Events
           /\ notes' \in [Events \ Mails -> Note]
           /\ Current(t) \in Mails \/ ticks[t].found => notes' = notes
           /\ Current(t) \notin Mails /\ ~ticks[t].found =>
                 notes' = [notes EXCEPT ![Current(t)] = MadeBy(t)]
           /\ mails' = mails
           /\ Release(t)
<1>1. ticks[t].phase \in {"locked", "mailed"}
  BY DEF Sent
<1>2. Current(t) \in DOMAIN ticks[t].todo /\ Current(t) \in Events /\ Out(Current(t))
  BY <1>1, CurrentIsIn DEF Typed, Served
<1>3. /\ events' = [events EXCEPT ![Current(t)].status = "SENT"]
      /\ cold' = cold \ {Current(t)} /\ Release(t) /\ mails' = mails
      /\ notes' = IF ticks[t].found \/ Current(t) \in Mails THEN notes
                  ELSE [notes EXCEPT ![Current(t)] = MadeBy(t)]
  BY DEF Sent, MadeBy
<1>4. MadeBy(t) \in Note
  BY DEF MadeBy, Note
<1>5. notes' \in [Events \ Mails -> Note]
  BY <1>2, <1>3, <1>4 DEF Typed, Types
<1>6. /\ events' \in [Events -> [status : Statuses, retries : Nat]]
      /\ events'[Current(t)].status = "SENT"
      /\ \A f \in Events : f # Current(t) => events'[f] = events[f]
  BY <1>2, <1>3 DEF Typed, Types, Statuses
<1>. QED
  BY <1>1, <1>2, <1>3, <1>5, <1>6 DEF Typed, Types

\* A batch is read.
LEMMA ReadTypes ==
    ASSUME Typed, NEW t \in Ticks, TickRead(t)
    PROVE  Typed' /\ ticks'[t].phase = "next" /\ \A u \in Ticks : u # t => ticks'[u] = ticks[u]
<1>. DEFINE batch == Oldest(BatchSize, {e \in Oldest(WindowSize, {f \in Events : Waiting(f)}) : Eligible(e)})
            todo == [e \in batch |-> events[e].retries]
            going == [phase |-> "next", todo |-> todo, found |-> FALSE]
<1>1. batch # {} /\ ticks' = [ticks EXCEPT ![t] = going]
      /\ UNCHANGED <<events, cold, notes, mails, lock, faults>>
  BY DEF TickRead
<1>2. batch \in SUBSET Events /\ \A e \in batch : Waiting(e)
  BY DEF Oldest
<1>. HIDE DEF batch
<1>3. todo \in [batch -> Nat]
  BY <1>2 DEF Typed, Types
<1>4. todo \in Todo /\ DOMAIN todo = batch
  BY <1>2, <1>3 DEF Todo
<1>. HIDE DEF todo
<1>5. going \in Tick /\ going.phase = "next" /\ going.todo = todo
  BY <1>4 DEF Tick
<1>. HIDE DEF going
<1>6. ticks'[t] = going /\ \A u \in Ticks : u # t => ticks'[u] = ticks[u]
  BY <1>1 DEF Typed, Types
<1>7. TicksType'
  BY <1>1, <1>4, <1>5, <1>6 DEF Typed, Types, TicksType
<1>8. \A e \in batch : Out(e)
  BY <1>2, OutIs DEF Typed
<1>9. Types
  BY DEF Typed
<1>10. \A e \in DOMAIN ticks'[t].todo : e \in Events /\ Out(e)'
  BY <1>1, <1>2, <1>4, <1>5, <1>6, <1>8 DEF Out
<1>11. Typed'
  BY <1>1, <1>5, <1>6, <1>7, <1>9, <1>10, TickOn DEF Types, Out
<1>. QED
  BY <1>5, <1>6, <1>11

\* The lock is taken.
LEMMA BeginTypes ==
    ASSUME Typed, NEW t \in Ticks, Begin(t)
    PROVE  /\ Typed'
           /\ ticks'[t].phase = "locked" /\ ticks'[t].todo = ticks[t].todo
           /\ ticks'[t].found = (Current(t) \notin Mails /\ Found(Current(t)))
           /\ \A u \in Ticks : u # t => ticks'[u] = ticks[u]
<1>. DEFINE f == Current(t) \notin Mails /\ Found(Current(t))
<1>1. /\ ticks[t].phase = "next" /\ lock = Nobody /\ lock' = t
      /\ ticks' = [ticks EXCEPT ![t].phase = "locked", ![t].found = f]
      /\ UNCHANGED <<events, cold, notes, mails, faults>>
  BY DEF Begin, LockFree
<1>2. f \in BOOLEAN
  OBVIOUS
<1>. HIDE DEF f
<1>3. /\ ticks'[t].phase = "locked" /\ ticks'[t].todo = ticks[t].todo /\ ticks'[t].found = f
      /\ \A u \in Ticks : u # t => ticks'[u] = ticks[u]
      /\ ticks' \in [Ticks -> Tick]
  BY <1>1, <1>2 DEF Typed, Types, Tick
<1>4. TicksType'
  BY <1>1, <1>3 DEF Typed, Types, TicksType
<1>5. Types
  BY DEF Typed
<1>6. Typed'
  BY <1>1, <1>3, <1>4, <1>5, QuietTick DEF Types
<1>. QED
  BY <1>3, <1>6 DEF f

\* The e-mail leaves.
LEMMA MailTypes ==
    ASSUME Typed, NEW t \in Ticks, Mail(t)
    PROVE  /\ Typed'
           /\ ticks'[t].phase = "mailed" /\ ticks'[t].todo = ticks[t].todo
           /\ \A u \in Ticks : u # t => ticks'[u] = ticks[u]
           /\ mails'[Current(t)] = mails[Current(t)] + 1
           /\ \A e \in Mails : e # Current(t) => mails'[e] = mails[e]
<1>1. /\ ticks[t].phase = "locked" /\ Current(t) \in Mails /\ Go(t, "mailed")
      /\ mails' = [mails EXCEPT ![Current(t)] = @ + 1]
      /\ UNCHANGED <<events, cold, notes, lock, faults>>
  BY DEF Mail
<1>2. Types /\ lock = t
  BY <1>1 DEF Typed, Served
<1>3. /\ ticks'[t].phase = "mailed" /\ ticks'[t].todo = ticks[t].todo
      /\ \A u \in Ticks : u # t => ticks'[u] = ticks[u]
      /\ ticks' \in [Ticks -> Tick]
  BY <1>1 DEF Go, Typed, Types, Tick
<1>4. Current(t)' = Current(t)
  BY <1>3 DEF Current
<1>5. /\ mails' \in [Mails -> Nat] /\ mails'[Current(t)] = mails[Current(t)] + 1
      /\ \A e \in Mails : e # Current(t) => mails'[e] = mails[e]
  BY <1>1 DEF Typed, Types
<1>6. TicksType'
  BY <1>1, <1>3 DEF Typed, Types, TicksType
<1>7. Typed'
  BY <1>1, <1>2, <1>3, <1>4, <1>5, <1>6, QuietTick DEF Types
<1>. QED
  BY <1>3, <1>5, <1>7

\* The transaction commits, heard of or not.
LEMMA SentTypes ==
    ASSUME Typed, NEW t \in Ticks, Commit(t) \/ AnswerLost(t)
    PROVE  Typed' /\ Sent(t) /\ ticks'[t].phase \notin {"locked", "mailed"}
           /\ \A u \in Ticks : u # t => ticks'[u] = ticks[u]
<1>1. Sent(t) /\ (Advance(t) \/ Go(t, "mark"))
  BY DEF Commit, AnswerLost
<1>2. Types /\ ticks[t].phase # "idle"
  BY <1>1, SentEffect DEF Typed
<1>3. /\ TicksType' /\ \A u \in Ticks : u # t => ticks'[u] = ticks[u]
      /\ ticks'[t].phase \notin {"locked", "mailed"}
      /\ DOMAIN ticks'[t].todo \subseteq DOMAIN ticks[t].todo
  <2>1. CASE Advance(t)
    BY <1>2, <2>1, AdvanceEffect
  <2>2. CASE Go(t, "mark")
    BY <1>2, <2>2 DEF Go, Types, TicksType, Tick
  <2>. QED
    BY <1>1, <2>1, <2>2
<1>4. faults' \in 0..MaxFaults
  BY <1>2, FaultType DEF Commit, AnswerLost, Types
<1>5. DOMAIN ticks[t].todo \in SUBSET Events
  BY TodoDomain DEF Typed, Types, Tick
<1>6. \A e \in Events : Out(e) => Out(e)'
  BY <1>1, SentEffect DEF Out
<1>7. \A e \in Events : ~Out(e) => events'[e] = events[e]
  BY <1>1, SentEffect
<1>8. \A e \in DOMAIN ticks'[t].todo : e \in Events /\ Out(e)'
  BY <1>3, <1>5, <1>6 DEF Typed, Served
<1>9. mails' \in [Mails -> Nat]
  BY <1>1, <1>2, SentEffect DEF Types
<1>10. Typed'
  BY <1>1, <1>3, <1>4, <1>6, <1>7, <1>8, <1>9, SentEffect, ReleaseEffect, TickOn
<1>. QED
  BY <1>1, <1>3, <1>10

\* An attempt fails, in its transaction or afterwards.
LEMMA FailTypes ==
    ASSUME Typed, NEW t \in Ticks, Refuse(t) \/ MarkFailed(t)
    PROVE  /\ Typed' /\ Current(t) \in Events
           /\ events'[Current(t)].status \in {"PERMANENTLY_FAILED", "RETRYING"}
           /\ \A f \in Events : f # Current(t) => events'[f] = events[f]
           /\ ticks'[t].phase \in {"idle", "next"} /\ \A u \in Ticks : u # t => ticks'[u] = ticks[u]
           /\ UNCHANGED <<notes, mails, faults>>
<1>1. /\ ticks[t].phase # "idle" /\ Advance(t) /\ UNCHANGED <<notes, mails, faults>>
      /\ Release(t) \/ lock' = lock
  BY DEF Refuse, MarkFailed
<1>2. Types
  BY DEF Typed
<1>3. Current(t) \in DOMAIN ticks[t].todo /\ Current(t) \in Events /\ Out(Current(t))
  BY <1>1, <1>2, CurrentIsIn DEF Typed, Served
<1>4. ticks[t].todo[Current(t)] \in Nat /\ events[Current(t)].retries \in Nat
  BY <1>2, <1>3, TodoDomain DEF Types, Tick
<1>5. \E retries \in Nat : Fails(Current(t), retries)
  BY <1>4 DEF Refuse, MarkFailed
<1>6. /\ events' \in [Events -> [status : Statuses, retries : Nat]]
      /\ cold' \subseteq Events
      /\ events'[Current(t)].status \in {"PERMANENTLY_FAILED", "RETRYING"}
      /\ \A f \in Events : f # Current(t) => events'[f] = events[f]
  BY <1>2, <1>3, <1>5, FailsEffect
<1>7. /\ TicksType' /\ \A u \in Ticks : u # t => ticks'[u] = ticks[u]
      /\ ticks'[t].phase \in {"idle", "next"}
      /\ DOMAIN ticks'[t].todo \subseteq DOMAIN ticks[t].todo
  BY <1>1, <1>2, AdvanceEffect
<1>8. \A e \in Events : Out(e) => Out(e)'
  BY <1>6 DEF Out
<1>9. DOMAIN ticks[t].todo \in SUBSET Events
  BY <1>2, TodoDomain DEF Types, Tick
<1>10. \A e \in DOMAIN ticks'[t].todo : e \in Events /\ Out(e)'
  BY <1>7, <1>8, <1>9 DEF Typed, Served
<1>11. lock' \in Ticks \cup {Nobody} /\ (lock' = lock \/ (lock' = Nobody /\ lock = t))
  BY <1>1, <1>2, ReleaseEffect DEF Types
<1>12. \A e \in Events : ~Out(e) => events'[e] = events[e]
  BY <1>3, <1>6
<1>13. notes' \in [Events \ Mails -> Note] /\ mails' \in [Mails -> Nat] /\ faults' \in 0..MaxFaults
  BY <1>1, <1>2 DEF Types
<1>14. Typed'
  BY <1>6, <1>7, <1>8, <1>10, <1>11, <1>12, <1>13, TickOn
<1>. QED
  BY <1>1, <1>3, <1>6, <1>7, <1>14

\* A tick that passes over an event, whose transaction is rolled back, or that dies.
LEMMA LetGoTypes ==
    ASSUME Typed, NEW t \in Ticks, Skip(t) \/ RowFails(t) \/ TickDies(t)
    PROVE  /\ Typed' /\ ticks'[t].phase \in {"idle", "next", "mark"}
           /\ \A u \in Ticks : u # t => ticks'[u] = ticks[u]
           /\ UNCHANGED <<events, cold, notes, mails>>
<1>1. /\ UNCHANGED <<events, cold, notes, mails>> /\ ticks[t].phase # "idle"
      /\ Release(t) \/ lock' = lock
  BY DEF Skip, RowFails, TickDies
<1>2. Types
  BY DEF Typed
<1>3. /\ TicksType' /\ \A u \in Ticks : u # t => ticks'[u] = ticks[u]
      /\ ticks'[t].phase \in {"idle", "next", "mark"}
      /\ DOMAIN ticks'[t].todo \subseteq DOMAIN ticks[t].todo
  <2>1. CASE Skip(t)
    BY <1>2, <2>1, AdvanceEffect DEF Skip
  <2>2. CASE RowFails(t)
    BY <1>1, <1>2, <2>2 DEF RowFails, Go, Types, TicksType, Tick
  <2>3. CASE TickDies(t)
    BY <1>2, <2>3, IdleTickType DEF TickDies, Abandon, Types, TicksType
  <2>. QED
    BY <2>1, <2>2, <2>3
<1>4. faults' \in 0..MaxFaults
  BY <1>2, FaultType DEF Skip, RowFails, TickDies, Types
<1>5. lock' \in Ticks \cup {Nobody} /\ (lock' = lock \/ (lock' = Nobody /\ lock = t))
  BY <1>1, <1>2, ReleaseEffect DEF Types
<1>6. Typed'
  BY <1>1, <1>2, <1>3, <1>4, <1>5, QuietTick DEF Types
<1>. QED
  BY <1>1, <1>3, <1>6

\* The clock, the recipient and the retention job.
LEMMA OtherTypes ==
    ASSUME Typed,
           (\E e \in Events : BackoffElapses(e)) \/ (\E n \in Events \ Mails : Read(n) \/ Purge(n))
    PROVE  Typed'
<1>1. Types'
  <2>1. ASSUME NEW e \in Events, BackoffElapses(e)
        PROVE  Types'
    BY <2>1 DEF Typed, Types, BackoffElapses
  <2>2. ASSUME NEW n \in Events \ Mails, Read(n)
        PROVE  Types'
    BY <2>2 DEF Typed, Types, Read, Note
  <2>3. ASSUME NEW n \in Events \ Mails, Purge(n)
        PROVE  Types'
    <3>1. notes' = [notes EXCEPT ![n].place = "purged"]
          /\ UNCHANGED <<events, cold, mails, ticks, lock, faults>>
      BY <2>3 DEF Purge
    <3>2. notes' \in [Events \ Mails -> Note]
      BY <3>1 DEF Typed, Types, Note
    <3>. QED
      BY <3>1, <3>2 DEF Typed, Types
  <2>. QED
    BY <2>1, <2>2, <2>3
<1>2. UNCHANGED <<events, ticks, lock>>
  BY DEF BackoffElapses, Read, Purge
<1>3. Served'
  BY <1>2 DEF Typed, Served, Out, Current
<1>. QED
  BY <1>1, <1>3 DEF Typed

\* Every step.
LEMMA TypedStep ==
    ASSUME Typed, [Next]_vars
    PROVE  Typed'
<1>1. CASE UNCHANGED vars
  BY <1>1 DEF vars, Typed, Types, Served, Out, Current
<1>. QED
  BY <1>1, EnqueueTypes, ReadTypes, BeginTypes, MailTypes, SentTypes, FailTypes, LetGoTypes, OtherTypes
     DEF Next, Serve

\* Events, notifications, e-mails and ticks have their types; what a tick serves is
\* published, and the lock is held by one tick at a time.
THEOREM DispatchTypes == Spec => [](Types /\ Served) /\ []TypeOK
<1>1. Init => Types
  BY NotificationAssumption, IdleTickType DEF Init, Types, Statuses, NoNote, Note
<1>2. Init => Served
  BY IdleTickType DEF Init, Served, Out, Current
<1>3. Typed /\ [Next]_vars => Typed'
  BY TypedStep
<1>4. Typed <=> (Types /\ Served)
  BY DEF Typed
<1>5. Types => TypeOK
  BY TodoDomain DEF Types, TypeOK, Tick
<1>. QED
  BY <1>1, <1>2, <1>3, <1>4, <1>5, PTL DEF Spec

(***************************************************************************)
(* What is sent is shown                                                   *)
(***************************************************************************)
\* A notification covers events of its subject that are born.
Covers ==
    \A n \in Events \ Mails : \A f \in notes[n].covers :
       f \in Events \ Mails /\ Born(f) /\ SubjectOf[f] = SubjectOf[n]

\* The notification that a tick has found is still in the list.
Looked ==
    \A t \in Ticks : ticks[t].phase = "locked" /\ ticks[t].found =>
       Current(t) \in Events \ Mails /\ Found(Current(t))

Shown(e) ==
    \E n \in Events \ Mails :
       /\ e \in notes[n].covers
       /\ notes[n].place = "listed" \/ (notes[n].place = "purged" /\ notes[n].read)

\* Notifications cover no less, and what is in the list stays there.
Grows ==
    \A n \in Events \ Mails :
       /\ notes[n].covers \subseteq notes'[n].covers
       /\ notes[n].place = "listed" => notes'[n].place = "listed"
       /\ notes[n].place = "purged" => notes'[n].place = "listed" \/ notes'[n] = notes[n]

\* What was shown or found stays so.
LEMMA GrowsKeeps ==
    ASSUME Grows
    PROVE  /\ \A e \in Events : Shown(e) => Shown(e)'
           /\ \A e \in Events : Found(e) => Found(e)'
BY DEF Grows, Shown, Found

\* A step in which no event becomes SENT and no tick looks.
LEMMA NothingSent ==
    ASSUME Covers, Looked, SentIsShown, Grows,
           \A e \in Events : Is(e, "SENT")' => Is(e, "SENT"),
           \A e \in Events : Born(e) => Born(e)',
           \A n \in Events \ Mails : notes'[n].covers = notes[n].covers,
           \A t \in Ticks : ticks'[t].phase = "locked" => ticks'[t] = ticks[t]
    PROVE  Covers' /\ Looked' /\ SentIsShown'
<1>1. Covers'
  BY DEF Covers
<1>2. Looked'
  BY GrowsKeeps DEF Looked, Current
<1>3. SentIsShown'
  BY GrowsKeeps DEF SentIsShown, Shown
<1>. QED
  BY <1>1, <1>2, <1>3

\* An event becomes SENT, and what it is sent with covers it.
LEMMA SentKeeps ==
    ASSUME Typed, Covers, Looked, SentIsShown, NEW t \in Ticks, Commit(t) \/ AnswerLost(t)
    PROVE  Covers' /\ Looked' /\ SentIsShown'
<1>0. PICK e \in Events : e = Current(t)
  BY SentTypes, SentEffect
<1>1. /\ ticks[t].phase \in {"locked", "mailed"} /\ Out(e)
      /\ events'[e].status = "SENT" /\ \A f \in Events : f # e => events'[f] = events[f]
      /\ e \in Mails \/ ticks[t].found => notes' = notes
      /\ e \notin Mails /\ ~ticks[t].found => notes' = [notes EXCEPT ![e] = MadeBy(t)]
      /\ ticks'[t].phase # "locked" /\ \A u \in Ticks : u # t => ticks'[u] = ticks[u]
  BY <1>0, SentTypes, SentEffect
<1>2. \A f \in Events : Born(f) => Born(f)'
  BY <1>1 DEF Born, Is
<1>3. e \notin Mails /\ ~ticks[t].found =>
         /\ notes'[e] = MadeBy(t) /\ e \in MadeBy(t).covers /\ MadeBy(t).place = "listed"
         /\ \A n \in Events \ Mails : n # e => notes'[n] = notes[n]
  BY <1>0, <1>1, OutIs DEF Typed, Types, MadeBy
<1>4. \A f \in MadeBy(t).covers : f \in Events \ Mails /\ Born(f) /\ SubjectOf[f] = SubjectOf[e]
  BY <1>0 DEF MadeBy
<1>5. e \in Events \ Mails => notes[e].covers \subseteq MadeBy(t).covers
  BY <1>0 DEF Covers, MadeBy
<1>6. Grows
  BY <1>1, <1>3, <1>5 DEF Grows
<1>7. Covers'
  BY <1>1, <1>2, <1>3, <1>4 DEF Covers
<1>8. Looked'
  BY <1>1, <1>6, GrowsKeeps DEF Looked, Current
<1>9. e \in Events \ Mails => Shown(e)'
  <2>1. CASE e \notin Mails /\ ~ticks[t].found
    BY <1>1, <1>3, <2>1 DEF Shown
  <2>2. CASE e \notin Mails /\ ticks[t].found
    <3>1. ticks[t].phase = "locked"
      BY <1>0, <1>1, <2>2 DEF Typed, Served
    <3>2. Found(e)
      BY <1>0, <2>2, <3>1 DEF Looked
    <3>. QED
      BY <1>1, <2>2, <3>2 DEF Found, Shown
  <2>. QED
    BY <2>1, <2>2
<1>10. SentIsShown'
  BY <1>1, <1>6, <1>9, GrowsKeeps DEF SentIsShown, Shown, Is
<1>. QED
  BY <1>7, <1>8, <1>10

\* Every step.
LEMMA ShownStep ==
    ASSUME Typed, Covers, Looked, SentIsShown, [Next]_vars
    PROVE  Covers' /\ Looked' /\ SentIsShown'
<1>0. notes' = notes => Grows
  BY DEF Grows
<1>1. ASSUME notes' = notes, events' = events,
             \A t \in Ticks : ticks'[t].phase = "locked" => ticks'[t] = ticks[t]
      PROVE  Covers' /\ Looked' /\ SentIsShown'
  BY <1>0, <1>1, NothingSent DEF Is, Born
<1>2. CASE UNCHANGED vars
  BY <1>1, <1>2 DEF vars
<1>3. ASSUME NEW x \in Origins, Draft(x) \/ Publish(x)
      PROVE  Covers' /\ Looked' /\ SentIsShown'
  <2>1. /\ \A e \in Events : events'[e].status \in {"drafted", "PENDING"} \/ events'[e] = events[e]
        /\ notes' = notes /\ ticks' = ticks
    BY <1>3, EnqueueTypes
  <2>. QED
    BY <1>0, <2>1, NothingSent DEF Is, Born
<1>4. ASSUME NEW t \in Ticks, TickRead(t) \/ Mail(t) \/ Skip(t) \/ RowFails(t) \/ TickDies(t)
      PROVE  Covers' /\ Looked' /\ SentIsShown'
  <2>1. UNCHANGED <<events, notes>>
    BY <1>4 DEF TickRead, Mail, Skip, RowFails, TickDies
  <2>2. \A u \in Ticks : ticks'[u].phase = "locked" => ticks'[u] = ticks[u]
    BY <1>4, ReadTypes, MailTypes, LetGoTypes
  <2>. QED
    BY <1>1, <2>1, <2>2
<1>5. ASSUME NEW t \in Ticks, Begin(t)
      PROVE  Covers' /\ Looked' /\ SentIsShown'
  <2>1. /\ ticks'[t].todo = ticks[t].todo
        /\ ticks'[t].found = (Current(t) \notin Mails /\ Found(Current(t)))
        /\ \A u \in Ticks : u # t => ticks'[u] = ticks[u]
        /\ events' = events /\ notes' = notes
    BY <1>5, BeginTypes DEF Begin
  <2>2. Current(t) \in Events
    BY <1>5, CurrentIsIn DEF Begin, Typed
  <2>3. \A u \in Ticks : Current(u)' = Current(u)
    BY <2>1 DEF Current
  <2>4. Looked'
    BY <2>1, <2>2, <2>3 DEF Looked, Found
  <2>5. Covers' /\ SentIsShown'
    BY <2>1 DEF Covers, SentIsShown, Is, Born
  <2>. QED
    BY <2>4, <2>5
<1>6. ASSUME NEW t \in Ticks, Refuse(t) \/ MarkFailed(t)
      PROVE  Covers' /\ Looked' /\ SentIsShown'
  <2>1. /\ Current(t) \in Events
        /\ events'[Current(t)].status \in {"PERMANENTLY_FAILED", "RETRYING"}
        /\ \A f \in Events : f # Current(t) => events'[f] = events[f]
        /\ ticks'[t].phase \in {"idle", "next"} /\ \A u \in Ticks : u # t => ticks'[u] = ticks[u]
        /\ notes' = notes
    BY <1>6, FailTypes
  <2>2. \A e \in Events : Is(e, "SENT")' => Is(e, "SENT")
    BY <2>1 DEF Is
  <2>3. \A e \in Events : Born(e) => Born(e)'
    BY <2>1 DEF Born, Is
  <2>4. \A u \in Ticks : ticks'[u].phase = "locked" => ticks'[u] = ticks[u]
    BY <2>1
  <2>. QED
    BY <1>0, <2>1, <2>2, <2>3, <2>4, NothingSent
<1>7. ASSUME NEW e \in Events, BackoffElapses(e)
      PROVE  Covers' /\ Looked' /\ SentIsShown'
  BY <1>1, <1>7 DEF BackoffElapses
<1>8. ASSUME NEW n \in Events \ Mails, Read(n)
      PROVE  Covers' /\ Looked' /\ SentIsShown'
  <2>1. /\ notes'[n].covers = notes[n].covers /\ notes'[n].place = notes[n].place
        /\ notes[n].place = "listed"
        /\ \A m \in Events \ Mails : m # n => notes'[m] = notes[m]
        /\ events' = events /\ ticks' = ticks
    BY <1>8 DEF Read, Typed, Types, Note
  <2>2. Grows
    BY <2>1 DEF Grows
  <2>. QED
    BY <2>1, <2>2, NothingSent DEF Is, Born
<1>9. ASSUME NEW n \in Events \ Mails, Purge(n)
      PROVE  Covers' /\ Looked' /\ SentIsShown'
  <2>1. /\ notes'[n].covers = notes[n].covers /\ notes'[n].place = "purged" /\ notes'[n].read
        /\ \A m \in Events \ Mails : m # n => notes'[m] = notes[m]
        /\ events' = events /\ ticks' = ticks
        /\ \A t \in Ticks : ticks[t].phase = "idle"
    BY <1>9 DEF Purge, Old, Typed, Types, Note
  <2>2. Looked'
    BY <2>1 DEF Looked
  <2>3. Covers'
    BY <2>1 DEF Covers, Born, Is
  <2>4. \A e \in Events : Shown(e) => Shown(e)'
    BY <2>1 DEF Shown
  <2>5. SentIsShown'
    BY <2>1, <2>4 DEF SentIsShown, Shown, Is
  <2>. QED
    BY <2>2, <2>3, <2>5
<1>. QED
  BY <1>2, <1>3, <1>4, <1>5, <1>6, <1>7, <1>8, <1>9, SentKeeps DEF Next, Serve

\* An in-app event that counts as sent has a notification of its subject that is not
\* older, in the list or read before it was purged (findDeliveredInAppNotification,
\* retention-purge.job.ts).
THEOREM SentMeansShown == Spec => []SentIsShown
<1>1. Init => Covers /\ Looked /\ SentIsShown
  BY IdleTickType DEF Init, Covers, Looked, SentIsShown, NoNote, Is
<1>2. Typed /\ Covers /\ Looked /\ SentIsShown /\ [Next]_vars => Covers' /\ Looked' /\ SentIsShown'
  BY ShownStep
<1>3. Typed <=> (Types /\ Served)
  BY DEF Typed
<1>. QED
  BY <1>1, <1>2, <1>3, DispatchTypes, PTL DEF Spec

(***************************************************************************)
(* E-mails that leave again                                                *)
(***************************************************************************)
\* The ticks that will mark a failure of the event, whatever it has become.
Marks(e) == {t \in Ticks : ticks[t].phase = "mark" /\ Current(t) = e}

At(e, phase) == \E t \in Ticks : ticks[t].phase = phase /\ Current(t) = e

\* One e-mail more may leave without anything else going wrong.
Due(e) ==
    IF (events[e].status \notin {"SENT", "PERMANENTLY_FAILED"} \/ At(e, "locked")) /\ ~At(e, "mailed")
    THEN 1 ELSE 0

\* A fault buys two e-mails at most: the one that is repeated and the one of its mark.
Budget == \A e \in Mails : mails[e] + Due(e) + Cardinality(Marks(e)) <= 1 + 2 * faults

\* The numbers of the budget.
LEMMA Numbers ==
    ASSUME Types, NEW e \in Mails
    PROVE  /\ mails[e] \in Nat /\ Due(e) \in {0, 1} /\ faults \in Nat
           /\ IsFiniteSet(Marks(e)) /\ Cardinality(Marks(e)) \in Nat
<1>1. IsFiniteSet(Marks(e))
  BY NotificationAssumption, FS_Subset DEF Marks
<1>. QED
  BY <1>1, FS_CardinalityType, NotificationAssumption DEF Types, Due

\* A tick on its own changes the marks of an event by one.
LEMMA MarksChange ==
    ASSUME Typed, Typed', NEW t \in Ticks, \A u \in Ticks : u # t => ticks'[u] = ticks[u],
           NEW e \in Mails
    PROVE  /\ Cardinality(Marks(e)') <= Cardinality(Marks(e)) + 1
           /\ ticks'[t].phase # "mark" =>
                 /\ Cardinality(Marks(e)') <= Cardinality(Marks(e))
                 /\ t \in Marks(e) => Cardinality(Marks(e)') <= Cardinality(Marks(e)) - 1
<1>. DEFINE M == Marks(e)
            N == Marks(e)'
<1>1. \A u \in Ticks : u # t => Current(u)' = Current(u)
  BY DEF Current
<1>2. N \subseteq M \cup {t} /\ (ticks'[t].phase # "mark" => N \subseteq M \ {t})
  BY <1>1 DEF Marks
<1>3. IsFiniteSet(M) /\ Cardinality(M) \in Nat
  BY Numbers DEF Typed
<1>. HIDE DEF M, N
<1>4. /\ IsFiniteSet(M \cup {t})
      /\ Cardinality(M \cup {t}) = Cardinality(M) \/ Cardinality(M \cup {t}) = Cardinality(M) + 1
  BY <1>3, FS_AddElement
<1>5. Cardinality(N) <= Cardinality(M) + 1
  <2>1. Cardinality(N) <= Cardinality(M \cup {t}) /\ IsFiniteSet(N)
    BY <1>2, <1>4, FS_Subset
  <2>2. Cardinality(N) \in Nat
    BY <2>1, FS_CardinalityType
  <2>. QED
    BY <1>3, <1>4, <2>1, <2>2
<1>6. ASSUME ticks'[t].phase # "mark"
      PROVE  /\ Cardinality(N) <= Cardinality(M)
             /\ t \in M => Cardinality(N) <= Cardinality(M) - 1
  <2>1. /\ IsFiniteSet(M \ {t})
        /\ Cardinality(M \ {t}) = IF t \in M THEN Cardinality(M) - 1 ELSE Cardinality(M)
    BY <1>3, FS_RemoveElement
  <2>2. IsFiniteSet(N) /\ Cardinality(N) <= Cardinality(M \ {t})
    BY <1>2, <1>6, <2>1, FS_Subset
  <2>3. Cardinality(N) \in Nat
    BY <2>2, FS_CardinalityType
  <2>. QED
    BY <1>3, <2>1, <2>2, <2>3
<1>. QED
  BY <1>5, <1>6 DEF M, N

\* A step that leaves the ticks alone, and no event unsettled that was settled.
LEMMA BudgetRests ==
    ASSUME Typed, Budget, UNCHANGED <<mails, ticks, faults>>,
           \A e \in Mails : events'[e].status \notin {"SENT", "PERMANENTLY_FAILED"} =>
              events[e].status \notin {"SENT", "PERMANENTLY_FAILED"}
    PROVE  Budget'
<1>1. ASSUME NEW e \in Mails
      PROVE  mails'[e] + Due(e)' + Cardinality(Marks(e)') <= 1 + 2 * faults'
  <2>1. Marks(e)' = Marks(e) /\ At(e, "locked")' = At(e, "locked") /\ At(e, "mailed")' = At(e, "mailed")
    BY DEF Marks, At, Current
  <2>2. Due(e)' <= Due(e) /\ Due(e)' \in {0, 1}
    BY <2>1 DEF Due
  <2>. QED
    BY <2>1, <2>2, Numbers DEF Typed, Budget
<1>. QED
  BY <1>1 DEF Budget

\* A step of a tick that costs a fault.
LEMMA BudgetOfFaults ==
    ASSUME Typed, Typed', Budget, NEW t \in Ticks, \A u \in Ticks : u # t => ticks'[u] = ticks[u],
           mails' = mails, faults' = faults + 1
    PROVE  Budget'
<1>1. ASSUME NEW e \in Mails
      PROVE  mails'[e] + Due(e)' + Cardinality(Marks(e)') <= 1 + 2 * faults'
  <2>1. Cardinality(Marks(e)') <= Cardinality(Marks(e)) + 1
    BY MarksChange
  <2>2. Due(e)' \in {0, 1} /\ Cardinality(Marks(e)') \in Nat
    <3>1. Due(e)' \in {0, 1}
      BY DEF Due
    <3>2. IsFiniteSet(Marks(e)')
      BY NotificationAssumption, FS_Subset DEF Marks
    <3>. QED
      BY <3>1, <3>2, FS_CardinalityType
  <2>3. mails[e] + Due(e) + Cardinality(Marks(e)) <= 1 + 2 * faults
    BY DEF Budget
  <2>. QED
    BY <2>1, <2>2, <2>3, Numbers DEF Typed
<1>. QED
  BY <1>1 DEF Budget

\* A step of a tick that leaves nothing more due.
LEMMA BudgetStays ==
    ASSUME Typed, Typed', Budget, NEW t \in Ticks, \A u \in Ticks : u # t => ticks'[u] = ticks[u],
           mails' = mails, faults' = faults, ticks'[t].phase # "mark",
           \A e \in Mails : Due(e)' <= Due(e) \/ (t \in Marks(e))
    PROVE  Budget'
<1>1. ASSUME NEW e \in Mails
      PROVE  mails'[e] + Due(e)' + Cardinality(Marks(e)') <= 1 + 2 * faults'
  <2>1. /\ Cardinality(Marks(e)') <= Cardinality(Marks(e))
        /\ t \in Marks(e) => Cardinality(Marks(e)') <= Cardinality(Marks(e)) - 1
    BY MarksChange
  <2>2. Due(e)' \in {0, 1} /\ Cardinality(Marks(e)') \in Nat
    <3>1. Due(e)' \in {0, 1}
      BY DEF Due
    <3>2. IsFiniteSet(Marks(e)')
      BY NotificationAssumption, FS_Subset DEF Marks
    <3>. QED
      BY <3>1, <3>2, FS_CardinalityType
  <2>3. mails[e] + Due(e) + Cardinality(Marks(e)) <= 1 + 2 * faults
    BY DEF Budget
  <2>. QED
    BY <2>1, <2>2, <2>3, Numbers DEF Typed
<1>. QED
  BY <1>1 DEF Budget

\* Where the ticks are, when one of them moves.
LEMMA Places ==
    ASSUME Typed, NEW t \in Ticks, \A u \in Ticks : u # t => ticks'[u] = ticks[u], NEW e \in Mails,
           NEW phase \in {"locked", "mailed"}
    PROVE  /\ At(e, phase)' => At(e, phase) \/ (ticks'[t].phase = phase /\ Current(t)' = e)
           /\ At(e, phase) => At(e, phase)' \/ (ticks[t].phase = phase /\ Current(t) = e)
BY DEF At, Current

\* One tick holds the lock, and with it the event.
LEMMA Alone ==
    ASSUME Typed, NEW e \in Mails, NEW t \in Ticks, ticks[t].phase \in {"locked", "mailed"}
    PROVE  \A phase \in {"locked", "mailed"} :
              At(e, phase) => ticks[t].phase = phase /\ Current(t) = e
BY DEF Typed, Served, At

\* The lock is taken, and the event is still waiting.
LEMMA BudgetBegin ==
    ASSUME Typed, Typed', Budget, NEW t \in Ticks, Begin(t)
    PROVE  Budget'
<1>1. /\ ticks'[t].phase = "locked" /\ ticks'[t].todo = ticks[t].todo
      /\ \A u \in Ticks : u # t => ticks'[u] = ticks[u]
      /\ events' = events /\ mails' = mails /\ faults' = faults
      /\ Eligible(Current(t)) /\ Current(t)' = Current(t)
  BY BeginTypes DEF Begin, Current
<1>2. ASSUME NEW e \in Mails
      PROVE  Due(e)' <= Due(e)
  <2>1. lock = Nobody
    BY DEF Begin, LockFree
  <2>2. ~At(e, "mailed") /\ ~At(e, "locked")
    BY <2>1, NotificationAssumption DEF At, Typed, Served
  <2>3. At(e, "locked")' => events[e].status \notin {"SENT", "PERMANENTLY_FAILED"}
    BY <1>1, <2>2, Places DEF Eligible, Waiting, Is
  <2>. QED
    BY <1>1, <2>2, <2>3 DEF Due
<1>. QED
  BY <1>1, <1>2, BudgetStays

\* The e-mail that was due leaves.
LEMMA BudgetMail ==
    ASSUME Typed, Typed', Budget, NEW t \in Ticks, Mail(t)
    PROVE  Budget'
<1>1. /\ ticks'[t].phase = "mailed" /\ ticks'[t].todo = ticks[t].todo
      /\ \A u \in Ticks : u # t => ticks'[u] = ticks[u]
      /\ mails'[Current(t)] = mails[Current(t)] + 1
      /\ \A e \in Mails : e # Current(t) => mails'[e] = mails[e]
      /\ ticks[t].phase = "locked" /\ events' = events /\ faults' = faults
      /\ Current(t)' = Current(t)
  BY MailTypes DEF Mail, Current
<1>2. ASSUME NEW e \in Mails
      PROVE  mails'[e] + Due(e)' + Cardinality(Marks(e)') <= 1 + 2 * faults'
  <2>1. Cardinality(Marks(e)') <= Cardinality(Marks(e)) /\ Cardinality(Marks(e)') \in Nat
    <3>1. IsFiniteSet(Marks(e)')
      BY NotificationAssumption, FS_Subset DEF Marks
    <3>. QED
      BY <1>1, <3>1, MarksChange, FS_CardinalityType
  <2>2. CASE e = Current(t)
    <3>1. At(e, "locked") /\ ~At(e, "mailed")
      BY <1>1, <2>2, Alone DEF At
    <3>2. At(e, "mailed")'
      BY <1>1, <2>2 DEF At
    <3>3. Due(e) = 1 /\ Due(e)' = 0
      BY <3>1, <3>2 DEF Due
    <3>. QED
      BY <1>1, <2>1, <2>2, <3>3, Numbers DEF Typed, Budget
  <2>3. CASE e # Current(t)
    <3>1. At(e, "locked")' = At(e, "locked") /\ At(e, "mailed")' = At(e, "mailed")
      BY <1>1, <2>3, Places DEF At
    <3>2. Due(e)' = Due(e)
      BY <1>1, <3>1 DEF Due
    <3>. QED
      BY <1>1, <2>1, <2>3, <3>2, Numbers DEF Typed, Budget
  <2>. QED
    BY <2>2, <2>3
<1>. QED
  BY <1>2 DEF Budget

\* The transaction commits.
LEMMA BudgetCommit ==
    ASSUME Typed, Typed', Budget, NEW t \in Ticks, Commit(t)
    PROVE  Budget'
<1>1. /\ ticks'[t].phase \in {"idle", "next"} /\ \A u \in Ticks : u # t => ticks'[u] = ticks[u]
      /\ mails' = mails /\ faults' = faults
      /\ ticks[t].phase \in {"locked", "mailed"}
      /\ events'[Current(t)].status = "SENT"
      /\ \A f \in Events : f # Current(t) => events'[f] = events[f]
  BY SentEffect, AdvanceEffect DEF Commit, Typed
<1>2. ASSUME NEW e \in Mails
      PROVE  Due(e)' <= Due(e)
  <2>1. ~At(e, "locked")' /\ ~At(e, "mailed")'
    <3>1. ticks'[t].phase \notin {"locked", "mailed"}
      BY <1>1
    <3>2. \A u \in Ticks : u # t => ticks'[u].phase \notin {"locked", "mailed"}
      BY <1>1 DEF Typed, Served
    <3>. QED
      BY <3>1, <3>2 DEF At
  <2>2. CASE e = Current(t)
    BY <1>1, <2>1, <2>2 DEF Due
  <2>3. CASE e # Current(t)
    <3>1. ~At(e, "mailed")
      BY <1>1, <2>3, Alone
    <3>2. e \in Events
      BY NotificationAssumption
    <3>. QED
      BY <1>1, <2>1, <2>3, <3>1, <3>2 DEF Due
  <2>. QED
    BY <2>2, <2>3
<1>. QED
  BY <1>1, <1>2, BudgetStays

\* An attempt fails: what was due stays due, or the mark is used up.
LEMMA BudgetFail ==
    ASSUME Typed, Typed', Budget, NEW t \in Ticks, Refuse(t) \/ MarkFailed(t)
    PROVE  Budget'
<1>1. /\ Current(t) \in Events /\ \A f \in Events : f # Current(t) => events'[f] = events[f]
      /\ ticks'[t].phase \in {"idle", "next"} /\ \A u \in Ticks : u # t => ticks'[u] = ticks[u]
      /\ UNCHANGED <<notes, mails, faults>>
      /\ ticks[t].phase \in {"locked", "mark"}
  BY FailTypes DEF Refuse, MarkFailed
<1>2. ASSUME NEW e \in Mails
      PROVE  Due(e)' <= Due(e) \/ t \in Marks(e)
  <2>0. e \in Events
    BY NotificationAssumption
  <2>1. CASE e = Current(t) /\ ticks[t].phase = "mark"
    BY <2>1 DEF Marks
  <2>2. CASE e = Current(t) /\ ticks[t].phase = "locked"
    <3>1. At(e, "locked") /\ ~At(e, "mailed")
      BY <1>1, <2>2, Alone DEF At
    <3>. QED
      BY <3>1 DEF Due
  <2>3. CASE e # Current(t)
    <3>1. At(e, "locked")' = At(e, "locked") /\ At(e, "mailed")' = At(e, "mailed")
      BY <1>1, <2>3, Places DEF At
    <3>. QED
      BY <1>1, <2>0, <2>3, <3>1 DEF Due
  <2>. QED
    BY <1>1, <2>1, <2>2, <2>3
<1>. QED
  BY <1>1, <1>2, BudgetStays

\* A batch is read, or an event passed over.
LEMMA BudgetOn ==
    ASSUME Typed, Typed', Budget, NEW t \in Ticks, TickRead(t) \/ Skip(t)
    PROVE  Budget'
<1>1. /\ ticks'[t].phase \in {"idle", "next"} /\ \A u \in Ticks : u # t => ticks'[u] = ticks[u]
      /\ events' = events /\ mails' = mails /\ faults' = faults
      /\ ticks[t].phase \in {"idle", "next"}
  <2>1. CASE TickRead(t)
    BY <2>1, ReadTypes DEF TickRead
  <2>2. CASE Skip(t)
    BY <2>2, AdvanceEffect DEF Skip, Typed
  <2>. QED
    BY <2>1, <2>2
<1>2. ASSUME NEW e \in Mails
      PROVE  Due(e)' <= Due(e)
  <2>1. At(e, "locked")' = At(e, "locked") /\ At(e, "mailed")' = At(e, "mailed")
    BY <1>1, Places DEF At
  <2>. QED
    BY <1>1, <2>1 DEF Due
<1>. QED
  BY <1>1, <1>2, BudgetStays

\* Every step.
LEMMA BudgetStep ==
    ASSUME Typed, Typed', Budget, [Next]_vars
    PROVE  Budget'
<1>1. CASE UNCHANGED vars
  BY <1>1, BudgetRests DEF vars
<1>2. ASSUME NEW x \in Origins, Draft(x) \/ Publish(x)
      PROVE  Budget'
  <2>1. /\ \A e \in Events : events'[e] = events[e] \/ ~Out(e)
        /\ UNCHANGED <<mails, ticks, faults>>
    BY <1>2, EnqueueTypes
  <2>2. Mails \subseteq Events
    BY NotificationAssumption
  <2>. QED
    BY <2>1, <2>2, BudgetRests DEF Out
<1>3. CASE (\E e \in Events : BackoffElapses(e)) \/ (\E n \in Events \ Mails : Read(n) \/ Purge(n))
  BY <1>3, BudgetRests DEF BackoffElapses, Read, Purge
<1>4. ASSUME NEW t \in Ticks, RowFails(t) \/ AnswerLost(t) \/ TickDies(t)
      PROVE  Budget'
  <2>1. \A u \in Ticks : u # t => ticks'[u] = ticks[u]
    BY <1>4, LetGoTypes, SentTypes
  <2>2. mails' = mails /\ faults' = faults + 1
    BY <1>4 DEF RowFails, AnswerLost, TickDies, Fault, Sent
  <2>. QED
    BY <2>1, <2>2, BudgetOfFaults
<1>. QED
  BY <1>1, <1>2, <1>3, <1>4, BudgetBegin, BudgetMail, BudgetCommit, BudgetFail, BudgetOn DEF Next, Serve

\* An e-mail leaves again at most twice for each exception, lost answer or crash, however
\* ticks overlap (dispatchEmailEvent, markFailedStandalone).
THEOREM RepeatsCostFaults == Spec => []RepeatsAreFaults
<1>1. Init => Budget
  <2>1. ASSUME Init, NEW e \in Mails
        PROVE  mails[e] + Due(e) + Cardinality(Marks(e)) <= 1 + 2 * faults
    <3>1. Marks(e) = {} /\ mails[e] = 0 /\ faults = 0
      BY <2>1, IdleTickType DEF Init, Marks
    <3>2. Due(e) \in {0, 1} /\ Cardinality(Marks(e)) = 0
      BY <3>1, FS_EmptySet DEF Due
    <3>. QED
      BY <3>1, <3>2
  <2>. QED
    BY <2>1 DEF Budget
<1>2. Typed /\ Typed' /\ Budget /\ [Next]_vars => Budget'
  BY BudgetStep
<1>3. Typed /\ Budget => RepeatsAreFaults
  <2>1. ASSUME Typed, Budget, NEW e \in Mails
        PROVE  Repeats(e) <= 2 * faults
    BY <2>1, Numbers DEF Typed, Budget, Repeats
  <2>. QED
    BY <2>1 DEF RepeatsAreFaults
<1>4. Typed <=> (Types /\ Served)
  BY DEF Typed
<1>. QED
  BY <1>1, <1>2, <1>3, <1>4, DispatchTypes, PTL DEF Spec

================================================================================
