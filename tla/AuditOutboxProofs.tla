---------------------------- MODULE AuditOutboxProofs ----------------------------
(***************************************************************************)
(* Theorems about the dispatcher of the audit outbox, for every number of  *)
(* rows, ticks and errors, and every batch size.                           *)
(*                                                                         *)
(* The invariant that carries them is Serving: the tick that holds the     *)
(* lock serves a row without an event. The look for an event at the start  *)
(* of a transaction stays true to its end, although the status of the row  *)
(* does not: only the holder of the lock inserts events.                   *)
(***************************************************************************)
EXTENDS AuditChain, SequenceTheorems, TLAPS

Item == [row : Rows, retries : Nat]

\* What a tick at work has to do, and what it still knows of its row.
Serving(t) ==
    /\ ticks[t].phase # "idle" => ticks[t].todo # <<>>
    /\ ticks[t].phase = "locked" => lock = t /\ ~Copied(Current(t)) /\ ~ticks[t].found

IInv == TypeOK /\ CopiedOnce /\ \A t \in Ticks : Serving(t)

(***************************************************************************)
(* Types of what a tick has to do                                          *)
(***************************************************************************)
\* A tick without work has the declared type.
LEMMA IdleTickType == IdleTick \in Tick
BY DEF IdleTick, Tick

\* The row a tick serves is a row of the outbox, with the count that was read.
LEMMA CurrentType ==
    ASSUME TypeOK, NEW t \in Ticks, ticks[t].todo # <<>>
    PROVE  Current(t) \in Rows /\ Head(ticks[t].todo).retries \in Nat
<1>1. ticks[t].todo \in Seq(Item)
  BY DEF TypeOK, Tick, Item
<1>2. Head(ticks[t].todo) \in Item
  BY <1>1, HeadTailProperties
<1>. QED
  BY <1>2 DEF Current, Item

\* A tick that goes on has a next row, or none and is idle.
LEMMA AdvanceType ==
    ASSUME TypeOK, NEW t \in Ticks, ticks[t].todo # <<>>, Advance(t)
    PROVE  /\ ticks' \in [Ticks -> Tick]
           /\ \A u \in Ticks \ {t} : ticks'[u] = ticks[u]
           /\ ticks'[t].phase \in {"idle", "next"}
           /\ ticks'[t].phase = "next" => ticks'[t].todo # <<>>
<1>. DEFINE rest == Tail(ticks[t].todo)
            going == [phase |-> "next", todo |-> rest, found |-> FALSE]
<1>1. rest \in Seq(Item)
  BY HeadTailProperties DEF TypeOK, Tick, Item
<1>2. going \in Tick
  BY <1>1 DEF Tick, Item
<1>3. ticks' = [ticks EXCEPT ![t] = IF rest = <<>> THEN IdleTick ELSE going]
  BY DEF Advance
<1>4. IdleTick.phase = "idle" /\ going.phase = "next" /\ going.todo = rest
  BY DEF IdleTick
<1>. HIDE DEF rest, going
<1>. QED
  BY <1>2, <1>3, <1>4, IdleTickType DEF TypeOK

\* A step that inserts no event and takes no row back to be served keeps what is
\* known of the rows, if it leaves alone the tick that holds the lock, or ends it.
LEMMA QuietStep ==
    ASSUME IInv, NEW t \in Ticks, events' = events, TypeOK',
           \A r \in Rows : \/ outbox'[r] = outbox[r]
                           \/ outbox'[r].status \in {"FAILED", "PERMANENTLY_FAILED"},
           \A u \in Ticks \ {t} : ticks'[u] = ticks[u],
           Release(t) \/ UNCHANGED lock,
           Serving(t)'
    PROVE  IInv'
<1>1. CopiedOnce'
  BY DEF IInv, CopiedOnce, Copied
<1>2. ASSUME NEW u \in Ticks \ {t}
      PROVE  Serving(u)'
  <2>1. Serving(u)
    BY DEF IInv
  <2>2. lock = u => lock' = u
    BY DEF Release
  <2>. QED
    BY <2>1, <2>2 DEF Serving, Copied, Current
<1>. QED
  BY <1>1, <1>2 DEF IInv

(***************************************************************************)
(* The steps                                                               *)
(***************************************************************************)
\* A row is published.
LEMMA PublishStep ==
    ASSUME IInv, NEW r \in Rows, Publish(r)
    PROVE  IInv'
<1>1. outbox' = [outbox EXCEPT ![r].status = "PENDING"] /\ outbox[r].status = "unpublished"
      /\ events' = events /\ ticks' = ticks /\ lock' = lock /\ faults' = faults
  BY DEF Publish
<1>2. TypeOK'
  BY <1>1 DEF IInv, TypeOK, OutboxRow
<1>3. CopiedOnce'
  BY <1>1 DEF IInv, TypeOK, OutboxRow, CopiedOnce, Copied
<1>4. ASSUME NEW t \in Ticks PROVE Serving(t)'
  BY <1>1 DEF IInv, Serving, Copied, Current
<1>. QED
  BY <1>2, <1>3, <1>4 DEF IInv

\* A tick reads its batch.
LEMMA TickReadStep ==
    ASSUME IInv, NEW t \in Ticks, TickRead(t)
    PROVE  IInv'
<1>1. PICK n \in 1..BatchSize : \E q \in [1..n -> PendingRows] :
        ticks' = [ticks EXCEPT ![t] =
           [phase |-> "next", found |-> FALSE,
            todo |-> [i \in 1..n |-> [row |-> q[i], retries |-> outbox[q[i]].retries]]]]
  BY DEF TickRead
<1>2. PICK q \in [1..n -> PendingRows] :
        ticks' = [ticks EXCEPT ![t] =
           [phase |-> "next", found |-> FALSE,
            todo |-> [i \in 1..n |-> [row |-> q[i], retries |-> outbox[q[i]].retries]]]]
  BY <1>1
<1>. DEFINE todo == [i \in 1..n |-> [row |-> q[i], retries |-> outbox[q[i]].retries]]
            going == [phase |-> "next", found |-> FALSE, todo |-> todo]
<1>3. outbox' = outbox /\ events' = events /\ lock' = lock /\ faults' = faults
  BY DEF TickRead
<1>4. n \in Nat \ {0}
  BY OutboxAssumption
<1>5. todo \in Seq(Item) /\ todo # <<>>
  <2>1. \A i \in 1..n : [row |-> q[i], retries |-> outbox[q[i]].retries] \in Item
    BY DEF Item, PendingRows, IInv, TypeOK, OutboxRow
  <2>2. todo \in Seq(Item)
    BY <1>4, <2>1
  <2>3. Len(todo) = n
    BY <1>4, <2>2
  <2>. QED
    BY <1>4, <2>2, <2>3
<1>6. ticks' = [ticks EXCEPT ![t] = going]
  BY <1>2
<1>. HIDE DEF todo
<1>7. going \in Tick
  BY <1>5 DEF Tick, Item
<1>8. going.phase = "next" /\ going.todo = todo
  OBVIOUS
<1>. HIDE DEF going
<1>9. ticks' \in [Ticks -> Tick] /\ ticks'[t] = going
      /\ \A u \in Ticks \ {t} : ticks'[u] = ticks[u]
  BY <1>6, <1>7 DEF IInv, TypeOK
<1>10. TypeOK'
  BY <1>3, <1>9 DEF IInv, TypeOK
<1>11. Serving(t)'
  BY <1>5, <1>8, <1>9 DEF Serving
<1>. QED
  BY <1>3, <1>9, <1>10, <1>11, QuietStep

\* A tick takes the lock and reads its row again.
LEMMA BeginStep ==
    ASSUME IInv, NEW t \in Ticks, Begin(t)
    PROVE  IInv'
<1>. DEFINE c == Current(t)
<1>1. /\ ticks[t].phase = "next" /\ lock = Nobody /\ outbox[c].status = "PENDING"
      /\ lock' = t /\ outbox' = outbox /\ events' = events /\ faults' = faults
      /\ ticks' = [ticks EXCEPT ![t].phase = "locked", ![t].found = Copied(c)]
  BY DEF Begin, LockFree
<1>2. ticks[t].todo # <<>> /\ c \in Rows
  BY <1>1, CurrentType DEF IInv, Serving
<1>3. ~Copied(c)
  BY <1>1, <1>2 DEF IInv, CopiedOnce
<1>4. ticks' = [ticks EXCEPT ![t].phase = "locked", ![t].found = FALSE]
  <2>1. Copied(c) = FALSE
    BY <1>3 DEF Copied
  <2>. QED
    BY <1>1, <2>1, Zenon
<1>. HIDE DEF c
<1>5. ticks' \in [Ticks -> Tick]
  BY <1>4 DEF IInv, TypeOK, Tick
<1>6. /\ ticks'[t].phase = "locked" /\ ticks'[t].todo = ticks[t].todo
      /\ ticks'[t].found = FALSE
      /\ \A u \in Ticks \ {t} : ticks'[u] = ticks[u]
  BY <1>4 DEF IInv, TypeOK, Tick
<1>7. TypeOK'
  BY <1>1, <1>5 DEF IInv, TypeOK
<1>8. CopiedOnce'
  BY <1>1 DEF IInv, CopiedOnce, Copied
<1>9. Serving(t)'
  BY <1>1, <1>2, <1>3, <1>6 DEF Serving, Copied, Current, c
<1>10. ASSUME NEW u \in Ticks \ {t}
       PROVE  Serving(u)'
  <2>1. ticks[u].phase # "locked"
    BY <1>1, OutboxAssumption DEF IInv, Serving
  <2>. QED
    BY <1>6, <2>1 DEF IInv, Serving
<1>. QED
  BY <1>7, <1>8, <1>9, <1>10 DEF IInv

\* A tick passes over a row that is no longer pending.
LEMMA SkipStep ==
    ASSUME IInv, NEW t \in Ticks, Skip(t)
    PROVE  IInv'
<1>1. /\ ticks[t].phase = "next" /\ Advance(t)
      /\ outbox' = outbox /\ events' = events /\ lock' = lock /\ faults' = faults
  BY DEF Skip
<1>2. ticks[t].todo # <<>>
  BY <1>1 DEF IInv, Serving
<1>3. /\ ticks' \in [Ticks -> Tick]
      /\ \A u \in Ticks \ {t} : ticks'[u] = ticks[u]
      /\ ticks'[t].phase \in {"idle", "next"}
      /\ ticks'[t].phase = "next" => ticks'[t].todo # <<>>
  BY <1>1, <1>2, AdvanceType DEF IInv
<1>4. TypeOK'
  BY <1>1, <1>3 DEF IInv, TypeOK
<1>5. Serving(t)'
  BY <1>3 DEF Serving
<1>. QED
  BY <1>1, <1>3, <1>4, <1>5, QuietStep

\* The holder of the lock inserts the event of a row that has none.
LEMMA DispatchStep ==
    ASSUME IInv, NEW t \in Ticks, Dispatch(t)
    PROVE  /\ ticks[t].todo # <<>>
           /\ outbox' \in [Rows -> OutboxRow] /\ events' \in Seq(Rows)
           /\ lock' \in Ticks \cup {Nobody}
           /\ CopiedOnce'
           /\ \A u \in Ticks \ {t} : ticks[u].phase # "locked"
<1>. DEFINE c == Current(t)
<1>1. /\ ticks[t].phase = "locked" /\ Release(t)
      /\ events' = IF ticks[t].found THEN events ELSE Append(events, c)
      /\ outbox' = [outbox EXCEPT ![c].status = "SENT"]
  BY DEF Dispatch
<1>2. lock = t /\ ~Copied(c) /\ ~ticks[t].found /\ ticks[t].todo # <<>>
  BY <1>1 DEF IInv, Serving
<1>3. c \in Rows /\ events' = Append(events, c)
  BY <1>1, <1>2, CurrentType DEF IInv
<1>4. events \in Seq(Rows)
  BY DEF IInv, TypeOK
<1>5. ASSUME NEW u \in Ticks \ {t} PROVE ticks[u].phase # "locked"
  BY <1>2 DEF IInv, Serving
<1>. HIDE DEF c
<1>6. outbox' \in [Rows -> OutboxRow]
  BY <1>1, <1>3 DEF IInv, TypeOK, OutboxRow
<1>7. lock' \in Ticks \cup {Nobody}
  BY <1>1 DEF Release, IInv, TypeOK
<1>8. /\ events' \in Seq(Rows) /\ Len(events') = Len(events) + 1
      /\ events'[Len(events) + 1] = c
      /\ \A i \in 1..Len(events) : events'[i] = events[i]
  BY <1>3, <1>4, AppendProperties
<1>9. \A i \in 1..Len(events) : events[i] # c
  BY <1>2, <1>4 DEF Copied
<1>10. \A i, j \in DOMAIN events' : events'[i] = events'[j] => i = j
  <2>1. \A i, j \in 1..Len(events) : events[i] = events[j] => i = j
    BY <1>4 DEF IInv, CopiedOnce
  <2>2. DOMAIN events' = 1..(Len(events) + 1) /\ Len(events) \in Nat
    BY <1>4, <1>8
  <2>. QED
    BY <1>8, <1>9, <2>1, <2>2
<1>11. ASSUME NEW r \in Rows
       PROVE  Copied(r)' <=> Copied(r) \/ r = c
  BY <1>4, <1>8 DEF Copied
<1>12. ASSUME NEW r \in Rows
       PROVE  /\ outbox'[r].status = "SENT" => Copied(r)'
              /\ outbox'[r].status \in {"unpublished", "PENDING"} => ~Copied(r)'
  <2>1. CASE r = c
    BY <1>1, <1>3, <1>11, <2>1 DEF IInv, TypeOK, OutboxRow
  <2>2. CASE r # c
    BY <1>1, <1>3, <1>11, <2>2 DEF IInv, TypeOK, OutboxRow, CopiedOnce
  <2>. QED
    BY <2>1, <2>2
<1>13. CopiedOnce'
  BY <1>10, <1>12 DEF CopiedOnce
<1>. QED
  BY <1>2, <1>5, <1>6, <1>7, <1>8, <1>13

\* A row is dispatched.
LEMMA CommitStep ==
    ASSUME IInv, NEW t \in Ticks, Commit(t)
    PROVE  IInv'
<1>1. Dispatch(t) /\ Advance(t) /\ faults' = faults
  BY DEF Commit
<1>2. /\ ticks[t].todo # <<>> /\ CopiedOnce'
      /\ \A u \in Ticks \ {t} : ticks[u].phase # "locked"
  BY <1>1, DispatchStep
<1>3. /\ ticks' \in [Ticks -> Tick]
      /\ \A u \in Ticks \ {t} : ticks'[u] = ticks[u]
      /\ ticks'[t].phase \in {"idle", "next"}
      /\ ticks'[t].phase = "next" => ticks'[t].todo # <<>>
  BY <1>1, <1>2, AdvanceType DEF IInv
<1>4. TypeOK'
  BY <1>1, <1>3, DispatchStep DEF IInv, TypeOK
<1>5. \A u \in Ticks : Serving(u)'
  BY <1>2, <1>3 DEF IInv, Serving
<1>. QED
  BY <1>2, <1>4, <1>5 DEF IInv

\* A row is dispatched, and the answer is lost.
LEMMA AnswerLostStep ==
    ASSUME IInv, NEW t \in Ticks, AnswerLost(t)
    PROVE  IInv'
<1>1. Dispatch(t) /\ Go(t, "mark") /\ Fault
  BY DEF AnswerLost
<1>2. /\ ticks[t].todo # <<>> /\ CopiedOnce'
      /\ \A u \in Ticks \ {t} : ticks[u].phase # "locked"
  BY <1>1, DispatchStep
<1>3. /\ ticks' \in [Ticks -> Tick]
      /\ \A u \in Ticks \ {t} : ticks'[u] = ticks[u]
      /\ ticks'[t].phase = "mark" /\ ticks'[t].todo = ticks[t].todo
  BY <1>1 DEF Go, IInv, TypeOK, Tick
<1>4. faults' \in 0..MaxFaults
  BY <1>1, OutboxAssumption DEF Fault, IInv, TypeOK
<1>5. TypeOK'
  BY <1>1, <1>3, <1>4, DispatchStep DEF TypeOK
<1>6. \A u \in Ticks : Serving(u)'
  BY <1>2, <1>3 DEF IInv, Serving
<1>. QED
  BY <1>2, <1>5, <1>6 DEF IInv

\* A row is marked, whatever its status.
LEMMA MarkFailedStep ==
    ASSUME IInv, NEW t \in Ticks, MarkFailed(t)
    PROVE  IInv'
<1>. DEFINE c == Current(t)
            retries == Head(ticks[t].todo).retries + 1
            row == [status |-> IF retries >= MaxRetries THEN "PERMANENTLY_FAILED" ELSE "FAILED",
                    retries |-> retries]
<1>1. /\ ticks[t].phase = "mark" /\ Advance(t) /\ outbox' = [outbox EXCEPT ![c] = row]
      /\ events' = events /\ lock' = lock /\ faults' = faults
  BY DEF MarkFailed
<1>2. ticks[t].todo # <<>>
  BY <1>1 DEF IInv, Serving
<1>3. c \in Rows /\ retries \in Nat
  BY <1>2, CurrentType DEF IInv
<1>. HIDE DEF c, retries
<1>4. row \in OutboxRow /\ row.status \in {"FAILED", "PERMANENTLY_FAILED"}
  BY <1>3 DEF OutboxRow
<1>. HIDE DEF row
<1>5. /\ outbox' \in [Rows -> OutboxRow]
      /\ \A r \in Rows : \/ outbox'[r] = outbox[r]
                        \/ outbox'[r].status \in {"FAILED", "PERMANENTLY_FAILED"}
  BY <1>1, <1>4 DEF IInv, TypeOK
<1>6. /\ ticks' \in [Ticks -> Tick]
      /\ \A u \in Ticks \ {t} : ticks'[u] = ticks[u]
      /\ ticks'[t].phase \in {"idle", "next"}
      /\ ticks'[t].phase = "next" => ticks'[t].todo # <<>>
  BY <1>1, <1>2, AdvanceType DEF IInv
<1>7. TypeOK'
  BY <1>1, <1>5, <1>6 DEF IInv, TypeOK
<1>8. Serving(t)'
  BY <1>6 DEF Serving
<1>. QED
  BY <1>1, <1>5, <1>6, <1>7, <1>8, QuietStep

\* The transaction of a row rolls back.
LEMMA RowFailsStep ==
    ASSUME IInv, NEW t \in Ticks, RowFails(t)
    PROVE  IInv'
<1>1. /\ ticks[t].phase \in {"next", "locked"} /\ Go(t, "mark") /\ Release(t) /\ Fault
      /\ outbox' = outbox /\ events' = events
  BY DEF RowFails
<1>2. /\ ticks' \in [Ticks -> Tick]
      /\ \A u \in Ticks \ {t} : ticks'[u] = ticks[u]
      /\ ticks'[t].phase = "mark" /\ ticks'[t].todo = ticks[t].todo
  BY <1>1 DEF Go, IInv, TypeOK, Tick
<1>3. faults' \in 0..MaxFaults
  BY <1>1, OutboxAssumption DEF Fault, IInv, TypeOK
<1>4. lock' \in Ticks \cup {Nobody}
  BY <1>1 DEF Release, IInv, TypeOK
<1>5. TypeOK'
  BY <1>1, <1>2, <1>3, <1>4 DEF IInv, TypeOK
<1>6. Serving(t)'
  BY <1>1, <1>2 DEF IInv, Serving
<1>. QED
  BY <1>1, <1>2, <1>5, <1>6, QuietStep

\* A tick ends before its batch does.
LEMMA TickDiesStep ==
    ASSUME IInv, NEW t \in Ticks, TickDies(t)
    PROVE  IInv'
<1>1. /\ Abandon(t) /\ Release(t) /\ Fault /\ outbox' = outbox /\ events' = events
  BY DEF TickDies
<1>2. /\ ticks' \in [Ticks -> Tick]
      /\ \A u \in Ticks \ {t} : ticks'[u] = ticks[u]
      /\ ticks'[t].phase = "idle"
  BY <1>1, IdleTickType DEF Abandon, IdleTick, IInv, TypeOK
<1>3. faults' \in 0..MaxFaults
  BY <1>1, OutboxAssumption DEF Fault, IInv, TypeOK
<1>4. lock' \in Ticks \cup {Nobody}
  BY <1>1 DEF Release, IInv, TypeOK
<1>5. TypeOK'
  BY <1>1, <1>2, <1>3, <1>4 DEF IInv, TypeOK
<1>6. Serving(t)'
  BY <1>2 DEF Serving
<1>. QED
  BY <1>1, <1>2, <1>5, <1>6, QuietStep

(***************************************************************************)
(* The invariant holds                                                     *)
(***************************************************************************)
\* No row is published and no tick runs at the beginning.
LEMMA InitHolds == Init => IInv
<1>. SUFFICES ASSUME Init PROVE IInv
  OBVIOUS
<1>1. TypeOK
  BY IdleTickType, OutboxAssumption DEF Init, TypeOK, OutboxRow
<1>2. CopiedOnce
  BY DEF Init, CopiedOnce, Copied
<1>3. \A t \in Ticks : Serving(t)
  BY DEF Init, Serving, IdleTick
<1>. QED
  BY <1>1, <1>2, <1>3 DEF IInv

\* Every step keeps the invariant.
LEMMA NextHolds == IInv /\ [Next]_vars => IInv'
<1>. SUFFICES ASSUME IInv, [Next]_vars PROVE IInv'
  OBVIOUS
<1>1. ASSUME NEW r \in Rows, Publish(r) PROVE IInv'
  BY <1>1, PublishStep
<1>2. ASSUME NEW t \in Ticks, Step(t) PROVE IInv'
  BY <1>2, TickReadStep, BeginStep, SkipStep, CommitStep, MarkFailedStep DEF Step
<1>3. ASSUME NEW t \in Ticks, RowFails(t) \/ AnswerLost(t) \/ TickDies(t) PROVE IInv'
  BY <1>3, RowFailsStep, AnswerLostStep, TickDiesStep
<1>4. CASE UNCHANGED vars
  BY <1>4 DEF vars, IInv, TypeOK, CopiedOnce, Copied, Serving, Current
<1>. QED
  BY <1>1, <1>2, <1>3, <1>4 DEF Next

\* The tick that holds the lock serves a row that has no event yet, and goes on to
\* do so until it inserts it (dispatchSingle under pg_advisory_xact_lock).
THEOREM HolderServesUncopiedRow == Spec => []IInv
BY InitHolds, NextHolds, PTL DEF Spec

\* The tables and the ticks of the dispatcher have the declared types.
THEOREM OutboxTypeCorrect == Spec => []TypeOK
<1>1. IInv => TypeOK
  BY DEF IInv
<1>. QED
  BY <1>1, HolderServesUncopiedRow, PTL

\* No row of the outbox is copied twice into the audit trail, a row marked as sent is
\* there, and a row that still waits is not.
THEOREM AuditedOnce == Spec => []CopiedOnce
<1>1. IInv => CopiedOnce
  BY DEF IInv
<1>. QED
  BY <1>1, HolderServesUncopiedRow, PTL

(***************************************************************************)
(* The chain                                                               *)
(*                                                                         *)
(* The trail grows at its end only: the key of an event is above those of  *)
(* all events before it (Grown), because the tick that has made a key      *)
(* holds the lock (Stamped), so nobody inserts before it does.             *)
(***************************************************************************)
Grown ==
    \A i \in DOMAIN chain :
        /\ chain[i].prev = IF i = 1 THEN 0 ELSE chain[i - 1].key
        /\ \A j \in DOMAIN chain : i < j => chain[i].key < chain[j].key

Stamped ==
    \A t \in Ticks : stamp[t] # 0 =>
        ticks[t].phase = "locked" /\ \A i \in DOMAIN chain : chain[i].key < stamp[t]

CInv == IInv /\ KeysOK /\ Grown /\ Stamped

\* What a sequence over a set has.
LEMMA SeqParts ==
    ASSUME NEW S, NEW s \in Seq(S)
    PROVE  Len(s) \in Nat /\ DOMAIN s = 1..Len(s) /\ \A i \in 1..Len(s) : s[i] \in S
OBVIOUS

\* A sequence over a set is one over a larger set.
LEMMA SeqWiden ==
    ASSUME NEW S, NEW T, S \subseteq T, NEW s \in Seq(S)
    PROVE  s \in Seq(T)
<1>1. s = [i \in 1..Len(s) |-> s[i]] /\ Len(s) \in Nat /\ \A i \in 1..Len(s) : s[i] \in T
  OBVIOUS
<1>. QED
  BY <1>1

\* The keys of the chain are positive numbers up to the clock.
LEMMA KeyTypes ==
    ASSUME KeysOK
    PROVE  /\ Len(chain) \in Nat /\ DOMAIN chain = 1..Len(chain)
           /\ \A i \in DOMAIN chain : chain[i] \in [key : 1..clock, prev : 0..clock]
           /\ Keys \subseteq 1..clock /\ clock \in Nat
<1>1. chain \in Seq([key : 1..clock, prev : 0..clock]) /\ clock \in Nat
  BY DEF KeysOK
<1>2. /\ Len(chain) \in Nat /\ DOMAIN chain = 1..Len(chain)
      /\ \A i \in 1..Len(chain) : chain[i] \in [key : 1..clock, prev : 0..clock]
  <2>. DEFINE E == [key : 1..clock, prev : 0..clock]
  <2>1. chain \in Seq(E)
    BY <1>1
  <2>. HIDE DEF E
  <2>2. /\ Len(chain) \in Nat /\ DOMAIN chain = 1..Len(chain)
        /\ \A i \in 1..Len(chain) : chain[i] \in E
    BY <2>1, SeqParts
  <2>. QED
    BY <2>2 DEF E
<1>. QED
  BY <1>1, <1>2 DEF Keys

\* The trigger finds the event inserted last.
LEMMA NewestIsLast ==
    ASSUME KeysOK, Grown
    PROVE  Newest = IF Len(chain) = 0 THEN 0 ELSE chain[Len(chain)].key
<1>. DEFINE last == IF Len(chain) = 0 THEN 0 ELSE chain[Len(chain)].key
<1>1. last \in Keys \cup {0} /\ \A j \in Keys : j <= last
  <2>1. CASE Len(chain) = 0
    BY <2>1, KeyTypes DEF Keys
  <2>2. CASE Len(chain) # 0
    <3>1. Len(chain) \in DOMAIN chain
      BY <2>2, KeyTypes
    <3>2. \A i \in DOMAIN chain : chain[i].key <= chain[Len(chain)].key
      BY <3>1, KeyTypes DEF Grown
    <3>. QED
      BY <2>2, <3>1, <3>2 DEF Keys
  <2>. QED
    BY <2>1, <2>2
<1>2. last \in Nat /\ Keys \subseteq Nat
  BY <1>1, KeyTypes
<1>3. \A k \in Keys \cup {0} : (\A j \in Keys : j <= k) => k = last
  BY <1>1, <1>2
<1>. HIDE DEF last
<1>4. Newest = last
  BY <1>1, <1>3 DEF Newest
<1>. QED
  BY <1>4 DEF last

\* The verifier, too, meets the events in the order of their insertion.
LEMMA WalkIsOrder ==
    ASSUME KeysOK, Grown
    PROVE  ChainVerifies
<1>. SUFFICES ASSUME NEW i \in DOMAIN chain
              PROVE  chain[i].prev = Preceding(chain[i].key)
  BY DEF ChainVerifies
<1>. DEFINE k == chain[i].key
            p == IF i = 1 THEN 0 ELSE chain[i - 1].key
<1>1. i \in Nat /\ i >= 1 /\ k \in Nat /\ k >= 1 /\ Keys \subseteq Nat
  BY KeyTypes
<1>2. p \in Keys \cup {0} /\ p < k
  <2>1. CASE i = 1
    BY <1>1, <2>1
  <2>2. CASE i # 1
    <3>1. i - 1 \in DOMAIN chain /\ i - 1 < i
      BY <1>1, <2>2, KeyTypes
    <3>. QED
      BY <2>2, <3>1 DEF Grown, Keys
  <2>. QED
    BY <2>1, <2>2
<1>3. ASSUME NEW m \in Keys, m < k PROVE m <= p
  <2>1. PICK j \in DOMAIN chain : m = chain[j].key
    BY DEF Keys
  <2>2. j \in Nat /\ j < i
    <3>1. j \in Nat /\ m \in Nat
      BY <1>1, <2>1, KeyTypes
    <3>2. j = i => m = k
      BY <2>1
    <3>3. j > i => k < m
      BY <2>1 DEF Grown
    <3>. QED
      BY <1>1, <1>3, <3>1, <3>2, <3>3
  <2>3. CASE j = i - 1
    BY <1>1, <2>1, <2>2, <2>3, KeyTypes
  <2>4. CASE j < i - 1
    <3>1. i - 1 \in DOMAIN chain /\ i # 1
      BY <1>1, <2>2, <2>4, KeyTypes
    <3>2. chain[j].key < chain[i - 1].key
      BY <2>4, <3>1 DEF Grown
    <3>. QED
      BY <1>1, <2>1, <3>1, <3>2, KeyTypes
  <2>. QED
    BY <1>1, <2>2, <2>3, <2>4
<1>4. chain[i].prev = p
  BY DEF Grown
<1>. HIDE DEF p, k
<1>5. p \in Nat
  BY <1>1, <1>2
<1>6. \A q \in Keys \cup {0} : q < k /\ (\A m \in Keys : m < k => m <= q) => q = p
  BY <1>1, <1>2, <1>3, <1>5
<1>7. Preceding(k) = p
  BY <1>2, <1>3, <1>6 DEF Preceding
<1>. QED
  BY <1>4, <1>7 DEF k

\* A tick leaves the others where they are.
LEMMA OthersStay ==
    ASSUME IInv, NEW t \in Ticks, Step(t) \/ RowFails(t) \/ AnswerLost(t) \/ TickDies(t)
    PROVE  \A u \in Ticks \ {t} : ticks'[u] = ticks[u]
<1>1. CASE TickRead(t)
  BY <1>1 DEF TickRead, IInv, TypeOK
<1>2. CASE Begin(t)
  BY <1>2 DEF Begin, IInv, TypeOK
<1>3. CASE Skip(t) \/ Commit(t) \/ MarkFailed(t)
  BY <1>3 DEF Skip, Commit, MarkFailed, Advance, IInv, TypeOK
<1>4. CASE RowFails(t) \/ AnswerLost(t)
  BY <1>4 DEF RowFails, AnswerLost, Go, IInv, TypeOK
<1>5. CASE TickDies(t)
  BY <1>5 DEF TickDies, Abandon, IInv, TypeOK
<1>. QED
  BY <1>1, <1>2, <1>3, <1>4, <1>5 DEF Step

\* A step that inserts nothing keeps the chain and the keys of the other ticks.
LEMMA NoLinkKeeps ==
    ASSUME CInv, NEW t \in Ticks, NoLink(t), \A u \in Ticks \ {t} : ticks'[u] = ticks[u]
    PROVE  KeysOK' /\ Grown' /\ Stamped'
<1>1. chain' = chain /\ clock' = clock /\ stamp' = [stamp EXCEPT ![t] = 0]
  BY DEF NoLink
<1>2. stamp \in [Ticks -> 0..clock] /\ clock \in Nat
  BY DEF CInv, KeysOK
<1>3. stamp' \in [Ticks -> 0..clock'] /\ stamp'[t] = 0
      /\ \A u \in Ticks \ {t} : stamp'[u] = stamp[u]
  BY <1>1, <1>2
<1>. QED
  BY <1>1, <1>3 DEF CInv, KeysOK, Grown, Stamped

\* A key is made above all others, by the tick that holds the lock.
LEMMA MakeKeyKeeps ==
    ASSUME CInv, NEW t \in Ticks, MakeKey(t)
    PROVE  KeysOK' /\ Grown' /\ Stamped'
<1>1. /\ ticks[t].phase = "locked" /\ clock' = clock + 1 /\ chain' = chain /\ ticks' = ticks
      /\ stamp' = [stamp EXCEPT ![t] = clock + 1]
  BY DEF MakeKey
<1>2. /\ stamp \in [Ticks -> 0..clock] /\ clock \in Nat
      /\ chain \in Seq([key : 1..clock, prev : 0..clock])
  BY DEF CInv, KeysOK
<1>3. /\ stamp' \in [Ticks -> 0..clock'] /\ stamp'[t] = clock + 1
      /\ \A u \in Ticks \ {t} : stamp'[u] = stamp[u]
  BY <1>1, <1>2
<1>4. chain' \in Seq([key : 1..clock', prev : 0..clock'])
  <2>. DEFINE E == [key : 1..clock, prev : 0..clock]
              F == [key : 1..clock', prev : 0..clock']
  <2>1. 1..clock \subseteq 1..clock' /\ 0..clock \subseteq 0..clock'
    BY <1>1, <1>2
  <2>2. E \subseteq F
    BY <2>1
  <2>3. chain \in Seq(E)
    BY <1>2
  <2>. HIDE DEF E, F
  <2>4. chain' \in Seq(F)
    BY <1>1, <2>2, <2>3, SeqWiden
  <2>. QED
    BY <2>4 DEF F
<1>5. \A i \in DOMAIN chain : chain[i].key < clock + 1
  BY <1>2, KeyTypes DEF CInv
<1>. QED
  BY <1>1, <1>2, <1>3, <1>4, <1>5 DEF CInv, KeysOK, Grown, Stamped

\* The holder of the lock appends its event to the chain.
LEMMA LinkKeeps ==
    ASSUME CInv, NEW t \in Ticks, Dispatch(t), Link(t),
           \A u \in Ticks \ {t} : ticks'[u] = ticks[u]
    PROVE  KeysOK' /\ Grown' /\ Stamped'
<1>. DEFINE n == Len(chain)
            e == [key |-> stamp[t], prev |-> Newest]
<1>1. ~ticks[t].found /\ \A u \in Ticks \ {t} : ticks[u].phase # "locked"
  BY DispatchStep DEF CInv, IInv, Serving, Dispatch
<1>2. /\ stamp[t] # 0 /\ chain' = Append(chain, e) /\ clock' = clock
      /\ stamp' = [stamp EXCEPT ![t] = 0]
  BY <1>1 DEF Link
<1>3. /\ stamp \in [Ticks -> 0..clock] /\ clock \in Nat /\ n \in Nat
      /\ chain \in Seq([key : 1..clock, prev : 0..clock]) /\ DOMAIN chain = 1..n
  BY KeyTypes DEF CInv, KeysOK
<1>4. Newest = IF n = 0 THEN 0 ELSE chain[n].key
  BY NewestIsLast DEF CInv
<1>5. stamp[t] \in 1..clock /\ Newest \in 0..clock
  <2>1. n # 0 => chain[n].key \in 1..clock
    BY <1>3, KeyTypes DEF CInv
  <2>. QED
    BY <1>2, <1>3, <1>4, <2>1
<1>6. e \in [key : 1..clock, prev : 0..clock]
  BY <1>5
<1>7. /\ chain' \in Seq([key : 1..clock, prev : 0..clock]) /\ Len(chain') = n + 1
      /\ chain'[n + 1] = e /\ \A i \in 1..n : chain'[i] = chain[i]
  BY <1>2, <1>3, <1>6, AppendProperties
<1>8. DOMAIN chain' = 1..(n + 1)
  BY <1>3, <1>7
<1>9. e.key = stamp[t] /\ e.prev = Newest
  OBVIOUS
<1>10. \A i \in 1..n : chain[i].key < stamp[t]
  BY <1>2, <1>3 DEF CInv, Stamped
<1>. HIDE DEF e, n
<1>11. KeysOK'
  BY <1>2, <1>3, <1>7 DEF KeysOK
<1>12. Grown'
  <2>1. ASSUME NEW i \in 1..(n + 1)
        PROVE  /\ chain'[i].prev = IF i = 1 THEN 0 ELSE chain'[i - 1].key
               /\ \A j \in 1..(n + 1) : i < j => chain'[i].key < chain'[j].key
    <3>1. CASE i = n + 1
      BY <1>3, <1>4, <1>7, <1>9, <3>1
    <3>2. CASE i \in 1..n
      <4>1. chain'[i] = chain[i] /\ (i # 1 => chain'[i - 1] = chain[i - 1])
        BY <1>3, <1>7, <3>2
      <4>2. chain[i].prev = IF i = 1 THEN 0 ELSE chain[i - 1].key
        BY <1>3, <3>2 DEF CInv, Grown
      <4>3. ASSUME NEW j \in 1..(n + 1), i < j
            PROVE  chain'[i].key < chain'[j].key
        <5>1. CASE j = n + 1
          BY <1>7, <1>9, <1>10, <3>2, <5>1
        <5>2. CASE j \in 1..n
          BY <1>3, <1>7, <3>2, <4>3, <5>2 DEF CInv, Grown
        <5>. QED
          BY <1>3, <5>1, <5>2
      <4>. QED
        BY <4>1, <4>2, <4>3
    <3>. QED
      BY <1>3, <3>1, <3>2
  <2>. QED
    BY <1>8, <2>1 DEF Grown
<1>13. Stamped'
  <2>1. \A u \in Ticks : stamp'[u] = 0
    BY <1>1, <1>2, <1>3 DEF CInv, Stamped
  <2>. QED
    BY <2>1 DEF Stamped
<1>. QED
  BY <1>11, <1>12, <1>13

\* The dispatcher with its chain takes the steps of the dispatcher.
LEMMA ChainImplements ==
    ASSUME [ChainNext]_chainVars
    PROVE  [Next]_vars
BY DEF ChainNext, ChainStep, MakeKey, chainVars, Next, Step, vars

\* The trail is empty at the beginning.
LEMMA ChainInitHolds == ChainInit => CInv
<1>. SUFFICES ASSUME ChainInit PROVE CInv
  OBVIOUS
<1>1. IInv
  BY InitHolds DEF ChainInit
<1>2. KeysOK /\ Grown /\ Stamped
  BY DEF ChainInit, KeysOK, Grown, Stamped
<1>. QED
  BY <1>1, <1>2 DEF CInv

\* Every step keeps the chain.
LEMMA ChainNextHolds == CInv /\ [ChainNext]_chainVars => CInv'
<1>. SUFFICES ASSUME CInv, [ChainNext]_chainVars PROVE CInv'
  OBVIOUS
<1>1. IInv'
  BY ChainImplements, NextHolds DEF CInv
<1>2. ASSUME NEW t \in Ticks, MakeKey(t) PROVE CInv'
  BY <1>1, <1>2, MakeKeyKeeps DEF CInv
<1>3. ASSUME NEW t \in Ticks, Commit(t) \/ AnswerLost(t), Link(t) PROVE CInv'
  <2>1. Dispatch(t) /\ \A u \in Ticks \ {t} : ticks'[u] = ticks[u]
    BY <1>3, OthersStay DEF CInv, Step, Commit, AnswerLost
  <2>. QED
    BY <1>1, <1>3, <2>1, LinkKeeps DEF CInv
<1>4. ASSUME NEW t \in Ticks, NoLink(t),
             TickRead(t) \/ Begin(t) \/ Skip(t) \/ MarkFailed(t) \/ RowFails(t) \/ TickDies(t)
      PROVE  CInv'
  <2>1. \A u \in Ticks \ {t} : ticks'[u] = ticks[u]
    BY <1>4, OthersStay DEF CInv, Step
  <2>. QED
    BY <1>1, <1>4, <2>1, NoLinkKeeps DEF CInv
<1>5. ASSUME UNCHANGED <<chain, clock, stamp, ticks>> PROVE CInv'
  BY <1>1, <1>5 DEF CInv, KeysOK, Grown, Stamped
<1>6. ASSUME NEW r \in Rows, Publish(r), UNCHANGED <<chain, clock, stamp>> PROVE CInv'
  BY <1>5, <1>6 DEF Publish
<1>. QED
  BY <1>2, <1>3, <1>4, <1>5, <1>6 DEF ChainNext, ChainStep, chainVars

\* The verifier never finds the chain of the audit trail broken: events are linked in
\* the order of their keys, for any number of rows, ticks and errors.
THEOREM ChainUnbroken == ChainSpec => []ChainVerifies
<1>1. CInv => ChainVerifies
  BY WalkIsOrder DEF CInv
<1>. QED
  BY <1>1, ChainInitHolds, ChainNextHolds, PTL DEF ChainSpec

\* The outbox, the ticks, the chain, the clock and the keys have their types, in every
\* behaviour of the dispatcher with the trigger.
THEOREM ChainTypes == ChainSpec => []ChainTypeOK
<1>1. CInv => ChainTypeOK
  BY DEF CInv, IInv, ChainTypeOK
<1>. QED
  BY <1>1, ChainInitHolds, ChainNextHolds, PTL DEF ChainSpec

================================================================================
