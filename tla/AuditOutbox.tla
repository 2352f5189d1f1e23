------------------------------ MODULE AuditOutbox -------------------------------
(***************************************************************************)
(* The dispatcher of the audit outbox: a worker that copies the rows that  *)
(* business transactions left in audit_outbox into the append-only table   *)
(* audit_events, once each.                                                *)
(*                                                                         *)
(* A tick reads a batch of pending rows outside any transaction, then      *)
(* serves one row after the other, each in a transaction of its own under  *)
(* one advisory lock. setInterval starts a tick whether or not the last    *)
(* one has ended, and several workers can run, so ticks overlap. A tick    *)
(* that sees an error marks the row as failed, outside the lock and with   *)
(* the retry count it read at the start of its batch. The error may also   *)
(* mean that the answer to the commit was lost.                            *)
(***************************************************************************)
EXTENDS Integers, Sequences

CONSTANTS
    Rows,           \* the outbox rows, numbered in the order of created_at
    Ticks,          \* the ticks that can run at once
    Nobody,         \* no tick
    BatchSize,      \* rows a tick reads
    MaxRetries,     \* the failures after which a row is given up
    MaxFaults       \* bound for TLC: errors, lost answers and crashes

ASSUME OutboxAssumption ==
    /\ Rows \subseteq Nat
    /\ Nobody \notin Ticks
    /\ BatchSize \in Nat \ {0} /\ MaxRetries \in Nat \ {0} /\ MaxFaults \in Nat

VARIABLES
    outbox,   \* audit_outbox: status and retry count of each row
    events,   \* audit_events, in the order of insertion: the source of each
    ticks,    \* what each tick has still to serve and what it has read
    lock,     \* the tick that holds the advisory lock
    faults    \* the errors so far

vars == <<outbox, events, ticks, lock, faults>>

OutboxRow == [status : {"unpublished", "PENDING", "SENT", "FAILED", "PERMANENTLY_FAILED"},
              retries : Nat]

Tick == [phase : {"idle", "next", "locked", "mark"},
         todo : Seq([row : Rows, retries : Nat]), found : BOOLEAN]

IdleTick == [phase |-> "idle", todo |-> <<>>, found |-> FALSE]

TypeOK ==
    /\ outbox \in [Rows -> OutboxRow]
    /\ events \in Seq(Rows)
    /\ ticks \in [Ticks -> Tick]
    /\ lock \in Ticks \cup {Nobody}
    /\ faults \in 0..MaxFaults

Current(t) == Head(ticks[t].todo).row

Copied(r) == \E i \in DOMAIN events : events[i] = r

Go(t, phase) == ticks' = [ticks EXCEPT ![t].phase = phase]

\* On to the next row of the batch.
Advance(t) ==
    LET rest == Tail(ticks[t].todo)
    IN  ticks' = [ticks EXCEPT ![t] =
            IF rest = <<>> THEN IdleTick
            ELSE [phase |-> "next", todo |-> rest, found |-> FALSE]]

Abandon(t) == ticks' = [ticks EXCEPT ![t] = IdleTick]

Release(t) == lock' = IF lock = t THEN Nobody ELSE lock

(***************************************************************************)
(* Publishing: the row commits with the business transaction               *)
(***************************************************************************)
Publish(r) ==
    /\ outbox[r].status = "unpublished"
    /\ outbox' = [outbox EXCEPT ![r].status = "PENDING"]
    /\ UNCHANGED <<events, ticks, lock, faults>>

(***************************************************************************)
(* A tick                                                                  *)
(***************************************************************************)
\* Mutant: the batch is not narrowed to the pending rows.
AnyRows == {r \in Rows : outbox[r].status # "unpublished"}

PendingRows == {r \in Rows : outbox[r].status = "PENDING"}

\* The batch of processPendingBatch: the oldest pending rows, in their order.
IsBatch(q) ==
    /\ \A i, j \in DOMAIN q : i < j => q[i] < q[j]
    /\ \A r \in PendingRows : (\A i \in DOMAIN q : q[i] # r) =>
          Len(q) = BatchSize /\ \A i \in DOMAIN q : q[i] < r

TickRead(t) ==
    /\ ticks[t].phase = "idle"
    /\ \E n \in 1..BatchSize : \E q \in [1..n -> PendingRows] :
          /\ IsBatch(q)
          /\ ticks' = [ticks EXCEPT ![t] =
                 [phase |-> "next", found |-> FALSE,
                  todo |-> [i \in 1..n |-> [row |-> q[i], retries |-> outbox[q[i]].retries]]]]
    /\ UNCHANGED <<outbox, events, lock, faults>>

\* Mutant: no advisory lock.
NoLock(t) == TRUE

LockFree(t) == lock = Nobody

\* dispatchSingle: the lock, the row read again, and the look for its event.
Begin(t) ==
    /\ ticks[t].phase = "next"
    /\ LockFree(t)
    /\ outbox[Current(t)].status = "PENDING"
    /\ lock' = t
    /\ ticks' = [ticks EXCEPT ![t].phase = "locked",
                              ![t].found = Copied(Current(t))]
    /\ UNCHANGED <<outbox, events, faults>>

Skip(t) ==
    /\ ticks[t].phase = "next"
    /\ LockFree(t)
    /\ outbox[Current(t)].status # "PENDING"
    /\ Advance(t)
    /\ UNCHANGED <<outbox, events, lock, faults>>

\* dispatchOutboxRecord: the event, unless it is there, and the row SENT.
Dispatch(t) ==
    /\ ticks[t].phase = "locked"
    /\ events' = IF ticks[t].found THEN events ELSE Append(events, Current(t))
    /\ outbox' = [outbox EXCEPT ![Current(t)].status = "SENT"]
    /\ Release(t)

Commit(t) == Dispatch(t) /\ Advance(t) /\ UNCHANGED faults

\* Mutant: the mark of a row that can be tried again.
MarkRetrying(t) ==
    /\ ticks[t].phase = "mark"
    /\ outbox' = [outbox EXCEPT ![Current(t)] =
           [status |-> "RETRYING", retries |-> Head(ticks[t].todo).retries + 1]]
    /\ Advance(t)
    /\ UNCHANGED <<events, lock, faults>>

\* markFailedStandalone: whatever the row has become, with the count read before.
MarkFailed(t) ==
    LET retries == Head(ticks[t].todo).retries + 1
    IN  /\ ticks[t].phase = "mark"
        /\ outbox' = [outbox EXCEPT ![Current(t)] =
               [status |-> IF retries >= MaxRetries THEN "PERMANENTLY_FAILED" ELSE "FAILED",
                retries |-> retries]]
        /\ Advance(t)
        /\ UNCHANGED <<events, lock, faults>>

(***************************************************************************)
(* Errors                                                                  *)
(***************************************************************************)
Fault == faults < MaxFaults /\ faults' = faults + 1

\* The transaction of a row fails and rolls back.
RowFails(t) ==
    /\ Fault
    /\ ticks[t].phase \in {"next", "locked"}
    /\ Go(t, "mark") /\ Release(t)
    /\ UNCHANGED <<outbox, events>>

\* The transaction commits and the worker does not hear of it.
AnswerLost(t) == Fault /\ Dispatch(t) /\ Go(t, "mark")

\* The mark fails too, which ends the batch; or the worker dies.
TickDies(t) ==
    /\ Fault
    /\ ticks[t].phase # "idle"
    /\ Abandon(t) /\ Release(t)
    /\ UNCHANGED <<outbox, events>>

(***************************************************************************)
(* Specification                                                           *)
(***************************************************************************)
Init ==
    /\ outbox = [r \in Rows |-> [status |-> "unpublished", retries |-> 0]]
    /\ events = <<>>
    /\ ticks = [t \in Ticks |-> IdleTick]
    /\ lock = Nobody
    /\ faults = 0

Step(t) == TickRead(t) \/ Begin(t) \/ Skip(t) \/ Commit(t) \/ MarkFailed(t)

Next ==
    \/ \E r \in Rows : Publish(r)
    \/ \E t \in Ticks : Step(t) \/ RowFails(t) \/ AnswerLost(t) \/ TickDies(t)

Spec == Init /\ [][Next]_vars

\* The timer starts ticks for ever, a tick that runs goes on, and the lock is
\* granted in the order in which it was asked for.
FairSpec == Spec /\ \A t \in Ticks : SF_vars(Step(t))

(***************************************************************************)
(* Properties                                                              *)
(***************************************************************************)
\* A row is copied at most once, however ticks overlap, die, or lose the answer to
\* their commit; a row marked SENT has its event, and a row still to be served has
\* none (audit-outbox-dispatch.job.ts, dispatchSingle and dispatchOutboxRecord).
CopiedOnce ==
    /\ \A i, j \in DOMAIN events : events[i] = events[j] => i = j
    /\ \A r \in Rows :
          /\ outbox[r].status = "SENT" => Copied(r)
          /\ outbox[r].status \in {"unpublished", "PENDING"} => ~Copied(r)

\* A published row is decided: it does not wait for ever behind the rows of a batch
\* that is served before it, nor behind the lock of a tick that died
\* (processPendingBatch, main.ts tick). Decided is not delivered: a row that
\* fails once is not read again.
EveryRowIsDecided == \A r \in Rows : outbox[r].status = "PENDING" ~> outbox[r].status # "PENDING"

================================================================================
