-------------------------- MODULE NotificationDispatch --------------------------
(***************************************************************************)
(* Notifications from the transaction that enqueues an event to the row in *)
(* the recipient's list, or to the e-mail.                                 *)
(*                                                                         *)
(* A tick of the worker takes the oldest events that are pending or to be  *)
(* retried, drops those whose backoff runs, and serves the rest one by one *)
(* in transactions under one advisory lock. An e-mail is sent inside that  *)
(* transaction. An in-app event whose recipient already has a notification *)
(* of the same subject, not older than the event, counts as delivered. A   *)
(* failure the code foresees is marked in the transaction; an exception is *)
(* marked afterwards, outside the lock, with the retry count that the      *)
(* batch had read. The recipient reads notifications, and a job deletes    *)
(* those that are read and old.                                            *)
(***************************************************************************)
EXTENDS Integers, FiniteSets

CONSTANTS
    Events,         \* notification_events, numbered in the order of created_at
    Mails,          \* those with channel EMAIL; the others are IN_APP
    Origins,        \* the business transactions that enqueue, numbered in their order
    OriginOf,       \* the one of each event
    SubjectOf,      \* recipient, template, case and task of an event
    Ticks,          \* the ticks that can run at once
    Nobody,         \* no tick
    BatchSize,      \* events a tick serves
    WindowSize,     \* events a tick looks at: four batches
    MaxRetries,     \* the failures after which an event is given up
    MaxFaults       \* bound for TLC: exceptions, lost answers and crashes

ASSUME NotificationAssumption ==
    /\ Events \subseteq Nat /\ Mails \subseteq Events
    /\ Origins \subseteq Nat /\ OriginOf \in [Events -> Origins]
    /\ IsFiniteSet(Ticks) /\ Nobody \notin Ticks
    /\ BatchSize \in Nat \ {0} /\ WindowSize \in Nat /\ WindowSize >= BatchSize
    /\ MaxRetries \in Nat \ {0} /\ MaxFaults \in Nat

VARIABLES
    events,   \* notification_events: status and retry count
    cold,     \* the events to be retried whose backoff still runs
    notes,    \* notifications: the one an event created, and the events it covers
    mails,    \* how often an event's e-mail has left
    ticks,    \* what each tick has still to serve and what it has read
    lock,     \* the tick that holds the advisory lock
    faults    \* the exceptions, lost answers and crashes so far

vars == <<events, cold, notes, mails, ticks, lock, faults>>

Statuses == {"unborn", "drafted", "PENDING", "RETRYING", "SENT", "PERMANENTLY_FAILED"}

Note == [place : {"none", "listed", "purged"}, read : BOOLEAN, covers : SUBSET Events]

NoNote == [place |-> "none", read |-> FALSE, covers |-> {}]

IdleTick == [phase |-> "idle", todo |-> <<>>, found |-> FALSE]

TypeOK ==
    /\ events \in [Events -> [status : Statuses, retries : Nat]]
    /\ cold \subseteq Events
    /\ notes \in [Events \ Mails -> Note]
    /\ mails \in [Mails -> Nat]
    /\ \A t \in Ticks :
          /\ ticks[t].phase \in {"idle", "next", "locked", "mailed", "mark"}
          /\ DOMAIN ticks[t].todo \subseteq Events
          /\ ticks[t].phase # "idle" => DOMAIN ticks[t].todo # {}
          /\ \A e \in DOMAIN ticks[t].todo : ticks[t].todo[e] \in Nat
          /\ ticks[t].found \in BOOLEAN
    /\ lock \in Ticks \cup {Nobody}
    /\ faults \in 0..MaxFaults

Is(e, status) == events[e].status = status

\* The event the tick serves: the oldest of its batch.
Current(t) == CHOOSE e \in DOMAIN ticks[t].todo : \A f \in DOMAIN ticks[t].todo : e <= f

Go(t, phase) == ticks' = [ticks EXCEPT ![t].phase = phase]

Abandon(t) == ticks' = [ticks EXCEPT ![t] = IdleTick]

\* On to the next event of the batch.
Advance(t) ==
    LET rest == DOMAIN ticks[t].todo \ {Current(t)}
    IN  IF rest = {} THEN Abandon(t)
        ELSE ticks' = [ticks EXCEPT ![t] =
                 [phase |-> "next", todo |-> [e \in rest |-> ticks[t].todo[e]], found |-> FALSE]]

Release(t) == lock' = IF lock = t THEN Nobody ELSE lock

Oldest(n, S) == {e \in S : Cardinality({f \in S : f < e}) < n}

\* An attempt fails after `retries` others: the event is given up, or waits its backoff.
Fails(e, retries) ==
    LET givenUp == retries + 1 >= MaxRetries
    IN  /\ events' = [events EXCEPT ![e] =
               [status |-> IF givenUp THEN "PERMANENTLY_FAILED" ELSE "RETRYING",
                retries |-> retries + 1]]
        /\ cold' = IF givenUp THEN cold \ {e} ELSE cold \cup {e}

(***************************************************************************)
(* Enqueueing: created_at is taken before the transaction commits          *)
(***************************************************************************)
Born(e) == ~Is(e, "unborn")

EventsOf(x) == {e \in Events : OriginOf[e] = x}

Draft(x) ==
    /\ \E e \in EventsOf(x) : ~Born(e)
    /\ \A f \in Events : OriginOf[f] < x => Born(f)
    /\ events' = [e \in Events |->
           IF e \in EventsOf(x) THEN [events[e] EXCEPT !.status = "drafted"] ELSE events[e]]
    /\ UNCHANGED <<cold, notes, mails, ticks, lock, faults>>

\* The business transaction commits, later perhaps than one that began after it.
Publish(x) ==
    /\ \E e \in EventsOf(x) : Is(e, "drafted")
    /\ events' = [e \in Events |->
           IF e \in EventsOf(x) THEN [events[e] EXCEPT !.status = "PENDING"] ELSE events[e]]
    /\ UNCHANGED <<cold, notes, mails, ticks, lock, faults>>

(***************************************************************************)
(* A tick                                                                  *)
(***************************************************************************)
\* isEligibleForDispatch, and the query's condition, which leaves out the clock.
Waiting(e) == Is(e, "PENDING") \/ (Is(e, "RETRYING") /\ events[e].retries < MaxRetries)

Eligible(e) == Is(e, "PENDING") \/ (Waiting(e) /\ e \notin cold)

\* processPendingBatch: outside any transaction.
TickRead(t) ==
    LET batch == Oldest(BatchSize, {e \in Oldest(WindowSize, {f \in Events : Waiting(f)}) : Eligible(e)})
    IN  /\ ticks[t].phase = "idle"
        /\ batch # {}
        /\ ticks' = [ticks EXCEPT ![t] =
               [phase |-> "next", todo |-> [e \in batch |-> events[e].retries], found |-> FALSE]]
        /\ UNCHANGED <<events, cold, notes, mails, lock, faults>>

\* Mutant: no advisory lock.
NoLock(t) == TRUE

LockFree(t) == lock = Nobody

\* Mutant: a notification of the subject counts however old it is.
FoundAnyAge(e) ==
    \E n \in Events \ Mails :
       notes[n].place = "listed" /\ SubjectOf[n] = SubjectOf[e]

\* findDeliveredInAppNotification: a notification of the subject, not older than the
\* event.
Found(e) ==
    \E n \in Events \ Mails : notes[n].place = "listed" /\ e \in notes[n].covers

\* dispatchSingle: the lock, the event read again, the look for its notification.
Begin(t) ==
    /\ ticks[t].phase = "next"
    /\ LockFree(t)
    /\ Eligible(Current(t))
    /\ lock' = t
    /\ ticks' = [ticks EXCEPT ![t].phase = "locked",
                     ![t].found = Current(t) \notin Mails /\ Found(Current(t))]
    /\ UNCHANGED <<events, cold, notes, mails, faults>>

Skip(t) ==
    /\ ticks[t].phase = "next"
    /\ LockFree(t)
    /\ ~Eligible(Current(t))
    /\ Advance(t)
    /\ UNCHANGED <<events, cold, notes, mails, lock, faults>>

\* The e-mail leaves: what follows can roll the transaction back, not the e-mail.
Mail(t) ==
    /\ ticks[t].phase = "locked" /\ Current(t) \in Mails
    /\ Go(t, "mailed")
    /\ mails' = [mails EXCEPT ![Current(t)] = @ + 1]
    /\ UNCHANGED <<events, cold, notes, lock, faults>>

\* The event is SENT: by the e-mail, by the notification that was found, or by a new one,
\* which is older than the events that are not born yet.
Sent(t) ==
    LET e == Current(t)
        covered == {f \in Events \ Mails : Born(f) /\ SubjectOf[f] = SubjectOf[e]}
    IN  /\ ticks[t].phase = "mailed" \/ (ticks[t].phase = "locked" /\ e \notin Mails)
        /\ events' = [events EXCEPT ![e].status = "SENT"]
        /\ cold' = cold \ {e}
        /\ notes' = IF ticks[t].found \/ e \in Mails THEN notes
                    ELSE [notes EXCEPT ![e] =
                              [place |-> "listed", read |-> FALSE, covers |-> covered]]
        /\ Release(t)
        /\ UNCHANGED mails

Commit(t) == Sent(t) /\ Advance(t) /\ UNCHANGED faults

\* Mutant: an attempt that fails is always followed by another.
RefuseForEver(t) ==
    /\ ticks[t].phase = "locked" /\ ~ticks[t].found
    /\ events' = [events EXCEPT ![Current(t)].status = "RETRYING"]
    /\ cold' = cold \cup {Current(t)}
    /\ Release(t) /\ Advance(t)
    /\ UNCHANGED <<notes, mails, faults>>

\* markFailedInTransaction: the template is switched off or of another channel, the
\* recipient has no address or is inactive, the relay is not configured. Any of these
\* can differ from one attempt to the next.
Refuse(t) ==
    /\ ticks[t].phase = "locked" /\ ~ticks[t].found
    /\ Fails(Current(t), events[Current(t)].retries)
    /\ Release(t) /\ Advance(t)
    /\ UNCHANGED <<notes, mails, faults>>

\* markFailedStandalone: whatever the event has become, with the count read before.
MarkFailed(t) ==
    /\ ticks[t].phase = "mark"
    /\ Fails(Current(t), ticks[t].todo[Current(t)])
    /\ Advance(t)
    /\ UNCHANGED <<notes, mails, lock, faults>>

BackoffElapses(e) ==
    /\ e \in cold
    /\ cold' = cold \ {e}
    /\ UNCHANGED <<events, notes, mails, ticks, lock, faults>>

(***************************************************************************)
(* Errors                                                                  *)
(***************************************************************************)
Fault == faults < MaxFaults /\ faults' = faults + 1

\* The relay or the database throws, or the transaction takes too long: it is rolled
\* back, the e-mail is not.
RowFails(t) ==
    /\ Fault
    /\ ticks[t].phase \in {"next", "locked", "mailed"}
    /\ Go(t, "mark") /\ Release(t)
    /\ UNCHANGED <<events, cold, notes, mails>>

\* The transaction commits and the worker does not hear of it.
AnswerLost(t) == Fault /\ Sent(t) /\ Go(t, "mark")

\* The mark fails too, which ends the batch; or the worker dies.
TickDies(t) ==
    /\ Fault
    /\ ticks[t].phase # "idle"
    /\ Abandon(t) /\ Release(t)
    /\ UNCHANGED <<events, cold, notes, mails>>

(***************************************************************************)
(* The recipient and the retention job                                     *)
(***************************************************************************)
\* markNotificationRead, markAllNotificationsRead.
Read(n) ==
    /\ notes[n].place = "listed" /\ ~notes[n].read
    /\ notes' = [notes EXCEPT ![n].read = TRUE]
    /\ UNCHANGED <<events, cold, mails, ticks, lock, faults>>

\* The months after which a notification is old are longer than all the attempts to
\* deliver the events it covers.
Old(n) ==
    /\ notes[n].place = "listed"
    /\ \A e \in notes[n].covers : events[e].status \in {"SENT", "PERMANENTLY_FAILED"}
    /\ \A t \in Ticks : ticks[t].phase = "idle"

\* The retention job. Nothing makes a notification unread again, so that the candidates
\* are still such when they are deleted.
Purge(n) ==
    /\ Old(n) /\ notes[n].read
    /\ notes' = [notes EXCEPT ![n].place = "purged"]
    /\ UNCHANGED <<events, cold, mails, ticks, lock, faults>>

(***************************************************************************)
(* Specification                                                           *)
(***************************************************************************)
Init ==
    /\ events = [e \in Events |-> [status |-> "unborn", retries |-> 0]]
    /\ cold = {}
    /\ notes = [e \in Events \ Mails |-> NoNote]
    /\ mails = [e \in Mails |-> 0]
    /\ ticks = [t \in Ticks |-> IdleTick]
    /\ lock = Nobody
    /\ faults = 0

Serve(t) == Begin(t) \/ Skip(t) \/ Mail(t) \/ Commit(t) \/ Refuse(t) \/ MarkFailed(t)

Next ==
    \/ \E x \in Origins : Draft(x) \/ Publish(x)
    \/ \E e \in Events : BackoffElapses(e)
    \/ \E t \in Ticks : TickRead(t) \/ Serve(t) \/ RowFails(t) \/ AnswerLost(t) \/ TickDies(t)
    \/ \E n \in Events \ Mails : Read(n) \/ Purge(n)

Spec == Init /\ [][Next]_vars

\* The timer starts ticks for ever, a tick that runs goes on, the lock is granted in
\* the order in which it was asked for, and time passes.
FairSpec ==
    /\ Spec
    /\ \A t \in Ticks : SF_vars(TickRead(t) \/ Serve(t))
    /\ WF_vars(\E e \in Events : BackoffElapses(e))

(***************************************************************************)
(* Properties                                                              *)
(***************************************************************************)
\* An in-app event that counts as sent is shown: the recipient has a notification of
\* its subject that is not older than the event, or read it before the retention job
\* deleted it. The look for a notification made for another event does not swallow
\* one (findDeliveredInAppNotification), nor does the purge (retention-purge.job.ts).
SentIsShown ==
    \A e \in Events \ Mails : Is(e, "SENT") =>
       \E n \in Events \ Mails :
          /\ e \in notes[n].covers
          /\ notes[n].place = "listed" \/ (notes[n].place = "purged" /\ notes[n].read)

Repeats(e) == IF mails[e] > 1 THEN mails[e] - 1 ELSE 0

\* An e-mail leaves again only because of exceptions, lost answers or crashes, and at
\* most twice for each: once because the transaction that sent it is rolled back, and
\* once because the mark comes so late that it brings back the event that another tick
\* has sent meanwhile. Overlapping ticks alone repeat none (dispatchEmailEvent,
\* markFailedStandalone).
RepeatsAreFaults == \A e \in Mails : Repeats(e) <= 2 * faults

\* Every event ends SENT or given up, although events in their backoff take the window
\* from younger ones and a late mark can bring a sent event back
\* (processPendingBatch, isEligibleForDispatch).
EventsSettle ==
    \A e \in Events : Waiting(e) ~> events[e].status \in {"SENT", "PERMANENTLY_FAILED"}

================================================================================
