------------------------------- MODULE AuditChain --------------------------------
(***************************************************************************)
(* The hash chain of the audit trail: the dispatcher of AuditOutbox with   *)
(* what a trigger of the database and the verifier of the worker make of   *)
(* each event it inserts.                                                  *)
(*                                                                         *)
(* The trail is ordered by (created_at, id), the key of an event. Both     *)
(* parts are filled in by the Prisma client of the worker when it builds   *)
(* the INSERT, before the statement reaches the database; the trigger then *)
(* links the event to the one with the greatest key at that moment. The    *)
(* verifier walks the trail in the order of the keys and compares each     *)
(* prev_hash with the hash of the event before. An event is known by its   *)
(* key, and its hash stands for the event: hashes do not collide.          *)
(*                                                                         *)
(* There is one worker, hence one clock: a key made later is greater       *)
(* (the millisecond, then the counter in the cuid).                        *)
(***************************************************************************)
EXTENDS AuditOutbox

VARIABLES
    chain,   \* audit_events in the order of insertion: the key and prev_hash of each
    clock,   \* the last key the worker has made
    stamp    \* the key of the event that a tick is about to insert; 0 if it has none

chainVars == <<outbox, events, ticks, lock, faults, chain, clock, stamp>>

KeysOK ==
    /\ clock \in Nat
    /\ chain \in Seq([key : 1..clock, prev : 0..clock])
    /\ stamp \in [Ticks -> 0..clock]

ChainTypeOK == TypeOK /\ KeysOK

Keys == {chain[i].key : i \in DOMAIN chain}

(***************************************************************************)
(* The steps                                                               *)
(***************************************************************************)
\* auditEvent.create: the client fills in created_at and id.
MakeKey(t) ==
    /\ ticks[t].phase = "locked" /\ ~ticks[t].found /\ stamp[t] = 0
    /\ clock' = clock + 1
    /\ stamp' = [stamp EXCEPT ![t] = clock + 1]
    /\ UNCHANGED <<outbox, events, ticks, lock, faults, chain>>

\* The event that the trigger takes for the last one: ORDER BY created_at DESC, id DESC.
Newest == CHOOSE k \in Keys \cup {0} : \A j \in Keys : j <= k

\* audit_events_compute_chain_hash, under the trigger's own lock to the end of the
\* transaction: the event is linked as the transaction that inserts it commits.
Link(t) ==
    /\ ticks[t].found \/ stamp[t] # 0
    /\ chain' = IF ticks[t].found THEN chain
                ELSE Append(chain, [key |-> stamp[t], prev |-> Newest])
    /\ stamp' = [stamp EXCEPT ![t] = 0]
    /\ UNCHANGED clock

\* A step that inserts nothing; a transaction that ends takes its key with it.
NoLink(t) == stamp' = [stamp EXCEPT ![t] = 0] /\ UNCHANGED <<chain, clock>>

(***************************************************************************)
(* Specification                                                           *)
(***************************************************************************)
ChainInit == Init /\ chain = <<>> /\ clock = 0 /\ stamp = [t \in Ticks |-> 0]

ChainStep(t) ==
    \/ MakeKey(t)
    \/ Commit(t) /\ Link(t)
    \/ (TickRead(t) \/ Begin(t) \/ Skip(t) \/ MarkFailed(t)) /\ NoLink(t)

ChainNext ==
    \/ \E r \in Rows : Publish(r) /\ UNCHANGED <<chain, clock, stamp>>
    \/ \E t \in Ticks :
          \/ ChainStep(t)
          \/ AnswerLost(t) /\ Link(t)
          \/ (RowFails(t) \/ TickDies(t)) /\ NoLink(t)

ChainSpec == ChainInit /\ [][ChainNext]_chainVars

\* As FairSpec of AuditOutbox, with the step that makes the key.
ChainFairSpec == ChainSpec /\ \A t \in Ticks : SF_chainVars(ChainStep(t))

(***************************************************************************)
(* Property                                                                *)
(***************************************************************************)
\* The event before one in the order of the keys, in which the verifier reads.
Preceding(k) == CHOOSE j \in Keys \cup {0} : j < k /\ \A m \in Keys : m < k => m <= j

\* Whenever the verifier reads the trail it finds it unbroken: the order in which
\* events were linked is the order of their keys, although a key is made before the
\* trigger takes its lock and several ticks insert (audit-chain-verifier.ts, verify;
\* Docs/00_PROJECT_OVERVIEW.md:116). What keeps the two orders the same is the lock of
\* the dispatcher, which is held from before the key is made until the commit.
ChainVerifies == \A i \in DOMAIN chain : chain[i].prev = Preceding(chain[i].key)

================================================================================
