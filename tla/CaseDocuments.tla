----------------------------- MODULE CaseDocuments ------------------------------
(***************************************************************************)
(* Documents of a case, from the request for an upload URL to the malware  *)
(* verdict and the download.                                               *)
(*                                                                         *)
(* The client puts the content straight into the object storage. A request *)
(* then reads the plaintext, compares its hash, replaces the object by the *)
(* ciphertext and records in a transaction of its own that the document is *)
(* sealed. A job judges sealed documents and refuses those that wait too   *)
(* long. Requests and runs of the job overlap, and can die between any two *)
(* steps; the upload URL stays valid for a while after the sealing.        *)
(***************************************************************************)
EXTENDS Integers, FiniteSets

CONSTANTS
    Documents,      \* document versions of one case, numbered in the order of created_at
    Infected,       \* those whose declared content the scanner finds infected
    Requests,       \* the slots of requests in flight
    Runs,           \* the runs of the job that can overlap
    Nobody,         \* no document
    Quota,          \* the total size a case may have, in documents
    BatchSize,      \* documents a run reads
    MaxFaults       \* bound for TLC: requests and runs that die

ASSUME DocumentsAssumption ==
    /\ Documents \subseteq Nat /\ IsFiniteSet(Documents)
    /\ IsFiniteSet(Requests) /\ Requests # {}
    /\ Nobody \notin Documents
    /\ Infected \subseteq Documents
    /\ Quota \in Nat /\ BatchSize \in Nat \ {0} /\ MaxFaults \in Nat

VARIABLES
    rows,       \* the verdict on each document, whether it is sealed, and since long ago
    objects,    \* the object storage
    served,     \* the documents of which a download URL was given out
    requests,   \* what each request has read
    runs,       \* what each run has still to judge, and its verdict
    faults      \* the requests and runs that died

vars == <<rows, objects, served, requests, runs, faults>>

Row == [verdict : {"none", "PENDING", "CLEAN", "REJECTED"}, sealed : BOOLEAN, late : BOOLEAN]

\* The declared content, another one, or the ciphertext of the declared one.
Object == {"absent", "declared", "altered", "sealed"}

Request == [phase : {"idle", "initiate", "seal", "record", "download"},
            file : Documents \cup {Nobody}]

Run == [phase : {"idle", "next", "judged"}, todo : SUBSET Documents,
        verdict : {"none", "CLEAN", "REJECTED"}]

IdleRequest == [phase |-> "idle", file |-> Nobody]

IdleRun == [phase |-> "idle", todo |-> {}, verdict |-> "none"]

TypeOK ==
    /\ rows \in [Documents -> Row]
    /\ objects \in [Documents -> Object]
    /\ served \subseteq Documents
    /\ requests \in [Requests -> Request]
    /\ \A q \in Requests :
          (requests[q].file = Nobody) = (requests[q].phase \in {"idle", "initiate"})
    /\ runs \in [Runs -> Run]
    /\ \A j \in Runs : (runs[j].todo = {}) = (runs[j].phase = "idle")
    /\ faults \in 0..MaxFaults

Is(d, verdict) == rows[d].verdict = verdict

Created == {d \in Documents : ~Is(d, "none")}

Oldest(n, S) == {d \in S : Cardinality({e \in S : e < d}) < n}

(***************************************************************************)
(* The client and the clock                                                *)
(***************************************************************************)
\* The upload URL can be used more than once, and for any content, also after the
\* sealing. It is valid for minutes, the document late after a day: that the URL expires
\* before is left out.
Put(d) ==
    /\ d \in Created /\ ~rows[d].late
    /\ \E content \in {"declared", "altered"} : objects' = [objects EXCEPT ![d] = content]
    /\ UNCHANGED <<rows, served, requests, runs, faults>>

\* The document is sealed and waits longer than it may for its verdict.
Late(d) ==
    /\ rows[d].sealed /\ ~rows[d].late /\ Is(d, "PENDING")
    /\ rows' = [rows EXCEPT ![d].late = TRUE]
    /\ UNCHANGED <<objects, served, requests, runs, faults>>

(***************************************************************************)
(* Requests                                                                *)
(***************************************************************************)
\* Mutant: the size of the new document is not counted.
WithinOld == Cardinality(Created) <= Quota

\* assertTotalCaseDocumentSize.
Within == Cardinality(Created) + 1 <= Quota

\* initiateCaseDocumentUpload: the total is read before the transaction.
InitiateRead(q) ==
    /\ requests[q].phase = "idle"
    /\ Within
    /\ requests' = [requests EXCEPT ![q].phase = "initiate"]
    /\ UNCHANGED <<rows, objects, served, runs, faults>>

InitiateCommit(q) ==
    /\ requests[q].phase = "initiate"
    /\ \E d \in Oldest(1, Documents \ Created) : rows' = [rows EXCEPT ![d].verdict = "PENDING"]
    /\ requests' = [requests EXCEPT ![q] = IdleRequest]
    /\ UNCHANGED <<objects, served, runs, faults>>

\* completeCaseDocumentUpload: not sealed yet, and the object has the declared hash.
CompleteRead(q, d) ==
    /\ requests[q].phase = "idle"
    /\ d \in Created /\ ~rows[d].sealed
    /\ objects[d] = "declared"
    /\ requests' = [requests EXCEPT ![q] = [phase |-> "seal", file |-> d]]
    /\ UNCHANGED <<rows, objects, served, runs, faults>>

CompletePut(q) ==
    /\ requests[q].phase = "seal"
    /\ objects' = [objects EXCEPT ![requests[q].file] = "sealed"]
    /\ requests' = [requests EXCEPT ![q].phase = "record"]
    /\ UNCHANGED <<rows, served, runs, faults>>

\* content_sealed_at, with which the wait for a verdict begins. A second sealing is rolled
\* back: the key of its audit event is taken.
CompleteCommit(q) ==
    /\ requests[q].phase = "record"
    /\ rows' = [rows EXCEPT ![requests[q].file].sealed = TRUE]
    /\ requests' = [requests EXCEPT ![q] = IdleRequest]
    /\ UNCHANGED <<objects, served, runs, faults>>

Ready(d) == rows[d].sealed /\ Is(d, "CLEAN")

\* getDocumentDownloadUrl: sealed, available and clean.
DownloadRead(q, d) ==
    /\ requests[q].phase = "idle"
    /\ Ready(d)
    /\ requests' = [requests EXCEPT ![q] = [phase |-> "download", file |-> d]]
    /\ UNCHANGED <<rows, objects, served, runs, faults>>

\* The object is decrypted, which fails if it is no ciphertext of this document.
DownloadServe(q) ==
    LET d == requests[q].file
    IN  /\ requests[q].phase = "download"
        /\ served' = IF objects[d] = "sealed" THEN served \cup {d} ELSE served
        /\ requests' = [requests EXCEPT ![q] = IdleRequest]
        /\ UNCHANGED <<rows, objects, runs, faults>>

(***************************************************************************)
(* The job                                                                 *)
(***************************************************************************)
Current(j) == CHOOSE d \in runs[j].todo : \A e \in runs[j].todo : d <= e

\* On to the next document of the batch.
Advance(j) ==
    LET rest == runs[j].todo \ {Current(j)}
    IN  runs' = [runs EXCEPT ![j] =
            IF rest = {} THEN IdleRun ELSE [phase |-> "next", todo |-> rest, verdict |-> "none"]]

\* Mutant: no wait is too long.
StartNever(j) == FALSE /\ UNCHANGED vars

\* rejectStuckPending, one document at a time.
StartExpired(j) ==
    /\ runs[j].phase = "idle"
    /\ \E d \in Oldest(BatchSize, {e \in Documents : Is(e, "PENDING") /\ rows[e].late}) :
          runs' = [runs EXCEPT ![j] =
              [phase |-> "judged", todo |-> {d}, verdict |-> "REJECTED"]]
    /\ UNCHANGED <<rows, objects, served, requests, faults>>

\* processPendingBatch.
StartBatch(j) ==
    LET batch == Oldest(BatchSize, {d \in Documents : Is(d, "PENDING") /\ rows[d].sealed})
    IN  /\ runs[j].phase = "idle" /\ batch # {}
        /\ runs' = [runs EXCEPT ![j] =
               [phase |-> "next", todo |-> batch, verdict |-> "none"]]
        /\ UNCHANGED <<rows, objects, served, requests, faults>>

\* The object is missing or the storage fails: another run will see.
ScanSkips(j) ==
    /\ runs[j].phase = "next"
    /\ Advance(j)
    /\ UNCHANGED <<rows, objects, served, requests, faults>>

\* Mutant: what the scanner cannot judge is clean.
OutcomesOpen(d) == IF objects[d] = "sealed" THEN {"CLEAN"} ELSE {"REJECTED"}

\* scanSingle: what is no ciphertext of the document is refused, and so is what the
\* scanner finds infected or fails on.
Outcomes(d) == {"REJECTED"} \cup (IF objects[d] = "sealed" /\ d \notin Infected THEN {"CLEAN"} ELSE {})

Scan(j) ==
    /\ runs[j].phase = "next"
    /\ objects[Current(j)] # "absent"
    /\ \E verdict \in Outcomes(Current(j)) :
          runs' = [runs EXCEPT ![j].phase = "judged", ![j].verdict = verdict]
    /\ UNCHANGED <<rows, objects, served, requests, faults>>

\* Mutant: the verdict is written whatever the version has become.
DecideBlind(j) ==
    /\ runs[j].phase = "judged"
    /\ rows' = [rows EXCEPT ![Current(j)].verdict = runs[j].verdict]
    /\ Advance(j)
    /\ UNCHANGED <<objects, served, requests, faults>>

\* finalizeScan: the version and the document, under the lock and if still pending.
Decide(j) ==
    /\ runs[j].phase = "judged"
    /\ rows' = IF Is(Current(j), "PENDING")
               THEN [rows EXCEPT ![Current(j)].verdict = runs[j].verdict] ELSE rows
    /\ Advance(j)
    /\ UNCHANGED <<objects, served, requests, faults>>

(***************************************************************************)
(* Errors                                                                  *)
(***************************************************************************)
Fault == faults < MaxFaults /\ faults' = faults + 1

RequestDies(q) ==
    /\ Fault
    /\ requests[q].phase # "idle"
    /\ requests' = [requests EXCEPT ![q] = IdleRequest]
    /\ UNCHANGED <<rows, objects, served, runs>>

RunDies(j) ==
    /\ Fault
    /\ runs[j].phase # "idle"
    /\ runs' = [runs EXCEPT ![j] = IdleRun]
    /\ UNCHANGED <<rows, objects, served, requests>>

(***************************************************************************)
(* Specification                                                           *)
(***************************************************************************)
Init ==
    /\ rows = [d \in Documents |-> [verdict |-> "none", sealed |-> FALSE, late |-> FALSE]]
    /\ objects = [d \in Documents |-> "absent"]
    /\ served = {}
    /\ requests = [q \in Requests |-> IdleRequest]
    /\ runs = [j \in Runs |-> IdleRun]
    /\ faults = 0

Serve(q) ==
    \/ InitiateRead(q) \/ InitiateCommit(q) \/ CompletePut(q) \/ CompleteCommit(q)
    \/ DownloadServe(q)
    \/ \E d \in Documents : CompleteRead(q, d) \/ DownloadRead(q, d)

Job(j) == StartExpired(j) \/ StartBatch(j) \/ Scan(j) \/ ScanSkips(j) \/ Decide(j)

Next ==
    \/ \E d \in Documents : Put(d) \/ Late(d)
    \/ \E q \in Requests : Serve(q) \/ RequestDies(q)
    \/ \E j \in Runs : Job(j) \/ RunDies(j)

Spec == Init /\ [][Next]_vars

\* Time passes, the timer starts runs for ever and a run goes on. The storage and the
\* scanner need not answer, ever.
FairSpec ==
    /\ Spec
    /\ \A d \in Documents : WF_vars(Late(d))
    /\ \A j \in Runs : SF_vars(StartExpired(j)) /\ WF_vars(ScanSkips(j) \/ Scan(j) \/ Decide(j))

(***************************************************************************)
(* Properties                                                              *)
(***************************************************************************)
\* The first verdict on a document stands, whatever runs overlap and whether the one
\* that comes second is a scan or the timeout (finalizeScan).
VerdictStands ==
    [][\A d \in Documents : rows[d].verdict \in {"CLEAN", "REJECTED"} =>
          rows'[d].verdict = rows[d].verdict]_vars

\* No infected document is called clean or served, although the upload URL stays valid
\* while the document is sealed and judged, and what is served stays clean
\* (scanSingle, getDocumentDownloadUrl).
NothingInfectedIsServed ==
    /\ \A d \in Documents : Is(d, "CLEAN") => d \notin Infected
    /\ \A d \in served : Is(d, "CLEAN") /\ rows[d].sealed

Initiating == {q \in Requests : requests[q].phase = "initiate"}

\* The total is read outside the transaction, and so can be exceeded, but only by what
\* the other requests in flight add, counting those that have still to commit
\* (initiateCaseDocumentUpload).
OvershootIsBounded ==
    Cardinality(Created) + Cardinality(Initiating) < Quota + Cardinality(Requests)

\* A sealed document gets its verdict, though the storage and the scanner may never
\* answer and the content can be replaced after the sealing (rejectStuckPending).
SealedIsJudged == \A d \in Documents : rows[d].sealed ~> rows[d].verdict \in {"CLEAN", "REJECTED"}

================================================================================
