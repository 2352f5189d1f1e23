-------------------------- MODULE CaseDocumentsProofs ---------------------------
(***************************************************************************)
(* Theorems about the documents of a case, for every number of documents,  *)
(* requests, runs of the job and faults.                                   *)
(*                                                                         *)
(* Careful carries them: what a run judged clean is not infected, and what *)
(* a request is about to serve is sealed and clean. Both stay true until   *)
(* they are used, because no step takes a verdict back.                    *)
(***************************************************************************)
EXTENDS CaseDocuments, FiniteSetTheorems, TLAPS

\* What a run, and a request, knows of the document it is at.
RunCareful(j) == runs[j].phase = "judged" =>
    /\ runs[j].verdict \in {"CLEAN", "REJECTED"}
    /\ runs[j].verdict = "CLEAN" => Current(j) \notin Infected

RequestCareful(q) == requests[q].phase = "download" =>
    rows[requests[q].file].verdict = "CLEAN" /\ rows[requests[q].file].sealed

Careful == (\A j \in Runs : RunCareful(j)) /\ (\A q \in Requests : RequestCareful(q))

IInv == TypeOK /\ Careful /\ NothingInfectedIsServed

(***************************************************************************)
(* Types                                                                   *)
(***************************************************************************)
\* The idle records have their types.
LEMMA IdleTypes == IdleRequest \in Request /\ IdleRun \in Run
BY DocumentsAssumption DEF IdleRequest, Request, IdleRun, Run

\* What the type says of the requests, and of the runs.
RequestsOK ==
    /\ requests \in [Requests -> Request]
    /\ \A q \in Requests :
          (requests[q].file = Nobody) = (requests[q].phase \in {"idle", "initiate"})

RunsOK ==
    /\ runs \in [Runs -> Run]
    /\ \A j \in Runs : (runs[j].todo = {}) = (runs[j].phase = "idle")

\* One request is replaced by another that is as it should be.
LEMMA PutRequest ==
    ASSUME RequestsOK, NEW q \in Requests, NEW r \in Request,
           (r.file = Nobody) = (r.phase \in {"idle", "initiate"}),
           requests' = [requests EXCEPT ![q] = r]
    PROVE  RequestsOK'
BY DEF RequestsOK

\* The same of a run.
LEMMA PutRun ==
    ASSUME RunsOK, NEW j \in Runs, NEW r \in Run,
           (r.todo = {}) = (r.phase = "idle"),
           runs' = [runs EXCEPT ![j] = r]
    PROVE  RunsOK'
BY DEF RunsOK

\* A run that goes on has a document left, and one that has none is idle.
LEMMA AdvanceType ==
    ASSUME TypeOK, NEW j \in Runs, Advance(j)
    PROVE  /\ runs' \in [Runs -> Run]
           /\ \A k \in Runs : (runs'[k].todo = {}) = (runs'[k].phase = "idle")
           /\ \A k \in Runs \ {j} : runs'[k] = runs[k]
           /\ runs'[j].phase # "judged"
<1>. DEFINE rest == runs[j].todo \ {Current(j)}
            going == IF rest = {} THEN IdleRun ELSE [phase |-> "next", todo |-> rest, verdict |-> "none"]
<1>1. rest \in SUBSET Documents
  BY DEF TypeOK, Run
<1>2. /\ going \in Run
      /\ (going.todo = {}) = (going.phase = "idle")
      /\ going.phase # "judged"
  BY <1>1, IdleTypes DEF Run, IdleRun
<1>3. runs' = [runs EXCEPT ![j] = going]
  BY DEF Advance
<1>. HIDE DEF going
<1>. QED
  BY <1>2, <1>3 DEF TypeOK

\* The client and the clock.
LEMMA ClientKeepsTypes ==
    ASSUME TypeOK, NEW d \in Documents, Put(d) \/ Late(d)
    PROVE  TypeOK'
<1>1. CASE Put(d)
  BY <1>1 DEF TypeOK, Put, Object
<1>2. CASE Late(d)
  BY <1>2 DEF TypeOK, Late, Row
<1>. QED
  BY <1>1, <1>2

\* The requests, the uploads and the downloads alike.
LEMMA RequestKeepsTypes ==
    ASSUME TypeOK, NEW q \in Requests, Serve(q) \/ RequestDies(q)
    PROVE  TypeOK'
<1>. USE DocumentsAssumption, IdleTypes
<1>1. CASE InitiateRead(q)
  BY <1>1 DEF TypeOK, InitiateRead, Request
<1>2. CASE InitiateCommit(q)
  BY <1>2 DEF TypeOK, InitiateCommit, Oldest, Row, IdleRequest
<1>3. CASE CompletePut(q)
  BY <1>3 DEF TypeOK, CompletePut, Object, Request
<1>4. CASE CompleteCommit(q)
  BY <1>4 DEF TypeOK, CompleteCommit, Row, IdleRequest
<1>5. CASE DownloadServe(q)
  BY <1>5 DEF TypeOK, DownloadServe, Request, IdleRequest
<1>6. ASSUME NEW d \in Documents, CompleteRead(q, d) \/ DownloadRead(q, d)
      PROVE  TypeOK'
  <2>1. PICK phase \in {"seal", "download"} :
          requests' = [requests EXCEPT ![q] = [phase |-> phase, file |-> d]]
    BY <1>6 DEF CompleteRead, DownloadRead
  <2>2. [phase |-> phase, file |-> d] \in Request
    BY DEF Request
  <2>3. RequestsOK'
    <3>1. ([phase |-> phase, file |-> d].file = Nobody) =
             ([phase |-> phase, file |-> d].phase \in {"idle", "initiate"})
      BY DocumentsAssumption
    <3>. QED
      BY <2>1, <2>2, <3>1, PutRequest DEF TypeOK, RequestsOK
  <2>4. UNCHANGED <<rows, objects, served, runs, faults>>
    BY <1>6 DEF CompleteRead, DownloadRead
  <2>. QED
    BY <2>3, <2>4 DEF TypeOK, RequestsOK
<1>7. CASE RequestDies(q)
  BY <1>7 DEF TypeOK, RequestDies, Fault, IdleRequest
<1>. QED
  BY <1>1, <1>2, <1>3, <1>4, <1>5, <1>6, <1>7 DEF Serve

\* The runs of the job.
LEMMA JobKeepsTypes ==
    ASSUME TypeOK, NEW j \in Runs, Job(j) \/ RunDies(j)
    PROVE  TypeOK'
<1>1. CASE StartExpired(j)
  <2>1. PICK d \in Documents :
          runs' = [runs EXCEPT ![j] = [phase |-> "judged", todo |-> {d}, verdict |-> "REJECTED"]]
    BY <1>1 DEF StartExpired, Oldest
  <2>2. [phase |-> "judged", todo |-> {d}, verdict |-> "REJECTED"] \in Run
    BY DEF Run
  <2>3. RunsOK'
    BY <2>1, <2>2, PutRun DEF TypeOK, RunsOK
  <2>. QED
    BY <1>1, <2>3 DEF TypeOK, RunsOK, StartExpired
<1>2. CASE StartBatch(j)
  BY <1>2 DEF TypeOK, StartBatch, Oldest, Run
<1>3. CASE Scan(j)
  <2>1. PICK verdict \in {"CLEAN", "REJECTED"} :
          runs' = [runs EXCEPT ![j].phase = "judged", ![j].verdict = verdict]
    BY <1>3 DEF Scan, Outcomes
  <2>2. runs[j].phase = "next" /\ runs[j] \in Run
    BY <1>3 DEF Scan, TypeOK
  <2>3. RunsOK'
    BY <2>1, <2>2 DEF TypeOK, RunsOK, Run
  <2>. QED
    BY <1>3, <2>3 DEF TypeOK, RunsOK, Scan
<1>4. CASE ScanSkips(j)
  BY <1>4, AdvanceType DEF TypeOK, ScanSkips
<1>5. CASE Decide(j)
  <2>1. rows' \in [Documents -> Row]
    BY <1>5 DEF TypeOK, Decide, Row, Run
  <2>. QED
    BY <1>5, <2>1, AdvanceType DEF TypeOK, Decide
<1>6. CASE RunDies(j)
  <2>1. RunsOK'
    BY <1>6, IdleTypes, PutRun DEF TypeOK, RunsOK, RunDies, IdleRun
  <2>2. faults' \in 0..MaxFaults
    BY <1>6, DocumentsAssumption DEF TypeOK, RunDies, Fault
  <2>. QED
    BY <1>6, <2>1, <2>2 DEF TypeOK, RunsOK, RunDies
<1>. QED
  BY <1>1, <1>2, <1>3, <1>4, <1>5, <1>6 DEF Job

\* No step leaves the types.
LEMMA TypeStep ==
    ASSUME TypeOK, [Next]_vars
    PROVE  TypeOK'
<1>1. CASE UNCHANGED vars
  BY <1>1 DEF TypeOK, vars
<1>. QED
  BY <1>1, ClientKeepsTypes, RequestKeepsTypes, JobKeepsTypes DEF Next

\* Every row, object, request and run has its type, and a request past its first read
\* knows its document.
THEOREM DocumentTypes == Spec => []TypeOK
<1>1. Init => TypeOK
  BY IdleTypes, DocumentsAssumption DEF Init, TypeOK, Row, Object, IdleRequest, IdleRun
<1>. QED
  BY <1>1, TypeStep, PTL DEF Spec

(***************************************************************************)
(* Verdicts                                                                *)
(***************************************************************************)
\* Verdicts are as clean as before and nothing is unsealed or served.
Quiet ==
    /\ \A d \in Documents : /\ (rows'[d].verdict = "CLEAN") = (rows[d].verdict = "CLEAN")
                            /\ rows[d].sealed => rows'[d].sealed
    /\ served' = served

\* A request that such a step leaves alone, or that ends, knows what it must.
LEMMA QuietRequest ==
    ASSUME IInv, Quiet, NEW q \in Requests,
           requests'[q] = requests[q] \/ requests'[q].phase # "download"
    PROVE  RequestCareful(q)'
<1>1. CASE requests'[q].phase # "download"
  BY <1>1 DEF RequestCareful
<1>2. CASE requests'[q] = requests[q] /\ requests[q].phase = "download"
  <2>1. requests[q].file \in Documents
    BY <1>2 DEF IInv, TypeOK, Request
  <2>. QED
    BY <1>2, <2>1 DEF IInv, Careful, RequestCareful, Quiet
<1>. QED
  BY <1>1, <1>2

\* Nothing served has changed, and neither has its verdict.
LEMMA QuietRows ==
    ASSUME IInv, Quiet
    PROVE  NothingInfectedIsServed'
BY DEF IInv, TypeOK, Quiet, NothingInfectedIsServed, Is

\* A run that a step leaves alone, or that is not to decide, knows what it must.
LEMMA OtherRun ==
    ASSUME IInv, NEW j \in Runs,
           runs'[j] = runs[j] \/ runs'[j].phase # "judged" \/ runs'[j].verdict = "REJECTED"
    PROVE  RunCareful(j)'
<1>1. runs'[j] = runs[j] => Current(j)' = Current(j)
  BY DEF Current
<1>. QED
  BY <1>1 DEF IInv, Careful, RunCareful

\* The client changes the object in the storage, the clock the age of a row.
LEMMA ClientStep ==
    ASSUME IInv, TypeOK', NEW d \in Documents, Put(d) \/ Late(d)
    PROVE  IInv'
<1>1. Quiet /\ runs' = runs /\ requests' = requests
  BY DEF Put, Late, IInv, TypeOK, Row, Quiet
<1>. QED
  BY <1>1, QuietRequest, QuietRows, OtherRun DEF IInv, Careful

\* A download is read when the document is sealed and clean; nothing else is served.
LEMMA RequestStep ==
    ASSUME IInv, TypeOK', NEW q \in Requests, Serve(q) \/ RequestDies(q)
    PROVE  IInv'
<1>1. CASE DownloadServe(q)
  <2>1. requests[q].file \in Documents
    BY <1>1 DEF DownloadServe, IInv, TypeOK, Request
  <2>2. Is(requests[q].file, "CLEAN") /\ rows[requests[q].file].sealed
    BY <1>1 DEF DownloadServe, IInv, Careful, RequestCareful, Is
  <2>3. NothingInfectedIsServed'
    BY <1>1, <2>1, <2>2 DEF DownloadServe, IInv, NothingInfectedIsServed, Is
  <2>4. \A p \in Requests : RequestCareful(p)'
    BY <1>1 DEF DownloadServe, IInv, TypeOK, Careful, RequestCareful, IdleRequest
  <2>5. runs' = runs
    BY <1>1 DEF DownloadServe
  <2>. QED
    BY <2>3, <2>4, <2>5, OtherRun DEF IInv, Careful
<1>2. ASSUME NEW d \in Documents, DownloadRead(q, d)
      PROVE  IInv'
  <2>1. Quiet /\ runs' = runs /\ Ready(d)
    BY <1>2 DEF DownloadRead, Quiet
  <2>2. rows' = rows /\ requests' = [requests EXCEPT ![q] = [phase |-> "download", file |-> d]]
    BY <1>2 DEF DownloadRead
  <2>3. RequestCareful(q)'
    BY <2>1, <2>2 DEF RequestCareful, Ready, Is, IInv, TypeOK
  <2>4. \A p \in Requests \ {q} : requests'[p] = requests[p]
    BY <2>2 DEF IInv, TypeOK
  <2>. QED
    BY <2>1, <2>3, <2>4, QuietRequest, QuietRows, OtherRun DEF IInv, Careful
<1>3. CASE ~DownloadServe(q) /\ \A d \in Documents : ~DownloadRead(q, d)
  <2>1. CASE InitiateCommit(q)
    <3>1. Quiet
      BY <2>1 DEF InitiateCommit, IInv, TypeOK, Oldest, Created, Is, Row, Quiet
    <3>2. runs' = runs /\ requests' = [requests EXCEPT ![q] = IdleRequest]
      BY <2>1 DEF InitiateCommit
    <3>3. \A p \in Requests : requests'[p] = requests[p] \/ requests'[p].phase # "download"
      BY <3>2 DEF IInv, TypeOK, IdleRequest
    <3>. QED
      BY <3>1, <3>2, <3>3, QuietRequest, QuietRows, OtherRun DEF IInv, Careful
  <2>2. CASE ~InitiateCommit(q)
    <3>1. Quiet /\ runs' = runs
      BY <1>3, <2>2 DEF Serve, InitiateRead, CompleteRead, CompletePut, CompleteCommit, RequestDies,
                        IInv, TypeOK, Row, Quiet
    <3>2. \A p \in Requests : requests'[p] = requests[p] \/ requests'[p].phase # "download"
      BY <1>3, <2>2 DEF Serve, InitiateRead, CompleteRead, CompletePut, CompleteCommit, RequestDies,
                        IInv, TypeOK, Request, IdleRequest
    <3>. QED
      BY <3>1, <3>2, QuietRequest, QuietRows, OtherRun DEF IInv, Careful
  <2>. QED
    BY <2>1, <2>2
<1>. QED
  BY <1>1, <1>2, <1>3

\* A scan finds what is in the document; Decide writes only what was found.
LEMMA JobStep ==
    ASSUME IInv, TypeOK', NEW j \in Runs, Job(j) \/ RunDies(j)
    PROVE  IInv'
<1>1. CASE Scan(j)
  <2>1. PICK verdict \in Outcomes(Current(j)) :
          runs' = [runs EXCEPT ![j].phase = "judged", ![j].verdict = verdict]
    BY <1>1 DEF Scan
  <2>2. runs'[j].todo = runs[j].todo /\ runs'[j].verdict = verdict
        /\ \A k \in Runs \ {j} : runs'[k] = runs[k]
    BY <2>1 DEF IInv, TypeOK, Run
  <2>3. Current(j)' = Current(j)
    BY <2>2 DEF Current
  <2>4. verdict = "REJECTED" \/ (verdict = "CLEAN" /\ Current(j) \notin Infected)
    BY <2>1 DEF Outcomes
  <2>5. RunCareful(j)'
    BY <2>2, <2>3, <2>4 DEF RunCareful
  <2>6. Quiet /\ requests' = requests
    BY <1>1 DEF Scan, Quiet
  <2>. QED
    BY <2>2, <2>5, <2>6, QuietRequest, QuietRows, OtherRun DEF IInv, Careful
<1>2. CASE Decide(j)
  <2>. DEFINE d == Current(j)
  <2>1. runs[j].verdict \in {"CLEAN", "REJECTED"} /\ (runs[j].verdict = "CLEAN" => d \notin Infected)
    BY <1>2 DEF Decide, IInv, Careful, RunCareful
  <2>2. \A e \in Documents :
          \/ rows'[e] = rows[e]
          \/ /\ e = d /\ rows[e].verdict = "PENDING"
             /\ rows'[e].verdict = runs[j].verdict /\ rows'[e].sealed = rows[e].sealed
    BY <1>2 DEF Decide, IInv, TypeOK, Row, Is
  <2>3. served' = served /\ requests' = requests
    BY <1>2 DEF Decide
  <2>4. \A k \in Runs : runs'[k] = runs[k] \/ runs'[k].phase # "judged"
    BY <1>2, AdvanceType DEF Decide, IInv
  <2>5. ASSUME NEW q \in Requests
        PROVE  RequestCareful(q)'
    <3>1. requests[q].phase = "download" => requests[q].file \in Documents
      BY DEF IInv, TypeOK, Request
    <3>2. RequestCareful(q)
      BY DEF IInv, Careful
    <3>. HIDE DEF d
    <3>. QED
      BY <2>2, <2>3, <3>1, <3>2 DEF RequestCareful
  <2>6. NothingInfectedIsServed'
    <3>1. NothingInfectedIsServed /\ served \subseteq Documents
      BY DEF IInv, TypeOK
    <3>. HIDE DEF d
    <3>. QED
      BY <2>1, <2>2, <2>3, <3>1 DEF NothingInfectedIsServed, Is
  <2>. QED
    BY <2>4, <2>5, <2>6, OtherRun DEF IInv, Careful
<1>3. CASE ~Scan(j) /\ ~Decide(j)
  <2>1. Quiet /\ requests' = requests
    BY <1>3 DEF Job, StartExpired, StartBatch, ScanSkips, RunDies, Quiet
  <2>2. \A k \in Runs : runs'[k] = runs[k] \/ runs'[k].phase # "judged"
                       \/ runs'[k].verdict = "REJECTED"
    <3>1. CASE StartExpired(j)
      <4>1. PICK d \in Documents :
              runs' = [runs EXCEPT ![j] = [phase |-> "judged", todo |-> {d}, verdict |-> "REJECTED"]]
        BY <3>1 DEF StartExpired, Oldest
      <4>. QED
        BY <4>1 DEF IInv, TypeOK
    <3>2. CASE StartBatch(j)
      BY <3>2 DEF StartBatch, IInv, TypeOK
    <3>3. CASE ScanSkips(j)
      BY <3>3, AdvanceType DEF ScanSkips, IInv
    <3>4. CASE RunDies(j)
      BY <3>4 DEF RunDies, IInv, TypeOK, IdleRun
    <3>. QED
      BY <1>3, <3>1, <3>2, <3>3, <3>4 DEF Job
  <2>. QED
    BY <2>1, <2>2, QuietRequest, QuietRows, OtherRun DEF IInv, Careful
<1>. QED
  BY <1>1, <1>2, <1>3

\* The inductive invariant: what runs and requests know stays true until they use it.
THEOREM KnowledgeStays == Spec => []IInv
<1>1. Init => IInv
  <2>1. Init => TypeOK
    BY IdleTypes, DocumentsAssumption DEF Init, TypeOK, Row, Object, IdleRequest, IdleRun
  <2>. QED
    BY <2>1 DEF Init, IInv, Careful, RunCareful, RequestCareful, NothingInfectedIsServed, Is,
                     IdleRequest, IdleRun
<1>2. IInv /\ [Next]_vars => IInv'
  <2>. SUFFICES ASSUME IInv, [Next]_vars
                PROVE  IInv'
    OBVIOUS
  <2>1. TypeOK'
    BY TypeStep DEF IInv
  <2>2. CASE UNCHANGED vars
    BY <2>1, <2>2 DEF vars, IInv, Careful, RunCareful, RequestCareful,
                            NothingInfectedIsServed, Is, Current
  <2>. QED
    BY <2>1, <2>2, ClientStep, RequestStep, JobStep DEF Next
<1>. QED
  BY <1>1, <1>2, PTL DEF Spec

\* No infected document is called clean or served, whatever overlaps and fails.
THEOREM InfectedStaysIn == Spec => []NothingInfectedIsServed
BY KnowledgeStays, PTL DEF IInv

\* No verdict is ever replaced: not by another run, not by the timeout, not by a
\* second sealing.
THEOREM FirstVerdictStands == Spec => VerdictStands
<1>1. ASSUME TypeOK, [Next]_vars, NEW d \in Documents, rows[d].verdict \in {"CLEAN", "REJECTED"}
      PROVE  rows'[d].verdict = rows[d].verdict
  <2>1. CASE \E q \in Requests : Serve(q)
    <3>1. PICK q \in Requests : Serve(q)
      BY <2>1
    <3>2. CASE InitiateCommit(q)
      BY <1>1, <3>2 DEF InitiateCommit, Oldest, Created, Is, TypeOK
    <3>3. CASE CompleteCommit(q)
      BY <1>1, <3>3 DEF CompleteCommit, TypeOK, Row
    <3>. QED
      BY <3>1, <3>2, <3>3 DEF Serve, InitiateRead, CompletePut, DownloadServe, CompleteRead,
                              DownloadRead
  <2>2. CASE \E j \in Runs : Job(j)
    BY <1>1, <2>2 DEF Job, StartExpired, StartBatch, Scan, ScanSkips, Decide, Is, TypeOK
  <2>3. CASE \E e \in Documents : Late(e)
    BY <1>1, <2>3 DEF Late, TypeOK, Row
  <2>. QED
    BY <1>1, <2>1, <2>2, <2>3 DEF Next, vars, Put, RequestDies, RunDies
<1>2. TypeOK /\ [Next]_vars =>
         [\A d \in Documents : rows[d].verdict \in {"CLEAN", "REJECTED"} =>
             rows'[d].verdict = rows[d].verdict]_vars
  BY <1>1
<1>. QED
  BY <1>2, DocumentTypes, PTL DEF Spec, VerdictStands

(***************************************************************************)
(* The quota                                                               *)
(***************************************************************************)
\* What the bound counts is finite.
LEMMA Counted ==
    /\ IsFiniteSet(Created) /\ Cardinality(Created) \in Nat
    /\ IsFiniteSet(Initiating) /\ Cardinality(Initiating) \in Nat
    /\ Cardinality(Initiating) <= Cardinality(Requests)
    /\ Cardinality(Requests) \in Nat \ {0}
<1>1. Created \subseteq Documents /\ Initiating \subseteq Requests
  BY DEF Created, Initiating
<1>. QED
  BY <1>1, DocumentsAssumption, FS_Subset, FS_CardinalityType, FS_EmptySet

\* A request counts before it creates: what it adds moves from one count to the other.
LEMMA QuotaStep ==
    ASSUME IInv, OvershootIsBounded, [Next]_vars
    PROVE  OvershootIsBounded'
<1>. USE DocumentsAssumption
<1>0. TypeOK
  BY DEF IInv
<1>1. ASSUME NEW q \in Requests, InitiateRead(q)
      PROVE  OvershootIsBounded'
  <2>1. Created' = Created
    BY <1>1 DEF InitiateRead, Created, Is
  <2>2. Cardinality(Created) + 1 <= Quota
    BY <1>1 DEF InitiateRead, Within
  <2>3. Cardinality(Initiating)' <= Cardinality(Requests)
        /\ Cardinality(Initiating)' \in Nat
    BY Counted, FS_Subset, FS_CardinalityType DEF Initiating
  <2>. QED
    BY <2>1, <2>2, <2>3, Counted DEF OvershootIsBounded
<1>2. ASSUME NEW q \in Requests, InitiateCommit(q)
      PROVE  OvershootIsBounded'
  <2>1. PICK d \in Documents \ Created : rows' = [rows EXCEPT ![d].verdict = "PENDING"]
    BY <1>2 DEF InitiateCommit, Oldest
  <2>2. Created' = Created \cup {d}
    BY <1>0, <2>1 DEF Created, Is, TypeOK, Row
  <2>3. q \in Initiating /\ Initiating' = Initiating \ {q}
    BY <1>0, <1>2 DEF InitiateCommit, Initiating, TypeOK, IdleRequest
  <2>4. Cardinality(Created') = Cardinality(Created) + 1
    BY <2>1, <2>2, Counted, FS_AddElement
  <2>5. Cardinality(Initiating') = Cardinality(Initiating) - 1
    BY <2>3, Counted, FS_RemoveElement
  <2>. QED
    BY <2>4, <2>5, Counted DEF OvershootIsBounded
<1>3. CASE \A q \in Requests : ~InitiateRead(q) /\ ~InitiateCommit(q)
  <2>1. Created' = Created
    <3>1. \A d \in Documents : (rows'[d].verdict = "none") = (rows[d].verdict = "none")
      <4>1. CASE \E q \in Requests : CompleteCommit(q)
        BY <1>0, <4>1 DEF CompleteCommit, TypeOK, Row
      <4>2. CASE \E j \in Runs : Decide(j)
        <5>1. PICK j \in Runs : Decide(j)
          BY <4>2
        <5>2. runs[j].verdict # "none"
          BY <5>1 DEF Decide, IInv, Careful, RunCareful
        <5>. QED
          BY <1>0, <5>1, <5>2 DEF Decide, TypeOK, Row, Is
      <4>3. CASE \E d \in Documents : Late(d)
        BY <1>0, <4>3 DEF Late, TypeOK, Row
      <4>. QED
        BY <1>3, <4>1, <4>2, <4>3 DEF Next, vars, Serve, CompleteRead, CompletePut, DownloadRead,
             DownloadServe, Job, StartExpired, StartBatch, Scan, ScanSkips, Put, RequestDies, RunDies
    <3>. QED
      BY <3>1 DEF Created, Is
  <2>2. Initiating' \subseteq Initiating
    <3>1. CASE \E q \in Requests, d \in Documents : CompleteRead(q, d) \/ DownloadRead(q, d)
      BY <1>0, <3>1 DEF Initiating, CompleteRead, DownloadRead, TypeOK
    <3>2. CASE \E q \in Requests : CompletePut(q)
      BY <1>0, <3>2 DEF Initiating, CompletePut, TypeOK, Request
    <3>3. CASE \E q \in Requests : CompleteCommit(q) \/ DownloadServe(q) \/ RequestDies(q)
      <4>1. PICK q \in Requests : requests' = [requests EXCEPT ![q] = IdleRequest]
        BY <3>3 DEF CompleteCommit, DownloadServe, RequestDies
      <4>. QED
        BY <1>0, <4>1 DEF Initiating, TypeOK, IdleRequest
    <3>4. CASE requests' = requests
      BY <3>4 DEF Initiating
    <3>. QED
      BY <1>3, <3>1, <3>2, <3>3, <3>4 DEF Next, vars, Serve, Job, StartExpired, StartBatch, Scan,
           ScanSkips, Decide, Put, Late, RunDies
  <2>3. Cardinality(Initiating') <= Cardinality(Initiating) /\ Cardinality(Initiating') \in Nat
    BY <2>2, Counted, FS_Subset, FS_CardinalityType
  <2>. QED
    BY <2>1, <2>3, Counted DEF OvershootIsBounded
<1>. QED
  BY <1>1, <1>2, <1>3

\* The documents of a case exceed the quota by less than the requests in flight add.
THEOREM QuotaHolds == Spec => []OvershootIsBounded
<1>1. Init => OvershootIsBounded
  <2>. SUFFICES ASSUME Init
                PROVE  OvershootIsBounded
    OBVIOUS
  <2>1. Created = {} /\ Initiating = {}
    BY DEF Init, Created, Is, Initiating, IdleRequest
  <2>. QED
    BY <2>1, Counted, FS_EmptySet, DocumentsAssumption DEF OvershootIsBounded
<1>2. IInv /\ OvershootIsBounded /\ [Next]_vars => OvershootIsBounded'
  BY QuotaStep
<1>. QED
  BY <1>1, <1>2, KnowledgeStays, PTL DEF Spec

================================================================================
