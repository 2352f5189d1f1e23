------------------------------ MODULE IntakeProofs ------------------------------
(***************************************************************************)
(* Theorems about the submission of a report, for every number of reports, *)
(* files, runs of the scan, versions of the text and faults.               *)
(*                                                                         *)
(* The form knows of its report only what it was answered. Progress says   *)
(* what that is worth at each phase, Loose counts the reports that the     *)
(* form has given up, and Agreed follows the version from the request to   *)
(* the report.                                                             *)
(***************************************************************************)
EXTENDS Intake, FiniteSetTheorems, WellFoundedInduction, TLAPS

(***************************************************************************)
(* The first of a set                                                      *)
(***************************************************************************)
\* A set of natural numbers that is not empty has a least one.
LEMMA LeastNumber ==
    ASSUME NEW T \in SUBSET Nat, T # {}
    PROVE  \E x \in T : \A y \in T : x <= y
<1>. DEFINE R == OpToRel(<, Nat)
<1>1. IsWellFoundedOn(R, Nat)
  BY NatLessThanWellFounded
<1>2. R = {ss \in Nat \X Nat : ss[1] < ss[2]}
  BY DEF OpToRel
<1>. HIDE DEF R
<1>3. PICK x \in T : \A y \in T : ~(<<y, x>> \in R)
  BY <1>1, WFMin
<1>4. ASSUME NEW y \in T
      PROVE  x <= y
  <2>1. ~(y < x)
    BY <1>2, <1>3
  <2>. QED
    BY <2>1
<1>. QED
  BY <1>4

\* First finds one of the attachments it is given, and none comes before it.
LEMMA FirstIsIn ==
    ASSUME NEW S \in SUBSET Attachments, S # {}
    PROVE  First(S) \in S /\ \A b \in S : ~Before(b, First(S))
<1>1. \A a \in S : a \in Reports \X Files /\ a[1] \in Nat /\ a[2] \in Nat
  BY IntakeAssumption DEF Attachments
<1>. DEFINE Firsts == {a[1] : a \in S}
<1>2. PICK x \in Firsts : \A y \in Firsts : x <= y
  <2>1. Firsts \in SUBSET Nat /\ Firsts # {}
    BY <1>1
  <2>. QED
    BY <2>1, LeastNumber
<1>. DEFINE Seconds == {a[2] : a \in {b \in S : b[1] = x}}
<1>3. PICK z \in Seconds : \A y \in Seconds : z <= y
  <2>1. Seconds \in SUBSET Nat /\ Seconds # {}
    BY <1>1, <1>2
  <2>. HIDE DEF Seconds
  <2>. QED
    BY <2>1, LeastNumber
<1>4. PICK a \in S : a[1] = x /\ a[2] = z
  BY <1>3
<1>5. ASSUME NEW b \in S \ {a}
      PROVE  Before(a, b)
  <2>1. x <= b[1] /\ (b[1] = x => z <= b[2])
    BY <1>2, <1>3
  <2>2. b[1] # a[1] \/ b[2] # a[2]
    BY <1>1
  <2>. QED
    BY <1>1, <1>4, <2>1, <2>2 DEF Before
<1>6. First(S) \in S /\ \A b \in S \ {First(S)} : Before(First(S), b)
  BY <1>5 DEF First
<1>. QED
  BY <1>1, <1>6 DEF Before

(***************************************************************************)
(* Types                                                                   *)
(***************************************************************************)
\* The bound on the faults.
LEMMA FaultType ==
    ASSUME TypeOK, Fault
    PROVE  faults' \in 0..MaxFaults /\ faults' = faults + 1
BY IntakeAssumption DEF TypeOK, Fault

\* The attachment whose turn it is.
LEMMA CurrentFile ==
    ASSUME TypeOK, form.phase \in {"attaching", "uploading"}
    PROVE  /\ form.report \in Reports /\ form.todo \subseteq Files
           /\ Current \in Attachments /\ Current[1] = form.report /\ Current[2] \in form.todo
<1>1. form.report \in Reports /\ form.todo # {} /\ form.todo \subseteq Files
  BY DEF TypeOK, Form
<1>. DEFINE S == {form.report} \X form.todo
<1>2. S \in SUBSET Attachments /\ S # {}
  <2>1. PICK f \in form.todo : TRUE
    BY <1>1
  <2>2. <<form.report, f>> \in S
    BY <2>1
  <2>3. S \subseteq Attachments
    BY <1>1 DEF Attachments
  <2>. QED
    BY <2>2, <2>3
<1>3. Current \in S
  BY <1>2, FirstIsIn DEF Current
<1>. QED
  BY <1>1, <1>2, <1>3

\* The form with the next file, or shown.
LEMMA UploadedType ==
    ASSUME TypeOK, form.phase = "uploading", Uploaded
    PROVE  /\ form' \in Form
           /\ (form'.report = 0) = (form'.phase = "filling")
           /\ (form'.todo # {}) = (form'.phase \in {"attaching", "uploading"})
           /\ form'.report = form.report /\ form'.todo = form.todo \ {Current[2]}
           /\ form'.phase = IF form'.todo = {} THEN "shown" ELSE "attaching"
<1>. DEFINE rest == form.todo \ {Current[2]}
            next == IF rest = {} THEN "shown" ELSE "attaching"
<1>1. form' = [form EXCEPT !.todo = rest, !.phase = next]
  BY DEF Uploaded
<1>2. rest \in SUBSET Files /\ next \in {"shown", "attaching"} /\ (rest # {}) = (next = "attaching")
  BY DEF TypeOK, Form
<1>. HIDE DEF rest, next
<1>3. form' \in Form /\ form'.todo = rest /\ form'.phase = next /\ form'.report = form.report
  BY <1>1, <1>2 DEF TypeOK, Form
<1>4. form.report # 0
  BY DEF TypeOK
<1>. QED
  BY <1>2, <1>3, <1>4 DEF rest, next

\* The form that can be sent again.
LEMMA FillingType ==
    ASSUME TypeOK
    PROVE  Filling \in Form /\ Filling.report = 0 /\ Filling.phase = "filling" /\ Filling.todo = {}
BY DEF TypeOK, Form, Filling

\* The form, whatever it does.
LEMMA FormTypes ==
    ASSUME TypeOK,
           \/ Publish \/ Load \/ Submit \/ Posted \/ Refused \/ Initiate \/ Upload
           \/ PostFails \/ InitiateFails \/ UploadFails
    PROVE  TypeOK'
<1>1. CASE Publish
  BY <1>1, IntakeAssumption DEF TypeOK, Publish
<1>2. CASE Load
  BY <1>2 DEF TypeOK, Load, Form
<1>3. CASE Submit
  <2>1. PICK r \in Reports :
          /\ form' = [form EXCEPT !.phase = "posting", !.report = r]
          /\ reports' = [reports EXCEPT ![r] =
                 [status |-> "asked", version |-> form.version, since |-> active]]
    BY <1>3 DEF Submit
  <2>2. [status |-> "asked", version |-> form.version, since |-> active] \in Report
    BY IntakeAssumption DEF TypeOK, Form, Report
  <2>3. reports' \in [Reports -> Report]
    BY <2>1, <2>2 DEF TypeOK
  <2>4. /\ form' \in Form /\ form'.phase = "posting" /\ form'.report = r /\ form'.todo = form.todo
        /\ form.todo = {} /\ r # 0
    BY <1>3, <2>1, IntakeAssumption DEF TypeOK, Form, Submit, CanSubmit
  <2>5. (form'.report = 0) = (form'.phase = "filling")
    BY <2>4
  <2>6. (form'.todo # {}) = (form'.phase \in {"attaching", "uploading"})
    BY <2>4
  <2>7. UNCHANGED <<attachments, stored, active, runs, faults>>
    BY <1>3 DEF Submit
  <2>. QED
    BY <2>3, <2>4, <2>5, <2>6, <2>7 DEF TypeOK, Attachments, Report
<1>4. CASE Posted
  BY <1>4, IntakeAssumption DEF TypeOK, Posted, Form
<1>5. CASE Refused
  BY <1>5, FillingType DEF TypeOK, Refused
<1>6. CASE Initiate
  BY <1>6 DEF TypeOK, Initiate, Form
<1>7. CASE Upload
  <2>1. stored' \subseteq Attachments
    BY <1>7, CurrentFile DEF TypeOK, Upload
  <2>. QED
    BY <1>7, <2>1, UploadedType DEF TypeOK, Upload
<1>8. CASE PostFails
  BY <1>8, FaultType, FillingType DEF TypeOK, PostFails
<1>9. CASE InitiateFails
  <2>1. attachments' \in [Attachments -> {"none", "PENDING", "CLEAN", "REJECTED"}]
    BY <1>9 DEF TypeOK, InitiateFails
  <2>. QED
    BY <1>9, <2>1, FaultType, FillingType DEF TypeOK, InitiateFails
<1>10. CASE UploadFails
  <2>1. stored' \subseteq Attachments
    BY <1>10, CurrentFile DEF TypeOK, UploadFails
  <2>. QED
    BY <1>10, <2>1, FaultType, FillingType DEF TypeOK, UploadFails
<1>. QED
  BY <1>1, <1>2, <1>3, <1>4, <1>5, <1>6, <1>7, <1>8, <1>9, <1>10

\* The API.
LEMMA ReportTypes ==
    ASSUME TypeOK, NEW r \in Reports, Check(r) \/ Create(r) \/ CreateFails(r)
    PROVE  TypeOK'
<1>1. reports' \in [Reports -> Report]
  BY DEF TypeOK, Check, Create, CreateFails, Report
<1>2. faults' \in 0..MaxFaults
  BY FaultType DEF TypeOK, Check, Create, CreateFails
<1>3. UNCHANGED <<form, attachments, stored, active, runs>>
  BY DEF Check, Create, CreateFails
<1>. QED
  BY <1>1, <1>2, <1>3 DEF TypeOK

\* A run that goes on.
LEMMA AdvanceType ==
    ASSUME TypeOK, NEW j \in Runs, Advance(j)
    PROVE  runs' \in [Runs -> Run] /\ \A i \in Runs : (runs'[i].todo = {}) = (runs'[i].phase = "idle")
<1>. DEFINE rest == runs[j].todo \ {Turn(j)}
            going == IF rest = {} THEN IdleRun ELSE [phase |-> "next", todo |-> rest]
<1>1. going \in Run /\ (going.todo = {}) = (going.phase = "idle")
  BY DEF TypeOK, Run, IdleRun
<1>2. runs' = [runs EXCEPT ![j] = going]
  BY DEF Advance
<1>. HIDE DEF going
<1>. QED
  BY <1>1, <1>2 DEF TypeOK

\* The batch of a run has an attachment in it.
LEMMA BatchType ==
    ASSUME TypeOK, Candidates # {}
    PROVE  Oldest(BatchSize, Candidates) \in (SUBSET Attachments) \ {{}}
<1>1. Candidates \in SUBSET Attachments
  BY DEF Candidates
<1>2. First(Candidates) \in Candidates /\ {b \in Candidates : Before(b, First(Candidates))} = {}
  BY <1>1, FirstIsIn
<1>3. First(Candidates) \in Oldest(BatchSize, Candidates)
  BY <1>2, FS_EmptySet, IntakeAssumption DEF Oldest
<1>. QED
  BY <1>1, <1>3 DEF Oldest

\* The scan job.
LEMMA JobTypes ==
    ASSUME TypeOK, NEW j \in Runs, Job(j) \/ ScanFails(j) \/ RunDies(j)
    PROVE  TypeOK'
<1>1. CASE StartRun(j)
  <2>1. runs' = [runs EXCEPT ![j] = [phase |-> "next", todo |-> Oldest(BatchSize, Candidates)]]
    BY <1>1 DEF StartRun
  <2>2. Oldest(BatchSize, Candidates) \in (SUBSET Attachments) \ {{}}
    BY <1>1, BatchType DEF StartRun
  <2>3. runs' \in [Runs -> Run] /\ \A i \in Runs : (runs'[i].todo = {}) = (runs'[i].phase = "idle")
    BY <2>1, <2>2 DEF TypeOK, Run
  <2>. QED
    BY <1>1, <2>3 DEF StartRun, TypeOK
<1>2. CASE Skip(j)
  BY <1>2, AdvanceType DEF Skip, TypeOK
<1>3. CASE Scan(j)
  BY <1>3 DEF Scan, TypeOK, Run
<1>4. CASE Decide(j)
  BY <1>4, AdvanceType DEF Decide, TypeOK
<1>5. CASE ScanFails(j)
  BY <1>5, AdvanceType, FaultType DEF ScanFails, TypeOK
<1>6. CASE RunDies(j)
  BY <1>6, FaultType DEF RunDies, TypeOK, Run, IdleRun
<1>. QED
  BY <1>1, <1>2, <1>3, <1>4, <1>5, <1>6 DEF Job

\* Every step.
LEMMA TypeStep ==
    ASSUME TypeOK, [Next]_vars
    PROVE  TypeOK'
<1>1. CASE UNCHANGED vars
  BY <1>1 DEF vars, TypeOK
<1>. QED
  BY <1>1, FormTypes, ReportTypes, JobTypes DEF Next, Browser

\* The form, the reports, the attachments and the runs have their types.
THEOREM IntakeTypes == Spec => []TypeOK
<1>1. Init => TypeOK
  BY IntakeAssumption DEF Init, TypeOK, Form, Report, Run, IdleRun
<1>. QED
  BY <1>1, TypeStep, PTL DEF Spec

(***************************************************************************)
(* What the form may believe                                               *)
(***************************************************************************)
Known(r) == reports[r].status \in {"asked", "checked", "made"}

\* What is handed in of a report.
Handed(r, f) == attachments[<<r, f>>] # "none" /\ <<r, f>> \in stored

\* At each phase: the report was asked for, is made, has the files that are done.
Progress ==
    /\ form.phase = "posting" => ~IsReport(form.report, "none")
    /\ form.phase \in {"attaching", "uploading", "shown"} =>
          /\ IsReport(form.report, "made")
          /\ \A f \in Files \ form.todo : Handed(form.report, f)
    /\ form.phase = "uploading" => attachments[Current] # "none"

\* Attachments are not forgotten, and a report that is made stays so.
Keeps ==
    /\ \A a \in Attachments : attachments[a] # "none" => attachments'[a] # "none"
    /\ stored \subseteq stored'
    /\ \A r \in Reports : /\ ~IsReport(r, "none") => reports'[r].status # "none"
                          /\ IsReport(r, "made") => reports'[r].status = "made"

\* Every step keeps them.
LEMMA KeepsStep ==
    ASSUME TypeOK, [Next]_vars
    PROVE  Keeps
<1>1. CASE UNCHANGED vars
  BY <1>1 DEF vars, Keeps, IsReport
<1>2. CASE Submit
  BY <1>2 DEF Submit, Keeps, IsReport, TypeOK
<1>3. CASE Publish \/ Load \/ Posted \/ Refused \/ PostFails
  BY <1>3 DEF Publish, Load, Posted, Refused, PostFails, Keeps, IsReport
<1>4. CASE Initiate \/ InitiateFails
  <2>1. attachments' \in {attachments, [attachments EXCEPT ![Current] = "PENDING"]}
    BY <1>4 DEF Initiate, InitiateFails
  <2>. QED
    BY <1>4, <2>1 DEF Initiate, InitiateFails, Keeps, IsReport, TypeOK
<1>5. CASE Upload \/ UploadFails
  BY <1>5 DEF Upload, UploadFails, Keeps, IsReport
<1>6. ASSUME NEW r \in Reports, Check(r) \/ Create(r) \/ CreateFails(r)
      PROVE  Keeps
  BY <1>6 DEF Check, Create, CreateFails, Keeps, IsReport, TypeOK, Report
<1>7. ASSUME NEW j \in Runs, Decide(j)
      PROVE  Keeps
  BY <1>7 DEF Decide, Keeps, IsReport, TypeOK
<1>8. ASSUME NEW j \in Runs, StartRun(j) \/ Skip(j) \/ Scan(j) \/ ScanFails(j) \/ RunDies(j)
      PROVE  Keeps
  BY <1>8 DEF StartRun, Skip, Scan, ScanFails, RunDies, Keeps, IsReport
<1>. QED
  BY <1>1, <1>2, <1>3, <1>4, <1>5, <1>6, <1>7, <1>8 DEF Next, Browser, Job

\* A form that the step leaves alone may believe what it did.
LEMMA ProgressStays ==
    ASSUME TypeOK, Progress, Keeps, form' = form
    PROVE  Progress'
<1>1. form.phase # "filling" => form.report \in Reports
  BY DEF TypeOK, Form
<1>2. Current' = Current
  BY DEF Current
<1>3. form.phase = "uploading" => Current \in Attachments
  BY CurrentFile
<1>4. \A r \in Reports, f \in Files : <<r, f>> \in Attachments
  BY DEF Attachments
<1>. QED
  BY <1>1, <1>2, <1>3, <1>4 DEF Progress, Keeps, Handed, IsReport, TypeOK, Form

\* Every step.
LEMMA ProgressStep ==
    ASSUME TypeOK, Progress, [Next]_vars
    PROVE  Progress'
<1>1. Keeps
  BY KeepsStep
<1>2. CASE form' = form
  BY <1>1, <1>2, ProgressStays
<1>3. CASE Load \/ Refused \/ PostFails \/ InitiateFails \/ UploadFails
  <2>1. form'.phase = "filling"
    BY <1>3, FillingType DEF Load, Refused, PostFails, InitiateFails, UploadFails, TypeOK, Form
  <2>. QED
    BY <2>1 DEF Progress
<1>4. CASE Submit
  <2>1. form'.phase = "posting" /\ form'.report \in Reports /\ reports'[form'.report].status = "asked"
    BY <1>4 DEF Submit, TypeOK, Form
  <2>. QED
    BY <2>1 DEF Progress, IsReport
<1>5. CASE Posted
  <2>1. /\ form'.phase = "attaching" /\ form'.report = form.report /\ form'.todo = Files
        /\ reports' = reports
    BY <1>5 DEF Posted, TypeOK, Form
  <2>. QED
    BY <1>5, <2>1 DEF Progress, Posted, IsReport
<1>6. CASE Initiate
  <2>1. /\ form'.phase = "uploading" /\ form'.report = form.report /\ form'.todo = form.todo
        /\ form.phase = "attaching"
    BY <1>6 DEF Initiate, TypeOK, Form
  <2>2. Current' = Current /\ Current \in Attachments
    BY <2>1, CurrentFile DEF Current
  <2>3. attachments'[Current] = "PENDING"
    BY <1>6, <2>2 DEF Initiate, TypeOK
  <2>4. \A f \in Files \ form.todo : Handed(form.report, f) /\ <<form.report, f>> \in Attachments
    BY <2>1, CurrentFile DEF Progress, Attachments
  <2>. QED
    BY <1>1, <2>1, <2>2, <2>3, <2>4, CurrentFile DEF Progress, Keeps, Handed, IsReport
<1>7. CASE Upload
  <2>1. /\ form.phase = "uploading" /\ form'.report = form.report
        /\ form'.todo = form.todo \ {Current[2]}
        /\ form'.phase \in {"attaching", "shown"}
    BY <1>7, UploadedType DEF Upload
  <2>2. /\ Current \in Attachments /\ Current = <<form.report, Current[2]>>
        /\ form.report \in Reports
    BY <2>1, CurrentFile DEF Attachments
  <2>3. \A f \in Files \ form.todo : Handed(form.report, f) /\ <<form.report, f>> \in Attachments
    BY <2>1, <2>2 DEF Progress, Attachments
  <2>4. attachments'[Current] # "none" /\ Current \in stored'
    BY <1>7, <2>1 DEF Upload, Progress
  <2>5. \A f \in Files \ form'.todo : attachments'[<<form.report, f>>] # "none" /\ <<form.report, f>> \in stored'
    BY <1>1, <2>1, <2>2, <2>3, <2>4 DEF Keeps, Handed
  <2>6. reports'[form.report].status = "made"
    BY <1>1, <2>1, <2>2 DEF Progress, Keeps
  <2>. QED
    BY <2>1, <2>5, <2>6 DEF Progress, Handed, IsReport
<1>. QED
  BY <1>2, <1>3, <1>4, <1>5, <1>6, <1>7 DEF Next, Browser, Job, Publish, Check, Create, CreateFails,
     StartRun, Skip, Scan, Decide, ScanFails, RunDies, vars

\* When the tracking code is shown, the report is there with every file of the form and
\* its content, whatever was lost before (submitReport).
THEOREM CodeMeansComplete == Spec => []ShownIsComplete
<1>1. Init => Progress
  BY DEF Init, Progress
<1>2. TypeOK /\ Progress /\ [Next]_vars => Progress'
  BY ProgressStep
<1>3. TypeOK /\ Progress => ShownIsComplete
  BY DEF TypeOK, Progress, ShownIsComplete, Handed
<1>. QED
  BY <1>1, <1>2, <1>3, IntakeTypes, PTL DEF Spec

(***************************************************************************)
(* The version a report names                                              *)
(***************************************************************************)
\* What the check found is still there when the report is made.
Agreed(r) ==
    /\ reports[r].since <= active
    /\ reports[r].status \in {"checked", "made"} => reports[r].version >= reports[r].since

\* Every step.
LEMMA AgreedStep ==
    ASSUME TypeOK, \A r \in Reports : Agreed(r), [Next]_vars
    PROVE  \A r \in Reports : Agreed(r)'
<1>1. CASE UNCHANGED <<reports, active>>
  BY <1>1 DEF Agreed
<1>2. CASE Publish
  BY <1>2 DEF Publish, Agreed, TypeOK, Report
<1>3. CASE Submit
  BY <1>3 DEF Submit, Agreed, TypeOK, Form, Report
<1>4. ASSUME NEW x \in Reports, Check(x)
      PROVE  \A r \in Reports : Agreed(r)'
  BY <1>4 DEF Check, InForce, Agreed, IsReport, TypeOK, Report
<1>5. ASSUME NEW x \in Reports, Create(x) \/ CreateFails(x)
      PROVE  \A r \in Reports : Agreed(r)'
  BY <1>5 DEF Create, CreateFails, Agreed, IsReport, TypeOK, Report
<1>. QED
  BY <1>1, <1>2, <1>3, <1>4, <1>5 DEF Next, Browser, Job, Load, Posted, Refused, Initiate, Upload,
     PostFails, InitiateFails, UploadFails, StartRun, Skip, Scan, Decide, ScanFails, RunDies, vars

\* A report names the text that was in force when it was handed in, or a later one
\* (assertActiveKvkkVersion).
THEOREM ConsentHolds == Spec => []ConsentIsCurrent
<1>1. Init => \A r \in Reports : Agreed(r)
  BY DEF Init, Agreed
<1>2. TypeOK /\ (\A r \in Reports : Agreed(r)) /\ [Next]_vars => (\A r \in Reports : Agreed(r))'
  BY AgreedStep
<1>3. (\A r \in Reports : Agreed(r)) => ConsentIsCurrent
  BY DEF Agreed, ConsentIsCurrent, IsReport
<1>. QED
  BY <1>1, <1>2, <1>3, IntakeTypes, PTL DEF Spec

(***************************************************************************)
(* Reports nobody has the code of                                          *)
(***************************************************************************)
\* Requests under way and reports that the form has given up.
Loose == {r \in Reports : Known(r) /\ form.report # r}

\* Sets of reports are finite, and the larger is no smaller.
LEMMA ReportsCount ==
    ASSUME NEW S \in SUBSET Reports, NEW T \in SUBSET S
    PROVE  IsFiniteSet(S) /\ Cardinality(S) \in Nat /\ Cardinality(T) \in Nat
           /\ Cardinality(T) <= Cardinality(S)
<1>1. IsFiniteSet(S)
  BY IntakeAssumption, FS_Subset
<1>2. IsFiniteSet(T) /\ Cardinality(T) <= Cardinality(S)
  BY <1>1, FS_Subset
<1>. QED
  BY <1>1, <1>2, FS_CardinalityType

\* A step that loses no report needs no fault.
LEMMA NothingLost ==
    ASSUME Cardinality(Loose) <= faults, faults \in Nat, faults' \in Nat, faults' >= faults,
           Loose' \subseteq Loose
    PROVE  Cardinality(Loose') <= faults'
<1>1. Loose \in SUBSET Reports /\ Loose' \in SUBSET Loose
  BY DEF Loose
<1>2. Cardinality(Loose') \in Nat /\ Cardinality(Loose) \in Nat /\ Cardinality(Loose') <= Cardinality(Loose)
  BY <1>1, ReportsCount
<1>. QED
  BY <1>2

\* One element more.
LEMMA OneMore ==
    ASSUME NEW S, NEW x, IsFiniteSet(S)
    PROVE  IsFiniteSet(S \cup {x}) /\ Cardinality(S \cup {x}) \in Nat
           /\ Cardinality(S \cup {x}) <= Cardinality(S) + 1
<1>1. IsFiniteSet(S \cup {x})
      /\ Cardinality(S \cup {x}) = IF x \in S THEN Cardinality(S) ELSE Cardinality(S) + 1
  BY FS_AddElement
<1>2. Cardinality(S) \in Nat
  BY FS_CardinalityType
<1>. QED
  BY <1>1, <1>2

\* A fault loses at most one.
LEMMA OneLost ==
    ASSUME Cardinality(Loose) <= faults, faults \in Nat, faults' = faults + 1,
           NEW x, Loose' \subseteq Loose \cup {x}
    PROVE  Cardinality(Loose') <= faults'
<1>1. Loose \in SUBSET Reports
  BY DEF Loose
<1>2. IsFiniteSet(Loose) /\ Cardinality(Loose) \in Nat
  BY <1>1, ReportsCount
<1>3. IsFiniteSet(Loose \cup {x}) /\ Cardinality(Loose \cup {x}) \in Nat
      /\ Cardinality(Loose \cup {x}) <= Cardinality(Loose) + 1
  BY <1>2, OneMore
<1>4. IsFiniteSet(Loose') /\ Cardinality(Loose') <= Cardinality(Loose \cup {x})
  BY <1>3, FS_Subset
<1>5. Cardinality(Loose') \in Nat
  BY <1>4, FS_CardinalityType
<1>. QED
  BY <1>2, <1>3, <1>4, <1>5

\* Every step.
LEMMA LooseStep ==
    ASSUME TypeOK, Cardinality(Loose) <= faults, [Next]_vars
    PROVE  Cardinality(Loose') <= faults'
<1>. faults \in Nat
  BY IntakeAssumption DEF TypeOK
<1>1. CASE UNCHANGED <<reports, form>> /\ (UNCHANGED faults \/ Fault)
  <2>1. Loose' = Loose /\ faults' \in Nat /\ faults' >= faults
    BY <1>1 DEF Loose, Known, Fault
  <2>. QED
    BY <2>1, NothingLost
<1>2. CASE Load \/ Posted \/ Initiate \/ Upload
  <2>1. form'.report = form.report /\ reports' = reports /\ faults' = faults
    BY <1>2, UploadedType DEF Load, Posted, Initiate, Upload, TypeOK, Form
  <2>. QED
    BY <2>1, NothingLost DEF Loose, Known
<1>3. CASE Submit
  <2>1. PICK r \in Reports :
          /\ IsReport(r, "none")
          /\ form' = [form EXCEPT !.phase = "posting", !.report = r]
          /\ reports' = [reports EXCEPT ![r] =
                 [status |-> "asked", version |-> form.version, since |-> active]]
    BY <1>3 DEF Submit
  <2>2. form'.report = r /\ form.report = 0 /\ 0 \notin Reports /\ faults' = faults
    BY <1>3, <2>1, IntakeAssumption DEF TypeOK, Form, Submit, CanSubmit
  <2>3. \A x \in Reports : x # r => reports'[x] = reports[x]
    BY <2>1 DEF TypeOK
  <2>4. Loose' \subseteq Loose
    BY <2>2, <2>3 DEF Loose, Known
  <2>. QED
    BY <2>2, <2>4, NothingLost
<1>4. CASE Refused
  <2>1. form'.report = 0 /\ reports' = reports /\ faults' = faults /\ IsReport(form.report, "refused")
    BY <1>4, FillingType DEF Refused
  <2>2. Loose' \subseteq Loose
    BY <2>1 DEF Loose, Known, IsReport
  <2>. QED
    BY <2>1, <2>2, NothingLost
<1>5. CASE PostFails \/ InitiateFails \/ UploadFails
  <2>1. reports' = reports /\ faults' = faults + 1
    BY <1>5 DEF PostFails, InitiateFails, UploadFails, Fault
  <2>2. Loose' \subseteq Loose \cup {form.report}
    BY <2>1 DEF Loose, Known
  <2>. QED
    BY <2>1, <2>2, OneLost
<1>6. ASSUME NEW r \in Reports, Check(r) \/ Create(r) \/ CreateFails(r)
      PROVE  Cardinality(Loose') <= faults'
  <2>1. form' = form /\ faults' \in Nat /\ faults' >= faults
    BY <1>6 DEF Check, Create, CreateFails, Fault
  <2>2. Known(r) /\ \A x \in Reports : x # r => reports'[x] = reports[x]
    BY <1>6 DEF Check, Create, CreateFails, Known, IsReport, TypeOK
  <2>3. Loose' \subseteq Loose
    BY <2>1, <2>2 DEF Loose, Known
  <2>. QED
    BY <2>1, <2>3, NothingLost
<1>. QED
  BY <1>1, <1>2, <1>3, <1>4, <1>5, <1>6 DEF Next, Browser, Job, Publish,
     StartRun, Skip, Scan, Decide, ScanFails, RunDies, vars

\* A report whose code nobody knows costs a fault: the form makes no second report after
\* a submission that did not fail (submitReport, createReport).
THEOREM UnknownReportsCostFaults == Spec => []UnknownReportsAreFaults
<1>1. Init => Cardinality(Loose) <= faults
  <2>1. Init => Loose = {} /\ faults = 0
    BY DEF Init, Loose, Known
  <2>. QED
    BY <2>1, FS_EmptySet
<1>2. TypeOK /\ Cardinality(Loose) <= faults /\ [Next]_vars => (Cardinality(Loose) <= faults)'
  BY LooseStep
<1>3. TypeOK /\ Cardinality(Loose) <= faults => UnknownReportsAreFaults
  <2>. DEFINE Made == {r \in Reports : IsReport(r, "made") /\ form.report # r}
  <2>1. Loose \in SUBSET Reports /\ Made \in SUBSET Loose
    BY DEF Loose, Known, IsReport
  <2>2. /\ Cardinality(Made) \in Nat /\ Cardinality(Loose) \in Nat
        /\ Cardinality(Made) <= Cardinality(Loose)
    BY <2>1, ReportsCount
  <2>3. TypeOK => faults \in Nat
    BY IntakeAssumption DEF TypeOK
  <2>. QED
    BY <2>2, <2>3 DEF UnknownReportsAreFaults
<1>. QED
  BY <1>1, <1>2, <1>3, IntakeTypes, PTL DEF Spec

================================================================================
