--------------------------------- MODULE Intake ----------------------------------
(***************************************************************************)
(* The submission of a report from the public form, its attachments and    *)
(* their malware scan.                                                     *)
(*                                                                         *)
(* One press of the button is a chain of requests: the API checks the      *)
(* version of the consent text and then, in a transaction, creates the     *)
(* report; for each file the form asks for an upload URL, which creates    *)
(* the attachment, and puts the content straight into the object storage.  *)
(* Only at the end is the tracking code shown. After any failure the form  *)
(* can be sent again, and makes another report. The worker scans           *)
(* attachments, oldest first, and passes over those without content.       *)
(***************************************************************************)
EXTENDS Integers, FiniteSets

CONSTANTS
    Reports,        \* the reports there can be, in the order they are asked for
    Files,          \* the files added to the form, in their order
    Infected,       \* those the scanner finds infected
    Runs,           \* the runs of the scan job that can overlap
    BatchSize,      \* attachments a run looks at
    MaxVersion,     \* bound for TLC: versions of the consent text
    MaxFaults       \* bound for TLC: requests and scans that fail, runs that die

ASSUME IntakeAssumption ==
    /\ Reports \subseteq Nat \ {0} /\ IsFiniteSet(Reports)
    /\ Files \subseteq Nat /\ IsFiniteSet(Files) /\ Files # {}
    /\ Infected \subseteq Files
    /\ BatchSize \in Nat \ {0} /\ MaxVersion \in Nat \ {0} /\ MaxFaults \in Nat

VARIABLES
    form,           \* the form in the browser
    reports,        \* requests to create a report, and the reports
    attachments,    \* report_attachments: the verdict of the scan
    stored,         \* the attachments whose content is in the object storage
    active,         \* the version of the consent text in force
    runs,           \* what each run has still to scan, and its verdict
    faults          \* the requests that failed and the runs that died

vars == <<form, reports, attachments, stored, active, runs, faults>>

Attachments == Reports \X Files

\* `version`: the one the form, or the report, names. `since`: the one in force when the
\* report was asked for.
Form == [phase : {"filling", "posting", "attaching", "uploading", "shown"},
         report : Reports \cup {0}, todo : SUBSET Files, version : 1..MaxVersion]

Report == [status : {"none", "asked", "checked", "refused", "made"},
           version : 0..MaxVersion, since : 0..MaxVersion]

Run == [phase : {"idle", "next", "judged"}, todo : SUBSET Attachments]

IdleRun == [phase |-> "idle", todo |-> {}]

TypeOK ==
    /\ form \in Form
    /\ (form.report = 0) = (form.phase = "filling")
    /\ (form.todo # {}) = (form.phase \in {"attaching", "uploading"})
    /\ reports \in [Reports -> Report]
    /\ attachments \in [Attachments -> {"none", "PENDING", "CLEAN", "REJECTED"}]
    /\ stored \subseteq Attachments
    /\ active \in 1..MaxVersion
    /\ runs \in [Runs -> Run]
    /\ \A j \in Runs : (runs[j].todo = {}) = (runs[j].phase = "idle")
    /\ faults \in 0..MaxFaults

IsReport(r, status) == reports[r].status = status

Before(a, b) == a[1] < b[1] \/ (a[1] = b[1] /\ a[2] < b[2])

Oldest(n, S) == {a \in S : Cardinality({b \in S : Before(b, a)}) < n}

First(S) == CHOOSE a \in S : \A b \in S \ {a} : Before(a, b)

(***************************************************************************)
(* The consent text                                                        *)
(***************************************************************************)
Publish ==
    /\ active < MaxVersion
    /\ active' = active + 1
    /\ UNCHANGED <<form, reports, attachments, stored, runs, faults>>

\* The page is loaded, and with it the text: an open form does not look for a new one.
Load ==
    /\ form.phase = "filling"
    /\ form' = [form EXCEPT !.version = active]
    /\ UNCHANGED <<reports, attachments, stored, active, runs, faults>>

(***************************************************************************)
(* The form                                                                *)
(***************************************************************************)
Filling == [form EXCEPT !.phase = "filling", !.report = 0, !.todo = {}]

\* Mutant: the button stays enabled while a submission is going on.
CanSubmitAlways == form.phase \in {"filling", "posting"}

\* isSubmitting disables the button.
CanSubmit == form.phase = "filling"

Submit ==
    /\ CanSubmit
    /\ \E r \in {x \in Reports : IsReport(x, "none")} :
          /\ \A x \in Reports : x < r => ~IsReport(x, "none")
          /\ form' = [form EXCEPT !.phase = "posting", !.report = r]
          /\ reports' = [reports EXCEPT ![r] =
                 [status |-> "asked", version |-> form.version, since |-> active]]
    /\ UNCHANGED <<attachments, stored, active, runs, faults>>

\* The report is made, and its code known to the form but not shown yet.
Posted ==
    /\ form.phase = "posting" /\ IsReport(form.report, "made")
    /\ form' = [form EXCEPT !.phase = "attaching", !.todo = Files]
    /\ UNCHANGED <<reports, attachments, stored, active, runs, faults>>

\* Mutant: the error is shown and the form goes on waiting.
RefusedWaits ==
    /\ form.phase = "posting" /\ IsReport(form.report, "refused")
    /\ UNCHANGED vars

Refused ==
    /\ form.phase = "posting" /\ IsReport(form.report, "refused")
    /\ form' = Filling
    /\ UNCHANGED <<reports, attachments, stored, active, runs, faults>>

\* The attachment whose turn it is.
Current == First({form.report} \X form.todo)

\* createPresignedPutUrl and the attachment's row.
Initiate ==
    /\ form.phase = "attaching"
    /\ attachments' = [attachments EXCEPT ![Current] = "PENDING"]
    /\ form' = [form EXCEPT !.phase = "uploading"]
    /\ UNCHANGED <<reports, stored, active, runs, faults>>

\* On to the next file, or to the page that shows the tracking code.
Uploaded ==
    LET rest == form.todo \ {Current[2]}
    IN  form' = [form EXCEPT !.todo = rest,
                     !.phase = IF rest = {} THEN "shown" ELSE "attaching"]

Upload ==
    /\ form.phase = "uploading"
    /\ stored' = stored \cup {Current}
    /\ Uploaded
    /\ UNCHANGED <<reports, attachments, active, runs, faults>>

(***************************************************************************)
(* The API: createReport                                                   *)
(***************************************************************************)
\* Mutant: any version there has been will do.
InForceOnce(version) == version <= active

\* assertActiveKvkkVersion.
InForce(version) == version = active

Check(r) ==
    /\ IsReport(r, "asked")
    /\ reports' = [reports EXCEPT ![r].status =
           IF InForce(reports[r].version) THEN "checked" ELSE "refused"]
    /\ UNCHANGED <<form, attachments, stored, active, runs, faults>>

\* The transaction, some time after the check: hashing and encryption lie between.
Create(r) ==
    /\ IsReport(r, "checked")
    /\ reports' = [reports EXCEPT ![r].status = "made"]
    /\ UNCHANGED <<form, attachments, stored, active, runs, faults>>

(***************************************************************************)
(* The scan job                                                            *)
(***************************************************************************)
\* Mutant: the batch takes attachments whatever their status.
CandidatesAll == {a \in Attachments : attachments[a] # "none"}

Candidates == {a \in Attachments : attachments[a] = "PENDING"}

StartRun(j) ==
    /\ runs[j].phase = "idle" /\ Candidates # {}
    /\ runs' = [runs EXCEPT ![j] = [phase |-> "next", todo |-> Oldest(BatchSize, Candidates)]]
    /\ UNCHANGED <<form, reports, attachments, stored, active, faults>>

Turn(j) == First(runs[j].todo)

Advance(j) ==
    LET rest == runs[j].todo \ {Turn(j)}
    IN  runs' = [runs EXCEPT ![j] =
            IF rest = {} THEN IdleRun ELSE [phase |-> "next", todo |-> rest]]

\* No content yet: another run will see.
Skip(j) ==
    /\ runs[j].phase = "next" /\ Turn(j) \notin stored
    /\ Advance(j)
    /\ UNCHANGED <<form, reports, attachments, stored, active, faults>>

\* The content is read and scanned; a file's hash does not change under the form.
Scan(j) ==
    /\ runs[j].phase = "next" /\ Turn(j) \in stored
    /\ runs' = [runs EXCEPT ![j].phase = "judged"]
    /\ UNCHANGED <<form, reports, attachments, stored, active, faults>>

\* Under the advisory lock, and if nothing is decided yet.
Decide(j) ==
    /\ runs[j].phase = "judged"
    /\ attachments' = IF attachments[Turn(j)] = "PENDING"
                      THEN [attachments EXCEPT ![Turn(j)] =
                                IF Turn(j)[2] \in Infected THEN "REJECTED" ELSE "CLEAN"]
                      ELSE attachments
    /\ Advance(j)
    /\ UNCHANGED <<form, reports, stored, active, faults>>

(***************************************************************************)
(* Errors                                                                  *)
(***************************************************************************)
Fault == faults < MaxFaults /\ faults' = faults + 1

\* The connection is lost, the rate limit is reached or the page is left; a request
\* that has arrived goes on.
PostFails ==
    /\ Fault
    /\ form.phase = "posting"
    /\ form' = Filling
    /\ UNCHANGED <<reports, attachments, stored, active, runs>>

CreateFails(r) ==
    /\ Fault
    /\ reports[r].status \in {"asked", "checked"}
    /\ reports' = [reports EXCEPT ![r].status = "refused"]
    /\ UNCHANGED <<form, attachments, stored, active, runs>>

\* The row may be there.
InitiateFails ==
    /\ Fault
    /\ form.phase = "attaching"
    /\ attachments' \in {attachments, [attachments EXCEPT ![Current] = "PENDING"]}
    /\ form' = Filling
    /\ UNCHANGED <<reports, stored, active, runs>>

\* Mutant: an upload that fails does not end the submission.
UploadFailsQuietly ==
    /\ Fault
    /\ form.phase = "uploading"
    /\ Uploaded
    /\ UNCHANGED <<reports, attachments, stored, active, runs>>

\* The content may be there.
UploadFails ==
    /\ Fault
    /\ form.phase = "uploading"
    /\ stored' \in {stored, stored \cup {Current}}
    /\ form' = Filling
    /\ UNCHANGED <<reports, attachments, active, runs>>

\* The storage or the scanner does not answer.
ScanFails(j) ==
    /\ Fault
    /\ runs[j].phase = "next"
    /\ Advance(j)
    /\ UNCHANGED <<form, reports, attachments, stored, active>>

RunDies(j) ==
    /\ Fault
    /\ runs[j].phase # "idle"
    /\ runs' = [runs EXCEPT ![j] = IdleRun]
    /\ UNCHANGED <<form, reports, attachments, stored, active>>

(***************************************************************************)
(* Specification                                                           *)
(***************************************************************************)
Init ==
    /\ form = [phase |-> "filling", report |-> 0, todo |-> {}, version |-> 1]
    /\ reports = [r \in Reports |-> [status |-> "none", version |-> 0, since |-> 0]]
    /\ attachments = [a \in Attachments |-> "none"]
    /\ stored = {}
    /\ active = 1
    /\ runs = [j \in Runs |-> IdleRun]
    /\ faults = 0

Job(j) == StartRun(j) \/ Skip(j) \/ Scan(j) \/ Decide(j)

Browser == Posted \/ Refused \/ Initiate \/ Upload

Next ==
    \/ Publish \/ Load \/ Submit \/ Browser
    \/ PostFails \/ InitiateFails \/ UploadFails
    \/ \E r \in Reports : Check(r) \/ Create(r) \/ CreateFails(r)
    \/ \E j \in Runs : Job(j) \/ ScanFails(j) \/ RunDies(j)

Spec == Init /\ [][Next]_vars

\* A submission goes on, a request that has arrived is served, the timer starts runs for
\* ever. The reporter need not do anything.
FairSpec ==
    /\ Spec
    /\ WF_vars(Browser)
    /\ \A r \in Reports : WF_vars(Check(r) \/ Create(r))
    /\ \A j \in Runs : WF_vars(Job(j))

(***************************************************************************)
(* Properties                                                              *)
(***************************************************************************)
\* When the tracking code is shown, the report exists with every attachment of the form
\* and the content of each: what the reporter believes to have handed in is there
\* (submitReport in ReportFormPage.tsx).
ShownIsComplete ==
    form.phase = "shown" =>
       /\ IsReport(form.report, "made")
       /\ \A f \in Files :
             attachments[<<form.report, f>>] # "none" /\ <<form.report, f>> \in stored

\* A report whose code nobody knows costs a fault: the form makes no second report
\* unless the first submission failed, even if the request it gave up goes on to make
\* its report later (submitReport, createReport).
UnknownReportsAreFaults ==
    Cardinality({r \in Reports : IsReport(r, "made") /\ form.report # r}) <= faults

\* A report names the consent text that was in force when it was handed in, or a later
\* one, however long the form stood open (assertActiveKvkkVersion).
ConsentIsCurrent ==
    \A r \in Reports : IsReport(r, "made") => reports[r].version >= reports[r].since

\* The form does not hang: a submission ends with the code or with the form open again,
\* whatever fails and in whatever order (the finally of submitReport).
SubmissionEnds ==
    form.phase \in {"posting", "attaching", "uploading"} ~> form.phase \in {"filling", "shown"}

\* Attachments that will never have content fill the batch when there are enough.
Clogged == Cardinality({a \in Candidates : a \notin stored}) >= BatchSize

\* An attachment with content is judged, although those that a failed submission left
\* without content stay in the batch for ever, unless they fill it
\* (ClamAvScanJob.processPendingBatch).
UploadedIsJudged ==
    \A a \in Attachments : a \in stored ~> (attachments[a] \in {"CLEAN", "REJECTED"} \/ []Clogged)

================================================================================
