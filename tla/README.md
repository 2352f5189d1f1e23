# A model of the ethics reporting platform

TLA+ specifications of the platform's back end (`apps/api`, `apps/worker`, the shared
packages) and of the report form, the TLC configurations that check them on small instances,
and theorems that TLAPS proves for every instance. Paths below are relative to the
repository.

## 1. The system

An employee submits a report, often anonymously; a council secretary opens a *case* for it;
the case moves through seventeen states by *commands* of users with a role, creates *tasks*
for them, is voted on by the council, and ends closed. Every API request runs in a NestJS
process, every job in a worker process, and they meet only in one PostgreSQL database and an
object storage: there are no messages between them, only rows and objects. Transactions are
Prisma interactive transactions under READ COMMITTED, so each statement sees what is
committed when it runs. Three devices keep writers apart: transaction-scoped advisory locks,
the optimistic `lock_version` of a case, and unique indexes (idempotency keys above all).
The timer of the worker starts a tick every five seconds without waiting for the last one, so
every job can overlap itself.

| Component | State it keeps | Operations | What is hard in it | What makes it correct |
|---|---|---|---|---|
| Workflow tables (`workflow/constants`) | none | the transition map, the task catalog, the completion commands | every command must agree in three tables | the map joins states, every task type has a role |
| Transition engine (`transition.service.ts`, validators, side effects) | `cases`, `case_transitions`, `tasks`, `audit_outbox` | `execute`, `executeInTransaction` | the snapshot is read before the transaction and the lock; some callers take no lock; retries carry keys | no lost update; the history is a path of the map; a key is executed once; clearance holds at the commit |
| Case service | `cases` | open, transition, change confidentiality, lists | the confidentiality changes without the lock | the version counts every write |
| Task service | `tasks` | complete, delegate, list | completion and delegation of one task overlap; a vote and a delegation of an approval task too | a completion is exactly one transition; work is neither lost nor doubled |
| Decision votes | `decision_votes`, tasks | `castVote`, list votes | write skew between last votes; a round that ends, or a task that changes hands, while a vote is in flight | no draft without unanimity, an objection reopens the vote, a task is completed by its holder's vote only, the vote ends |
| Silent acceptance (API runner invoked by the worker) | `decision_votes`, tasks | one run per five minutes | races votes and deactivations | each silent member is counted once; the approval ends |
| Policy scopes and clearance (`packages/policy`) | none | scopes of case and task queries | a scope can hide a task from its holder | nobody acts above their clearance |
| Audit outbox dispatcher | `audit_outbox`, `audit_events` | publish, dispatch | overlapping ticks, failure marks without the lock, lost answers | at most one event per row, no row waits for ever |
| Audit chain and verifier | `audit_events` | the insert trigger, verify | the chain is in the order of insertion, the verifier reads in that of time stamps made earlier | the verifier finds it unbroken |
| Notifications, retention purge | `notification_events`, `notifications` | enqueue, dispatch in app and by e-mail, read, purge | backoff, an e-mail sent inside the transaction that records it, duplicates by subject, marks that come late | what is sent is shown, mail repeats only for errors, every event settles |
| SLA engine and reminders | due dates, calendar, SLA events | due date of a task, calendar entries, reminder run | calendar boundaries; overlapping runs without a lock | due dates count business days; a breach is announced |
| Documents and malware scan | `documents`, `document_versions`, object storage | initiate, complete, scan, time out, download | the URL outlives the sealing; two scans and a timeout decide on one version | nothing infected is served, the first verdict stands, every sealed document is judged |
| Anonymous intake | `reports`, `report_attachments`, object storage | submit, attach, scan | a chain of requests driven by the browser, each of which can fail | a shown code means a complete report; retries make no reports without a reason |
| Tracking, secure messages | `login_attempts`, messages | sign in with a code, message | an attempt counter read and written without a lock | a locked code stays locked |
| Authentication and sessions | `login_attempts`, sessions | OIDC login, load the user | the same counter | as above |
| Administration and maker-checker | change batches, role assignments, clearance requests, copies in memory | propose, approve, reject, revoke, reload | two checkers decide at once; the first look is outside the transaction; the matrix that permits a decision is changed by one | a change is in force once, by another person; the copies follow |
| Master data, monitoring, audit viewer | lookup tables | record keeping, reads | nothing of their own | - |
| Field encryption | keys | encrypt, decrypt | out of a model checker's reach | - |
| Worker process (`main.ts`) | timers | a tick every five seconds | ticks overlap | jobs tolerate overlapping themselves |
| Web client, shared schemas | none | requests | - | - |

`PROJECT.json` lists the same components with their source files, what of each is modelled,
and the hazards, line by line, that the properties are for.

## 2. The modules

| Module | Models |
|---|---|
| `WorkflowMap` | `TRANSITION_MAP`, the task catalog, the completion commands: constant functions. |
| `CaseLedger` | The promise to a reader of the `cases` table: opened once, then one step of the map, or one counted write, at a time. |
| `CaseWorkflow` | The engine: opening, transitions, completing, delegating, confidentiality, the decisions of the council; requests in flight, advisory locks, versions, unique keys, crashes, retries. |
| `DecisionRound` | The council's vote on one case: concurrent votes, the silent acceptance job, rounds, approval tasks that are handed over, deactivations. |
| `CouncilVote` | The promise of the vote: votes come in at once with what follows from them, and the draft is for good. |
| `AuditOutbox` | Publishing audit rows and dispatching them: overlapping ticks, batches, the lock, failure marks, lost answers, crashes. |
| `AuditChain` | The dispatcher of `AuditOutbox` with the keys of the events, the trigger that links them and the verifier. |
| `NotificationDispatch` | Events from the business transaction to the list or the mailbox, reading and purging. |
| `CaseDocuments` | Documents of a case, from the upload URL to the verdict and the download. |
| `Intake` | The report form, the API behind it, the attachments and their scan. |
| `MakerChecker` | Every change of the administration that needs two users, the action matrix, and its copy in memory. |
| `BusinessCalendar` | Due dates in business days, as functions, with a reference definition. |
| `SlaReminders` | Tasks with due dates, a calendar that changes, and the reminder job. |
| `MC...` | Values of the constants for TLC. `MCCaseScenes` has two scenes of `CaseWorkflow` in one instance, which begin with the secretary who opens the case. |
| `CaseWorkflowProofs` | The inductive invariant of `CaseWorkflow`, one lemma per action; what follows from it: history, clearance, the refinement of `CaseLedger`, and what the versions, completions and pending tasks count. |
| `DecisionRoundProofs`, `AuditOutboxProofs`, `NotificationProofs`, `CaseDocumentsProofs`, `IntakeProofs`, `MakerCheckerProofs`, `SlaProofs` | The inductive invariants of the other components and their theorems; `AuditOutboxProofs` has those of `AuditChain`, `SlaProofs` those of `BusinessCalendar` too. |

The components meet in rows. `AuditChain` is composed with `AuditOutbox`, step by step: each
step of the dispatcher is joined with what it does to the chain. `CaseWorkflow` implements
`CaseLedger`, `DecisionRound` implements `CouncilVote`, and `SlaReminders` uses
`BusinessCalendar`. Between the others rows flow one way, and the reader takes them as its
input: what `CaseWorkflow` publishes to the outbox and to the notifications is read by the
dispatchers only; the votes of `DecisionRound` appear in `CaseWorkflow` as the decision they
lead to; a text published in `MakerChecker` is the `active` version of `Intake`, and a policy
approved there one of `Policies`.

### CaseWorkflow

The variables are the tables (`cases`, `transitions`, `tasks`, the keys of `outbox`), what
each request in flight remembers (`requests`), and the advisory locks (`holder`). A request
is cut where another can come in between:

* **Submit**: the reads before the transaction. `TransitionService.execute` remembers the
  state and the version of the case; `completeTask` the task and the case too.
* **Begin**: the lock and all checks inside the transaction. They are one step because the
  transaction makes them between two statements of its own and writes nothing; the level of
  the case, which changes without the lock, cannot differ between them unnoticed, since any
  change raises the version the commit compares.
* **Commit**: the conditional `UPDATE ... WHERE lock_version = ...`, the unique indexes, and
  every row of the transaction, which become visible together. The row lock of the `UPDATE`
  makes a second writer wait and then compare the new version, so comparing at the commit is
  comparing at the `UPDATE`.
* **Reject / Conflict / Crash**: nothing was written; the lock goes with the transaction.

The council's transitions (`castVote`, silent acceptance) reach `executeInTransaction`
without the advisory lock: `UnanimityBegin` and `ObjectionBegin` start validated and hold
nothing. Whether the votes allow them is decided in `DecisionRound`; `CaseWorkflow` lets the
unanimity decision happen whenever the case is in the council's hands, which is more than
the code does. A confidentiality change takes no lock either and is one conditional write.

A key is a tag and a number: the tags stand for the prefixes the code puts before the keys
of tasks, votes and audit events. `ClientNumbers` lets a client use the next number nobody
used or, with `Retries`, any number already used, which is how a retry and a key reused for
another case appear. `Strays` says whether clients also send commands that the state they
look at already forbids; when it is FALSE only commands that were permitted when sent are
sent, and every refusal is a race.

### DecisionRound

One case in `member_approval`. `rounds` has one entry per transition to that state; a vote
belongs to a round. Neither `castVote` nor the job takes the lock of the case, and both read
the active round before their transaction, so a transaction is *read*, *insert*, *decide*,
*commit*: rows that are inserted and not committed are invisible to others but hold the
unique index on (round, voter), which makes a second insert wait (`JobInsert`) or fail
(`JobCollide`). A transaction that fails takes its vote with it. The secretary's and the
members' commands to the transition endpoint, which also move this case, are single steps
(`SecretaryDraft`, `ObjectionCommand`): `CaseWorkflow` has their interleavings.

The approval tasks are rows of their own. A round makes one for each active member
(`NewTasks`), and `delegateTask`, which never asks for the type of a task and which council
members may use, hands them over: so a member can hold several tasks of a round, or none. A
task is named by its round, the member it was made for, how often it was handed over, and its
holder. A vote looks for *one* pending task of the round that its voter holds, in no order
(`Found`), at the insert; `Follow` completes that row when the transaction commits, whatever its
status is then. The job looks for the tasks of its silent members one by one (`JobFind`). A
delegation is `DelegateRead`, `DelegateLock` (the lock of the case and the second look) and
`DelegateCommit`; its update too overwrites the status, and waits only for a transaction that
has already updated the row (`Completing`). For a request this is from *decided* on, because it
updates between its insert and its decision. The job updates each row as soon as it has found
it; the model lets a delegation in until all are found, which allows more.

### AuditOutbox and AuditChain

`outbox` has the status and the retry count of each row, `events` the audit trail in the
order of insertion, each event named by its source row. A tick reads a batch of pending rows
(`TickRead`) and then serves them one by one: `Begin` is the transaction with its lock, the
row read again and the look for its event; `Commit` inserts the event, marks the row and ends
the transaction. `Skip` is the row that somebody else decided. An error shows in one of three
ways: the transaction rolled back (`RowFails`), it committed and the answer was lost
(`AnswerLost`), or the tick itself ended (`TickDies`: the worker died, or the failure mark
failed and the exception left the loop). After the first two comes `MarkFailed`, which is a
statement of its own: no lock, no condition, and the retry count as it was when the batch was
read. Rows are numbered in the order of `created_at`, and may commit in another.

`AuditChain` adds the key of an event, `(created_at, id)`: the Prisma client makes it
(`MakeKey`) before the `INSERT` reaches the database, where the trigger links the event to
the one with the greatest key at that moment (`Link`). The verifier walks the trail in the
order of the keys (`Preceding`). There is one worker, hence one clock; with two, or one that
is set back, nothing keeps the two orders the same. A hash stands for its event.

### NotificationDispatch

`Draft` gives the events of a business transaction their time stamps and `Publish` commits
them, so that events can appear in another order than that of their times. `TickRead` takes
the `WindowSize` oldest events that are pending or to be retried, drops those in their
backoff (`cold`), and keeps `BatchSize`; `Begin` takes the lock, reads the event again and
looks for a notification of the same subject that is not older; `Mail` sends, inside the
transaction; `Commit` creates the notification or not and marks the event. `Refuse` is a
failure that the code foresees and marks in the transaction, `MarkFailed` the mark after an
exception: without the lock, without a condition, and with the retry count that the batch had
read. `Read` and `Purge` are the recipient and the retention job. A notification remembers the
events it `covers`, which no code does: the properties need it.

### CaseDocuments

A request and a run of the job are cut at each object storage call and each transaction:
`InitiateRead` / `InitiateCommit` (the total is read outside the transaction),
`CompleteRead` / `CompletePut` / `CompleteCommit` (the plaintext is replaced by the
ciphertext before the transaction that says so), `DownloadRead` / `DownloadServe`,
`StartExpired` (the timeout after a day, in the same run) / `StartBatch` / `Scan` /
`ScanSkips` / `Decide`. `Put` is the client, at any time while the URL is valid: an object
is *declared*, *altered*, or *sealed*. Only the run that decides compares the status again.
A document without content, whose storage fails or whose scanner does not answer, is passed
over (`ScanSkips`), for ever perhaps; hence the timeout.

### Intake

`form` is the browser: one press of the button (`Submit`) starts a chain of requests,
`Posted`, `Initiate` and `Upload` for each file, ending in *shown*. `Check` and `Create` are
the API on the report; `Create` can come after the form gave up on the answer (`PostFails`).
The form names the version of the text that it loaded (`Load`); `Publish` replaces the text.
The worker's `StartRun`, `Skip`, `Scan`, `Decide` judge attachments, oldest first, in batches;
the last two are the scan outside and the update inside a transaction. One run of this job is
enough: it decides under its lock after reading the attachment again.

### MakerChecker

Every service with a second person is the same machine with other details, and these are the
definitions: who may propose (`ProposeSettings` ... `ElevateClearance`), what is forbidden while
a proposal waits (`Free`), the key under which a decision is audited (`ApplyKey`: with or
without the checker's name), what it does to the rows (`InForce`, `versions`) and whether a copy
in memory is read again (`Reloads`). A decision is `ReadProposal` (roles, matrix and proposal,
outside the transaction) and then one of `Approve...`, `Reject`, `Conflict` (the unique key is
taken); publishing a KVKK text takes two statements (`PublishBegin`, `PublishCommit`), and what
each switches off is what it sees. `ReloadRead` and `ReloadInstall` are the copy read after the
commit and installed later; `Restart` reads it anew. `wrote` remembers the versions that a
request left behind, which no code does: `ReloadHasOwnChange` needs it to tell a later change
from an earlier one. `RevokeRead` / `Revoke` and `LowerRead` / `Lower` are the changes that need
one person.

### BusinessCalendar and SlaReminders

`DueDay` is the loop of `addBusinessDays` (`Walk`, a recursive function) on a *lookup*: the
entries of a span of days that the service reads first. `IsNthBusinessDay` says what a due day
is meant to be, in the whole calendar. Days are numbered so that day 0 is a Sunday; weights are
counted in half days. The day of the assignment counts, whatever its time. `SlaReminders`
creates tasks with due dates (`CreateTask`), changes the calendar (`CreateEntry`, `DeleteEntry`)
and lets time pass in days. A run of the job reads the clock and the tasks once (`StartRun`) and
then serves each task in a transaction without a lock: `Look` finds no earlier event of the
kind, `Tell` inserts one for each recipient; `Collide` is the insertion that another run was
faster with, which aborts the transaction and ends the run.

## 3. The runs

All with two TLC workers; times are those of one machine.

| Run | Instance | Shows | Time |
|---|---|---|---|
| `commands` | two scenes of one case. *Tour*: one request of a user at a time, seven users, every command, 12 entries. *Levels*: two requests, four users on two clearance levels, one level change, decisions without the lock, seven entries | every command of the map is executed and leaves the right task behind; the version counts every write; the history is a path; the engine implements `CaseLedger`; nobody moves or is given a case above their clearance | 100 s |
| `tasks` | two requests, two secretaries, retries, stray commands, crashes, one delegation, three entries, under `FairSpec` | a completed task is exactly one transition by its completer; pending work is neither lost nor doubled; every request ends | 110 s |
| `safe` | two members, two vote requests, the job, two rounds, one deactivation, one delegation of an approval task (`OneBeside`) | votes, rounds, tasks and the case agree, though a task changes hands while it is looked for and completed; the vote implements `CouncilVote` | 100 s |
| `live` | three members of whom one cannot vote, two vote requests, one deactivation | the council decides in the end | 30 s |
| `dispatch` | three rows, two ticks, batches of two, three failures to give up, two faults, under `ChainFairSpec` | no row is copied twice; every row is decided; the verifier finds the chain unbroken | 35 s |
| `events` | two in-app events of one subject and an e-mail, two business transactions, two ticks, batch 1, window 2, two failures to give up, one fault | what is sent is shown; e-mails repeat only for faults; every event settles | 65 s |
| `files` | two documents, one infected, two requests, two runs, a quota of one, batch 1, one fault | nothing infected is served; the first verdict stands; the quota is exceeded by less than the requests; every sealed document is judged | 80 s |
| `decisions` | three users with overlapping roles, two requests, two proposals of one kind (of the matrix and of the visibilities too) or of two kinds that depend on each other (`MCScenarios`) | two persons, no batch twice, contradictions bounded, some text in force, who reloads a copy has the own change or a later one in it | 50 s |
| `reports` | three reports, two files, one infected, one run, batch 2, two versions of the text, two faults | a shown code means a complete report; unknown reports cost faults; the consent is current; the form does not hang; content is judged | 20 s |
| `reminders` | a task of a user and one of a role, policies of 14 business days and of 24 hours, a closure of three weeks after half a working day, one change of the half day (another type, or the entry deleted), three days, two runs, one fault | due dates count business days; a breach is announced although a warning was | 90 s |
| `delegated`, `stuck` | small | the two findings of section 6 | < 10 s each |

**Bounds.** `MaxEntries` caps the history (a submit is disabled when it is full, requests in
flight may still add theirs), `MaxLevelChanges` and `MaxDelegations` the operations that add
none (in `live` no task is handed over: no guard of a vote looks at its task), `OneBeside` what
may go on beside a delegation in `safe` (every member stays, and one vote request or run of the
job at a time is at work; the theorems have neither bound), `MaxRounds` the objections (one
round in `live`: what starts the twenty-four hours again is not part of its question),
`MaxLeavers` the deactivations, `MaxVersion` the texts, `Scenarios` the proposals of each kind,
`LastDay` and `MaxEdits` the clock and the changes of the calendar, and `MaxFaults` everywhere
the errors, lost answers and crashes. A batch is always smaller than what waits for it. Two
requests, ticks or runs are enough for every hazard listed: each concerns one actor and the one
other that comes between two of its steps, and where there is a lock it makes a third wait. The
*tour* needs 12 entries because the longest path without a loop has ten commands and the
follow-up path shares its prefix; *levels* uses seven so that a rapporteur can be assigned,
report and return, or the council decide, while a level changes. The closure of the calendar
reaches from half a working day to the end of the third week, so that a lookup shorter than the
code's ends within it. Deadlock checking is off because the bounds, and closed cases, stop the
system.

**Symmetry.** Request slots, vote requests and interchangeable members are symmetric in
`commands`, `safe` and `decisions`; the runs with liveness properties use none.

**Fairness.** Clients, reporters, members and administrators are never assumed to do anything,
and crashes may happen at any time, but finitely often: a database that fails for ever delivers
nothing.

* `CaseWorkflow`: strong fairness of serving each request. PostgreSQL queues the waiters of an
  advisory lock and grants it in turn.
* `DecisionRound`: weak fairness of the ends of a request and of the twenty-four hours passing,
  strong fairness of each step of a vote transaction and of the job's run (for `JobFind`, of each
  number of members it has yet to look for): the worker starts
  the job every five minutes, a process does not die at the same statement every time, and
  waits on a unique index are granted in turn.
* `AuditChain`, `NotificationDispatch`: strong fairness of the steps of each tick (the timer,
  and the lock in turn), weak fairness of the backoff elapsing.
* `CaseDocuments`: weak fairness of the day passing and of a run that has begun, strong fairness
  of the timeout at the start of a run, which other runs can leave nothing to do. The storage
  and the scanner need never answer.
* `Intake`: weak fairness of the browser's chain, of the API on a request that arrived, and of
  the job.
* `SlaReminders`: weak fairness of starting a run and of going on with it.

## 4. Properties

*Engine.* `HistoryChained`, `VersionCountsWrites`, `CompletionsAreTransitions`,
`CurrentWorkIsAssigned` (which counts pending tasks and does not look at who holds them, see
section 6), `ClearedWhenItCounts`, `ImplementsLedger`, `EveryRequestEnds`.

*Council.* `AnswerOrSilence`: a member's silence is counted only if the member never answered in
that round. `TasksFollowVotes`: a completed approval task stands for the vote of its holder in
that round, a vote completes one task, and a voter's own task is left pending only if the vote
was counted on one that had been handed over to them; all three while tasks change hands between
the look for a task and the commit. `ObjectionReopens`: an objection is recorded only together
with a new round. `DraftNeedsUnanimity`: the case leaves the council only when every eligible
member accepted in the active round. `ImplementsCouncil`: votes come in at once with the new
round or the decision that follows. `CouncilDecides`: a case in the council's hands gets out of
them.

*Audit.* `CopiedOnce`: the outbox and the audit trail agree, at most one event per row.
`EveryRowIsDecided`: no row stays pending; decided is not delivered, see section 6.
`ChainVerifies`: the order in which events were linked is that in which they are read.

*Notifications.* `SentIsShown`: an event that counts as delivered has its notification, though
another event's may have stood in for it and the purge deletes. `RepeatsAreFaults`: at most two
repeated e-mails for each error. `EventsSettle`.

*Documents.* `NothingInfectedIsServed`, `VerdictStands`, `OvershootIsBounded`, `SealedIsJudged`.

*Intake.* `ShownIsComplete`, `UnknownReportsAreFaults`, `ConsentIsCurrent`, `SubmissionEnds`,
`UploadedIsJudged` (unless attachments without content fill the batch for ever).

*Maker-checker.* `FourEyes`, `VersionCountsBatches`, `ContradictionsAreBounded` (contradictory
decisions exist, but only of requests that had read the proposal before the first),
`TextInForce`, `ReloadHasOwnChange`: what a request installs in memory after its approval is its
own change, as long as the table is in the version it wrote, or a later version, never an
earlier one. What another request installs afterwards can be older (section 6).

*SLA.* `DueAfterBusinessDays`: the due day is the reference definition's although only a span of
the calendar is read. `BreachIsAnnounced`: warnings, collisions and failed runs do not keep an
overdue task from being announced.

Each is stated, with the code it is about, above its definition. For each there is a mutant
of the model, an operator that changes it as a plausible bug would (no version in the
`WHERE` clause, a session lock, no lock, a checker in the unique key, an upload error that is
swallowed), and TLC finds the property violated under it.

## 5. Theorems

For every set of cases, users, members, rows, events, documents, reports, proposals, requests,
ticks and runs, and without the bounds having any part in it:

| Theorem | Says |
|---|---|
| `ChecksStayGood`, `TypeCorrect` | `Spec => []IInv` and `[]TypeOK` of `CaseWorkflow` |
| `EngineKeepsLedger` | `Spec => ImplementsLedger`: the engine refines `CaseLedger` |
| `HistoryIsAPath`, `ClearanceCoversWrites` | `[]HistoryChained`, `ClearedWhenItCounts` |
| `LocksExclude` | of the transactions that lock a case, at most one is inside |
| `VersionIsTheCount`, `CompletionsAreExecuted`, `WorkIsAssigned` | `[]VersionCountsWrites`, `[]CompletionsAreTransitions`, `[]CurrentWorkIsAssigned` |
| `RoundTypes`, `OneVoteAMember`, `TasksAreOfVotes`, `ObjectionsReopen`, `DraftIsUnanimous` | the safety properties of `DecisionRound`; the last for councils of which some member stays |
| `VoteIsAtomic` | `Spec => ImplementsCouncil`: the interleaved vote refines `CouncilVote` |
| `HolderServesUncopiedRow`, `OutboxTypeCorrect`, `AuditedOnce` | the inductive invariant, the types and `CopiedOnce` of `AuditOutbox` |
| `ChainTypes`, `ChainUnbroken` | `ChainSpec => []ChainTypeOK` and `[]ChainVerifies` |
| `DispatchTypes`, `SentMeansShown`, `RepeatsCostFaults` | the safety properties of `NotificationDispatch` |
| `DocumentTypes`, `KnowledgeStays`, `InfectedStaysIn`, `FirstVerdictStands`, `QuotaHolds` | those of `CaseDocuments` |
| `IntakeTypes`, `CodeMeansComplete`, `ConsentHolds`, `UnknownReportsCostFaults` | those of `Intake` |
| `DueDayIsNth` | what `addBusinessDays` returns, for every start, duration and covered calendar |
| `SlaTypes`, `DueDatesCount` | `SlaSpec => []SlaTypeOK` and `DueAfterBusinessDays` |
| `DecisionTypes`, `ReadingsStayTrue`, `TwoPersons`, `BatchesApplyOnce`, `SomeTextHolds`, `CopyHasOwnChange`, `ContradictionsEnd` | those of `MakerChecker` |

Their assumptions are the `ASSUME`s of the modules, which TLC evaluates on every run: that
nobody and the system actor are no users, that roles and clearances are functions on users,
that rows are numbered, that requests are finitely many. One of them is about the world and not
about the program: `SpanAssumption` says that closures are not so long that the span that is
read (twice the business days and two weeks more, at least thirty days) holds too few working
days while entries lie beyond it. The code does not enforce it; without it, it takes the holidays
beyond the span for working days.

**The engine.** None of the properties is inductive: a commit writes what its request
checked earlier, and the tables have no trace of that. `IInv` adds what a request *still
knows* (`Fresh`): if it is past its checks, its case is open, the version it read is not
above the case's, and if the two are equal its checks would come out the same now. That is
preserved because every step leaves a case alone, opens it, or raises its version
(`Advance`): if the version of the case did not move, no other field of it did. `Preserve`
says so once for the requests a step does not serve, `PutStep`, `AcceptStep`,
`PreserveFinish` and `RefuseStep` for the one it serves, and there is one lemma per action
on top. At a commit the versions are equal (`Writable`), so the checks hold at the commit:
`CommitPermitted`. From it, the new entry leaves the state of the case along the edge of its
command (`MovingEntry`), which is the step of `CaseLedger`, extends the chain of
`HistoryChained` (`HInv`, `Extend`), and is cleared at the current level. A change of
confidentiality that did not raise the version would break `Advance`, and with it all of
them.

The three counting properties need more, each on top of `IInv`. `LockInv` ties the lock on record
to the transaction that is inside. `QInv` says what a key proves: its tag is that of the kind of
its request, and who is completing a task holds a version under which that task is still pending
(`Claims`, which lasts because whoever takes the task raises the version and versions never fall:
`ClaimsStay`). Then a step adds one element to both of the sets that are compared: an entry and a
version (`VInv`), a completed task and its entry (`CInv`), where two types of task never share a
command; and a new last entry brings its own tasks while those of the state it leaves no longer
count (`WInv`).

**The council.** Nothing but the unique index and the version of the case stands between the
transactions. `OneWriter` is the index: no two rows that are committed or being written are of
one member and round. `Counted` is the version: who found the round complete and still has the
version of the case will find it complete. `Dated` says
that votes are of rounds that have begun and objections of rounds that are over. `Filed` ties
committed votes to tasks and `Claimed` the votes that are being written: each has looked for its
task, found one of its voter or none while the voter's own was not pending, and this stays so
because a task that was never handed over does not come back to a round that has begun
(`OpenStep`); two transactions cannot complete two tasks of one member and round because of
`OneWriter`. `Enough` says that
a council of which some member stays (`MaxLeavers < Cardinality(Members)`) is not empty, so
that unanimity is not that of nobody. For `CouncilVote` a transaction maps to its commit: the
uncommitted rows are no ballots, and at the commit the version says that the case, the round and
the votes that were seen are still those (`Counted`, `RecordingStep`). A transition that did not
compare the version would conclude a case twice, or for a round that is over.

**The dispatchers.** `CopiedOnce` is not inductive: the look for the event of a row and its
insertion are two steps. `Serving` adds that the tick past its look holds the lock and that its
row still has no event. The status of the row is no part of it: while the transaction runs, the
failure mark of another tick can change it. But only the holder inserts events. `found` is
always FALSE: under the lock a row that is still pending has no event, so the look for one is
a second line of defence. For the chain, `Stamped` says that the tick with a key holds the
lock and that its key is above every key in the chain (`Grown`): the newest event is the
preceding one. For notifications, `Looked` says that what a tick found is still there when it
relies on it, `Covers` that a notification covers all that the one it stands in for did, and
`RepeatsAreFaults` follows from a budget: mails sent, plus one for a transaction that may still
send, plus the late marks, never exceed one more than twice the faults.

**Documents.** `Careful`: what a run judged clean is not infected, what a request is about to
serve is sealed and clean; both last because no step takes a verdict back. The quota counts
those who have passed the look and not committed.

**Intake.** `Progress` is what the form knows at each phase, `Loose` counts the reports it has
given up, each for a fault, and `Agreed` follows the version of the text from the form to the
report.

**Maker-checker.** `Known`: the items and the maker of a proposal never change, so what a
request read of it stays true until it decides. The versions agree with the keys (`Consistent`)
because the key of an application names nobody and is unique. `Grows`: a row stays as it is or
its version rises (`Rises`), so what is read after a commit is the row it wrote or a later
version. A text is never left out of force because what a publication switches off is what it
saw, and its own text follows.

**Due dates.** `Walk` is a recursive function, and what it returns is a matter of induction. The
library's induction theorems cannot be instantiated by the provers at hand, but one of its
well-founded orders can, that of finite sets by inclusion: `Least` derives from it that a set of
naturals that is not empty has a least element, and each induction then looks at the least
counterexample. That the loop ends is such an argument (`WorkIsUnbounded`: after the last entry
every Monday has a day of work), that there is a function as `Walk` defines it (`LoopExists`:
the one that returns first days is one), and that it returns the first day on which enough is
done (`WalkIsFirst`, by the days to go). `LookupWeight` and `SpanAssumption` then say that no day
up to the due day is weighed otherwise than in the whole calendar.

**Only model-checked.** The liveness properties (`EveryRequestEnds`, `CouncilDecides`,
`EveryRowIsDecided`, `EventsSettle`, `SealedIsJudged`, `SubmissionEnds`, `UploadedIsJudged`,
`BreachIsAnnounced`): temporal reasoning under fairness is beyond the provers used. Every
safety and action property that a passing run checks is a theorem.

## 6. Where code and documents disagree

Two runs end with a violation; the trace is the evidence.

* `delegated`: a completion that began before a delegation completes the delegated task, and
  the new task stays behind (`task.service.ts`, under the lock only COMPLETED is refused).
* `stuck`: two last approvals in concurrent transactions do not see each other and neither
  moves the case; the silent acceptance job does, a day later (`live` shows that it does).

Met while modelling, and not runs:

* `createTasksForTransition` is given the case as read before the `UPDATE`
  (`transition.side-effects.ts:85`), so the task of a rapporteur or owner who is just being
  assigned has no assignee, or the previous one (`Docs/01_DOMAIN_MODEL.md:234,239`).
* A council member can hand an approval task over like any other (`task.service.ts:363-508` does
  not look at the type; `role-permission-map.ts:56`). Who then holds two tasks of a round has one
  of them completed by their vote, in no order (`decision.service.ts:532`); their own can stay
  pending, although `Docs/06_SCREEN_CATALOG.md:974` says that voting completes it, and who handed
  theirs over completes none. `TasksFollowVotes` says how far this goes.
* A vote, which takes no lock, can complete a task between the second look of a delegation and its
  update by identifier (`task.service.ts:430`): a task that was completed is then delegated, which
  the state machine in `Docs/01_DOMAIN_MODEL.md:593-605` does not have, and its copy is pending.
* Two reloads of the matrix, or of the visibilities, can be installed in the other order than
  they were read (`action-matrix.service.ts:296`); the older copy stays until the next change or
  restart, although `Docs/07_SECURITY_IMPLEMENTATION.md:190` says that permissions are not
  cached. `ReloadHasOwnChange` speaks of the request that installs, not of those that install
  after it.
* The second look for an idempotency key, inside the transaction (`transition.service.ts:122`),
  answers with the transition of whichever case used it; the first (`:63`) refuses that.
* A row of the audit outbox that fails once is marked FAILED and never read again, although
  `Docs/04_BACKEND_SPEC.md:411` promises three attempts with a backoff; its status can even be
  FAILED when its event was written.
* `runWorkerJobsOnce` makes a new `AuditChainVerifyJob` on each tick, so its interval
  (`Docs/04_BACKEND_SPEC.md:422`) never applies: it verifies every five seconds.
* The API runners of the silent acceptance and reminder jobs print their result with
  `console.warn`, to the error stream, and the invokers look for it on the other one: a run that
  succeeded is reported as failed, without harm to what it did.
* A closed case keeps the tasks that were pending in the state it left. A task without an
  assignee is outside the task scope of the chair, the board chair and the rapporteur, who hold
  such tasks by role. Raising the confidentiality above the clearance of the assigned rapporteur
  leaves a case that nobody can move on until it is lowered.
* A failure mark that comes late brings a SENT notification event back.
* Two publications of KVKK texts that overlap can leave two texts active.
  An approval that overlaps a revocation or rejection leaves a role that is active and shown as
  revoked. Approvals of roles and clearances are audited under a key with the checker's name, so
  two checkers can both succeed. The default matrix has rows (ADMIN, COUNCIL_SECRETARY) that
  `assertValidRolePair` would refuse as a change (`Docs/07_SECURITY_IMPLEMENTATION.md:559`).
* The report form never reads the text again: after a refusal for its version only a reload of
  the page helps.
* `warningThresholdHours`, `dailyOverdueNotification` and `escalationRole` of a policy are read by
  no job, and `slaPausedAt` and the legal hold are written by nothing.
* A crash between the put of a ciphertext and the transaction that records it strands the upload
  (`document.service.ts:318`); it is never judged or served.

## 7. What is not modelled

Rows no guard of these handlers reads (`document_access_grants`, task events), lists and
details, logging, the wording of messages. The company scope of action owners is one company.
Accounts do not change while a request runs, except members being deactivated in
`DecisionRound` and roles in `MakerChecker`. By component:

* *Tracking and secure messages*: messages to a reporter are created nowhere in the source, and
  the attempt counters of the sign-ins count without a lock and promise no exact number.
* *Authentication*: OIDC and the session store are external; `MakerChecker` loads roles with
  each request, as the API does.
* *Field encryption*: cryptography. `CryptoService` ignores its context argument, which the
  round trips of messages do not agree on.
* *Master data, monitoring, audit viewer*: record keeping and reads of one row at a time.
* *Web client*: its pages other than the report form send one request at a time; these requests
  are the inputs of the models. More than half of the source is such pages, schemas of requests,
  default texts and seeds.
* *Notifications*: which recipients and templates an event has; a subject stands for both.
* *SLA*: the time of the day; the hours of a policy come in whole days. For a task that is
  assigned in the first three hours of a day in Istanbul the span that is read begins and ends a
  day earlier than the model's, which makes no difference under `SpanAssumption`.
* *Intake*: the client that uploads something else than the file it hashed; the form computes
  both from the same file.

## 8. What is left

1. `AttemptCounter` for the sign-ins: how far an attempt counter without a lock can be overrun.
2. Two scan jobs of attachments at once, and `FourEyes` with sessions that outlive a role.
3. Larger instances of `files` and `events`: three documents, three ticks.
