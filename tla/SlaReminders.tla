------------------------------ MODULE SlaReminders -------------------------------
(***************************************************************************)
(* Due dates of tasks and the job that reminds their assignees: a warning  *)
(* when a fifth of the time is left, a breach when it is over.             *)
(*                                                                         *)
(* The worker starts a run of the job every five minutes whether or not    *)
(* the last one has ended. A run reads the clock and the open tasks once,  *)
(* then takes one task after the other, each in a transaction of its own   *)
(* without a lock. An error ends the run.                                  *)
(*                                                                         *)
(* Time passes in days, which is also the grain of due dates: the due time *)
(* of a task is the time of the day at which it was created.               *)
(***************************************************************************)
EXTENDS BusinessCalendar

CONSTANTS
    Tasks,          \* numbered in the order of their creation
    Users,
    AssigneeOf,     \* the user a task is assigned to, or Unassigned: it is its role's
    Unassigned,
    Runs,           \* the runs of the job that can overlap
    Policies,       \* the unit and the duration of each policy in use
    Calendars,      \* the calendars to begin with
    EditDays,       \* the days for which entries are made and removed
    LastDay,        \* bound for TLC: the clock stops
    MaxEdits,       \* bound for TLC: changes of the calendar
    MaxFaults       \* bound for TLC: runs that fail

\* Time passes in days: an hourly policy is for whole days.
ASSUME PoliciesAssumption ==
    \A p \in Policies : /\ p.unit \in {"BUSINESS_DAYS", "CALENDAR_HOURS"} /\ p.duration \in Nat
                        /\ p.unit = "CALENDAR_HOURS" => p.duration % 24 = 0

\* Days and bounds are numbers, and a task is its role's or a user's.
ASSUME ConstantsAssumption ==
    /\ EditDays \subseteq Nat /\ LastDay \in Nat /\ MaxEdits \in Nat /\ MaxFaults \in Nat
    /\ \A c \in Calendars : DOMAIN c \subseteq Nat /\ \A d \in DOMAIN c : c[d] \in EntryTypes
    /\ \A t \in Tasks : AssigneeOf[t] \in Users \cup {Unassigned}

\* Nobody closes so many days that the span of a policy is too short for its business
\* days: the code reads no further and takes what is beyond for working days.
ASSUME SpanAssumption ==
    \A p \in Policies, c \in Calendars, start \in 0..LastDay :
        p.unit = "BUSINESS_DAYS" => Covers(EditDays \cup DOMAIN c, start, p.duration)

VARIABLES
    day,        \* today
    calendar,   \* business_calendar_entries that are active
    tasks,      \* tasks: status, created_at and due_at, and the policy
    holders,    \* the active users with the role of the tasks
    told,       \* notification_events: the task, type and recipient of each
    runs,       \* what each run has still to announce, and the events it is about to insert
    edits, faults

slaVars == <<day, calendar, tasks, holders, told, runs, edits, faults>>

Kinds == {"WARNING", "OVERDUE"}
NoPolicy == [unit |-> "none", duration |-> 0]
NoTask == [status |-> "none", created |-> 0, due |-> 0, policy |-> NoPolicy]
Task == [status : {"none", "open", "done"}, created : 0..LastDay, due : Nat,
         policy : Policies \cup {NoPolicy}]
Events == Tasks \X Kinds \X Users
IdleRun == [todo |-> {}, keys |-> {}]

SlaTypeOK ==
    /\ day \in 0..LastDay
    /\ \A d \in DOMAIN calendar : d \in Nat /\ calendar[d] \in EntryTypes
    /\ tasks \in [Tasks -> Task]
    /\ holders \subseteq Users
    /\ told \subseteq Events
    /\ runs \in [Runs -> [todo : SUBSET (Tasks \X Kinds), keys : SUBSET Events]]
    /\ edits \in 0..MaxEdits /\ faults \in 0..MaxFaults

Open == {t \in Tasks : tasks[t].status = "open"}

(***************************************************************************)
(* Tasks, the calendar and time                                            *)
(***************************************************************************)
DueAt(p) == IF p.unit = "CALENDAR_HOURS" THEN day + p.duration \div 24
            ELSE DueDay(day, p.duration, calendar)

\* calculateDueAt, in the transaction that creates the task.
CreateTask(t) ==
    /\ tasks[t].status = "none" /\ \A s \in Tasks : s < t => tasks[s].status # "none"
    /\ \E p \in Policies : tasks' = [tasks EXCEPT ![t] =
          [status |-> "open", created |-> day, due |-> DueAt(p), policy |-> p]]
    /\ UNCHANGED <<day, calendar, holders, told, runs, edits, faults>>

CloseTask(t) ==
    /\ t \in Open
    /\ tasks' = [tasks EXCEPT ![t].status = "done"]
    /\ UNCHANGED <<day, calendar, holders, told, runs, edits, faults>>

\* Due dates that were given stay as they are.
EditCalendar ==
    /\ edits < MaxEdits /\ edits' = edits + 1
    /\ UNCHANGED <<day, tasks, holders, told, runs, faults>>

\* The look for an active entry of the day is before the transaction: of two who make
\* one at the same time, the type of the later one stays.
CreateEntry(d, type) ==
    /\ EditCalendar
    /\ calendar' = [e \in DOMAIN calendar \cup {d} |-> IF e = d THEN type ELSE calendar[e]]

DeleteEntry(d) ==
    /\ EditCalendar
    /\ d \in DOMAIN calendar
    /\ calendar' = Restrict(calendar, DOMAIN calendar \ {d})

NextDay ==
    /\ day < LastDay
    /\ day' = day + 1
    /\ UNCHANGED <<calendar, tasks, holders, told, runs, edits, faults>>

\* A user gets or loses the role of the tasks.
SwitchUser(u) ==
    /\ holders' = IF u \in holders THEN holders \ {u} ELSE holders \cup {u}
    /\ UNCHANGED <<day, calendar, tasks, told, runs, edits, faults>>

(***************************************************************************)
(* A run                                                                   *)
(***************************************************************************)
Overdue(t) == day > tasks[t].due

\* At most a fifth of the time is left.
Expiring(t) ==
    /\ ~Overdue(t) /\ tasks[t].due > tasks[t].created
    /\ 5 * (tasks[t].due - day) <= tasks[t].due - tasks[t].created

\* resolveSlaWindowPhase, for all open tasks.
Notices == {<<t, "OVERDUE">> : t \in {s \in Open : Overdue(s)}}
      \cup {<<t, "WARNING">> : t \in {s \in Open : Expiring(s)}}

Idle(r) == runs[r] = IdleRun

\* The clock and the tasks are read.
StartRun(r) ==
    /\ Idle(r) /\ Notices # {}
    /\ runs' = [runs EXCEPT ![r].todo = Notices]
    /\ UNCHANGED <<day, calendar, tasks, holders, told, edits, faults>>

\* resolveAssigneeUserIds.
Recipients(t) == IF AssigneeOf[t] = Unassigned THEN holders ELSE {AssigneeOf[t]}

\* Mutant: an event of the task counts, whatever its type.
EverAnnounced(t, kind) == \E u \in Users, k \in Kinds : <<t, k, u>> \in told

\* The look for an earlier event is by the beginning of its key, without the recipient.
Announced(t, kind) == \E u \in Users : <<t, kind, u>> \in told

\* enqueueForTask when nothing is to be enqueued.
PassOver(r, t, kind) ==
    /\ runs[r].keys = {} /\ <<t, kind>> \in runs[r].todo
    /\ Recipients(t) = {} \/ Announced(t, kind)
    /\ runs' = [runs EXCEPT ![r].todo = @ \ {<<t, kind>>}]
    /\ UNCHANGED <<day, calendar, tasks, holders, told, edits, faults>>

\* enqueueForTask up to its look for earlier events.
Look(r, t, kind) ==
    /\ runs[r].keys = {} /\ <<t, kind>> \in runs[r].todo
    /\ Recipients(t) # {} /\ ~Announced(t, kind)
    /\ runs' = [runs EXCEPT ![r] = [todo |-> @.todo \ {<<t, kind>>},
                                    keys |-> {<<t, kind, u>> : u \in Recipients(t)}]]
    /\ UNCHANGED <<day, calendar, tasks, holders, told, edits, faults>>

\* enqueue and the commit: one event for each recipient who has none.
Tell(r) ==
    /\ runs[r].keys # {}
    /\ told' = told \cup runs[r].keys
    /\ runs' = [runs EXCEPT ![r].keys = {}]
    /\ UNCHANGED <<day, calendar, tasks, holders, edits, faults>>

Abort(r) ==
    /\ runs' = [runs EXCEPT ![r] = IdleRun]
    /\ UNCHANGED <<day, calendar, tasks, holders, told, edits>>

\* Another run inserts an event of the same key first: the unique index fails the
\* statement, and with it the transaction and the run.
Collide(r) == runs[r].keys \cap told # {} /\ Abort(r) /\ UNCHANGED faults

RunFails(r) ==
    /\ ~Idle(r)
    /\ faults < MaxFaults /\ faults' = faults + 1
    /\ Abort(r)

(***************************************************************************)
(* Specification                                                           *)
(***************************************************************************)
SlaInit ==
    /\ day = 0
    /\ calendar \in Calendars
    /\ tasks = [t \in Tasks |-> NoTask]
    /\ holders = Users
    /\ told = {}
    /\ runs = [r \in Runs |-> IdleRun]
    /\ edits = 0 /\ faults = 0

Serve(r) ==
    \/ Tell(r) \/ Collide(r)
    \/ \E t \in Tasks, kind \in Kinds : PassOver(r, t, kind) \/ Look(r, t, kind)

SlaNext ==
    \/ \E t \in Tasks : CreateTask(t) \/ CloseTask(t)
    \/ \E d \in EditDays : DeleteEntry(d) \/ \E type \in EntryTypes : CreateEntry(d, type)
    \/ NextDay
    \/ \E u \in Users : SwitchUser(u)
    \/ \E r \in Runs : StartRun(r) \/ Serve(r) \/ RunFails(r)

SlaSpec == SlaInit /\ [][SlaNext]_slaVars

\* The worker starts runs for ever, and a run goes on until it ends or fails.
SlaFairSpec == SlaSpec /\ \A r \in Runs : WF_slaVars(StartRun(r)) /\ WF_slaVars(Serve(r))

(***************************************************************************)
(* Properties                                                              *)
(***************************************************************************)
\* A task is due on the first day by whose end the business days of its policy have
\* passed, in the calendar of its creation, although only the entries of some days
\* are read (business-calendar.service.ts, buildLookupForBusinessDaySpan).
DueAfterBusinessDays ==
    [][\A t \in Tasks : tasks'[t] # tasks[t] /\ tasks'[t].status = "open"
                         /\ tasks'[t].policy.unit = "BUSINESS_DAYS" =>
          IsNthBusinessDay(tasks'[t].due, tasks'[t].created, tasks'[t].policy.duration,
                           calendar)]_slaVars

\* An overdue task that stays open, and of which somebody can be told, is announced as
\* such, although a warning of it went out before and runs overlap, collide and fail
\* (sla-reminder.handler.ts, processPendingBatch).
BreachIsAnnounced == \A t \in Tasks :
    (t \in Open /\ Overdue(t))
        ~> \/ \E u \in Users : <<t, "OVERDUE", u>> \in told
           \/ t \notin Open \/ Recipients(t) = {}

================================================================================
