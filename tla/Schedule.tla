------------------------------ MODULE Schedule ------------------------------
(***************************************************************************)
(* Scheduled tasks: the table scheduled_tasks, the statement that runs what *)
(* is due, the maintenance workers that hand the resulting messages on and *)
(* recompute cron tasks afterwards, and the user who edits tasks meanwhile.*)
(* A schedule is reduced to one number: the moment of a `once' task, the   *)
(* period of an `interval' (counted from the run) or of a `cron' task      *)
(* (counted from 0, as daily, weekly and anchored schedules are).          *)
(***************************************************************************)
EXTENDS Integers, FiniteSets

CONSTANTS
    Tasks,           \* the scheduled tasks
    FirstPlan,       \* the schedule each is created with
    Plans,           \* schedules a user may change a task to
    Poison,          \* tasks whose goal cannot be created: running one raises
    MaxRuns,         \* max_runs, 0 for none
    RunLimit,        \* tasks run by one statement
    Schedulers,      \* maintenance processes
    NoTask,
    MaxClock,        \* the moments that are modelled
    MaxSchedFaults,  \* crashes and failing statements
    MaxEdits         \* edits by the user

Kinds == {"once", "interval", "cron"}
Plan == [kind : Kinds, n : 1..MaxClock]

ASSUME ScheduleAssumption ==
    /\ FirstPlan \in [Tasks -> Plan] /\ Plans \subseteq Plan
    /\ Poison \subseteq Tasks /\ NoTask \notin Tasks
    /\ MaxRuns \in [Tasks -> Nat] /\ RunLimit \in Nat \ {0}
    /\ {MaxClock, MaxSchedFaults, MaxEdits} \subseteq Nat /\ MaxClock > 0

VARIABLES
    task,      \* the rows: status, schedule kind, schedule, next_run_at, run_count
    sched,     \* the processes
    clock,     \* CURRENT_TIMESTAMP
    said,      \* messages built for each task
    torn,      \* history: tasks whose schedule was written back over an edit
    touched,   \* history: tasks a user has changed or made active again
    schBudget  \* faults and edits so far

scheduleVars == <<task, sched, clock, said, torn, touched, schBudget>>

Never == MaxClock + 1 + MaxClock

\* compute_next_run_at: the first moment of the schedule after `now'.
NextRun(plan, now) ==
    CASE plan.kind = "once" -> IF plan.n > now THEN plan.n ELSE Never
      [] plan.kind = "interval" -> now + plan.n
      [] plan.kind = "cron" -> ((now \div plan.n) + 1) * plan.n

\* It raises when the schedule lacks what its kind needs; an unreadable
\* cron expression is not an error.
Unreadable(row) == row.kind # "cron" /\ row.plan.kind # row.kind

Resting == [at |-> "idle", todo |-> {}, crons |-> {}, job |-> NoTask,
            plan |-> CHOOSE p \in Plan : TRUE]

ScheduleInit ==
    /\ task = [t \in Tasks |-> [status |-> "active", kind |-> FirstPlan[t].kind,
                  plan |-> FirstPlan[t], next |-> NextRun(FirstPlan[t], 0), runs |-> 0]]
    /\ sched = [w \in Schedulers |-> Resting]
    /\ clock = 0
    /\ said = [t \in Tasks |-> 0]
    /\ torn = {} /\ touched = {}
    /\ schBudget = [fault |-> 0, edit |-> 0]

Use(kind, bound) == /\ schBudget[kind] < bound
                    /\ schBudget' = [schBudget EXCEPT ![kind] = @ + 1]

TimePasses ==
    /\ clock < MaxClock /\ clock' = clock + 1
    /\ UNCHANGED <<task, sched, said, torn, touched, schBudget>>

-----------------------------------------------------------------------------
(* The user.                                                               *)

Edit(t, row) ==
    /\ Use("edit", MaxEdits)
    /\ task' = [task EXCEPT ![t] = row]
    /\ UNCHANGED <<sched, clock, said, torn>>

\* Pausing, resuming and disabling leave next_run_at alone.
SetStatus(t) ==
    \E s \in {"active", "paused", "disabled"} \ {task[t].status} :
        /\ Edit(t, [task[t] EXCEPT !.status = s])
        /\ touched' = IF task[t].status = "disabled" THEN touched \cup {t} ELSE touched

\* A new schedule must lead somewhere.
UpdateTask(t) ==
    \E p \in Plans \ {task[t].plan} :
        /\ NextRun(p, clock) # Never
        /\ Edit(t, [task[t] EXCEPT !.kind = p.kind, !.plan = p, !.next = NextRun(p, clock)])
        /\ touched' = touched \cup {t}

-----------------------------------------------------------------------------
(* The worker.                                                             *)

Due == {t \in Tasks : task[t].status = "active" /\ task[t].next <= clock}

\* Mutant: a batch takes any due tasks.
Batches_Unordered == {b \in SUBSET Due : Cardinality(b) <= RunLimit}

\* The longest overdue first.
Batches == {b \in SUBSET Due :
    /\ Cardinality(b) <= RunLimit
    /\ b = Due \/ Cardinality(b) = RunLimit
    /\ \A t \in b, u \in Due \ b : task[t].next <= task[u].next}

\* Mutant: one run too many.
CapReached_OffByOne(t) == MaxRuns[t] > 0 /\ task[t].runs >= MaxRuns[t]

CapReached(t) == MaxRuns[t] > 0 /\ task[t].runs + 1 >= MaxRuns[t]

RanRow(t) ==
    LET next == NextRun(task[t].plan, clock) IN
    [task[t] EXCEPT !.runs = @ + 1, !.next = IF next = Never THEN @ ELSE next,
                    !.status = IF CapReached(t) \/ next = Never THEN "disabled" ELSE @]

\* Each task runs in a block of its own: an error undoes its row, and only
\* that: the message it has already added to the list stays there.
Succeeds(t) == t \notin Poison /\ ~Unreadable(task[t])
Speaks(t) == t \notin Poison

\* A run that fails repeats its message at every tick: counted once.
Heard(t) == IF Succeeds(t) \/ said[t] <= task[t].runs THEN said[t] + 1 ELSE said[t]

RunDue(w) ==
    /\ sched[w].at = "idle"
    /\ \E b \in Batches :
         /\ b # {}
         /\ task' = [t \in Tasks |-> IF t \in b /\ Succeeds(t) THEN RanRow(t) ELSE task[t]]
         /\ said' = [t \in Tasks |-> IF t \in b /\ Speaks(t) THEN Heard(t) ELSE said[t]]
         /\ sched' = [sched EXCEPT ![w] = [Resting EXCEPT !.at = "deliver",
               !.todo = {t \in b : Speaks(t)},
               !.crons = {t \in b : Succeeds(t) /\ task[t].kind = "cron"}]]
    /\ UNCHANGED <<clock, torn, touched, schBudget>>

\* The web inbox and the broker, then the cron tasks.
Deliver(w) ==
    /\ sched[w].at = "deliver"
    /\ sched' = [sched EXCEPT ![w] = IF @.crons = {} THEN Resting
                    ELSE [@ EXCEPT !.at = "read", !.todo = {}]]
    /\ UNCHANGED <<task, clock, said, torn, touched, schBudget>>

ReadCron(w) ==
    /\ sched[w].at = "read"
    /\ \E t \in sched[w].crons :
         sched' = [sched EXCEPT ![w] =
            IF task[t].kind = "cron"
            THEN [sched[w] EXCEPT !.at = "write", !.crons = @ \ {t}, !.job = t,
                                  !.plan = task[t].plan]
            ELSE IF sched[w].crons = {t} THEN Resting
            ELSE [sched[w] EXCEPT !.crons = @ \ {t}]]
    /\ UNCHANGED <<task, clock, said, torn, touched, schBudget>>

\* The schedule that was read is written back whole.
WriteCron(w) ==
    /\ sched[w].at = "write"
    /\ LET t == sched[w].job  plan == sched[w].plan IN
         /\ task' = [task EXCEPT ![t].plan = plan, ![t].next = NextRun(plan, clock)]
         /\ torn' = IF task[t].plan # plan THEN torn \cup {t} ELSE torn
    /\ sched' = [sched EXCEPT ![w] = IF @.crons = {} THEN Resting
                    ELSE [Resting EXCEPT !.at = "read", !.crons = sched[w].crons]]
    /\ UNCHANGED <<clock, said, touched, schBudget>>

\* A crash or an error: the messages in hand are gone, the rows stay.
Abort(w) ==
    /\ sched[w].at # "idle" /\ Use("fault", MaxSchedFaults)
    /\ sched' = [sched EXCEPT ![w] = Resting]
    /\ UNCHANGED <<task, clock, said, torn, touched>>

-----------------------------------------------------------------------------
SchedulerStep(w) == RunDue(w) \/ Deliver(w) \/ ReadCron(w) \/ WriteCron(w)

ScheduleNext ==
    \/ TimePasses
    \/ \E t \in Tasks : SetStatus(t) \/ UpdateTask(t)
    \/ \E w \in Schedulers : SchedulerStep(w) \/ Abort(w)

\* The maintenance loop ticks for ever.
ScheduleFairness == \A w \in Schedulers : WF_scheduleVars(SchedulerStep(w))

ScheduleSpec == ScheduleInit /\ [][ScheduleNext]_scheduleVars /\ ScheduleFairness

-----------------------------------------------------------------------------
ScheduleTypeOK ==
    /\ task \in [Tasks -> [status : {"active", "paused", "disabled"}, kind : Kinds,
                           plan : Plan, next : Nat, runs : Nat]]
    /\ sched \in [Schedulers -> [at : {"idle", "deliver", "read", "write"},
            todo : SUBSET Tasks, crons : SUBSET Tasks, job : Tasks \cup {NoTask}, plan : Plan]]
    /\ clock \in 0..MaxClock
    /\ said \in [Tasks -> Nat]
    /\ torn \subseteq Tasks /\ touched \subseteq Tasks
    /\ schBudget \in [fault : 0..MaxSchedFaults, edit : 0..MaxEdits]

\* A task says something as often as it runs, however many workers look for
\* due tasks and whatever fails, unless an edit of it was written over; a task
\* for one moment once, and one with max_runs that often, unless the user
\* changes it or makes it active again.
MessagePerRun == \A t \in Tasks \ (torn \cup Poison) :
    /\ said[t] = task[t].runs
    /\ t \in touched \/ /\ FirstPlan[t].kind = "once" => said[t] <= 1
                        /\ MaxRuns[t] > 0 => said[t] <= MaxRuns[t]

\* Every due task runs, although tasks that raise stay at the head of the
\* list for ever: as long as these are fewer than one statement takes.
DueTasksRun == <>[](Cardinality(Poison \cup torn) < RunLimit =>
    \A t \in Tasks \ (Poison \cup torn) :
        task[t].status = "active" => task[t].next > clock)
=============================================================================
