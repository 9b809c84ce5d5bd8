----------------------------- MODULE WorkProofs -----------------------------
(***************************************************************************)
(* The invariants of scheduled tasks and of imports, and what they give    *)
(* for every number of tasks, pages, jobs, workers, faults and edits.      *)
(***************************************************************************)
EXTENDS MCWork, IngestProofs, NodesProofs, TLAPS

-----------------------------------------------------------------------------
(* Scheduled tasks: what is said and run of a row, edited or not.          *)

\* What a scheduler is about to write back it read of a cron task.
WritesCron == \A w \in Schedulers : sched[w].at = "write" =>
    /\ sched[w].job \in Tasks
    /\ sched[w].job \notin torn \cup touched => FirstPlan[sched[w].job].kind = "cron"

\* A row no user changed: it has its first schedule, runs once at its moment and
\* no more often than its maximum, and what is spent is disabled.
UntouchedRow(t) ==
    /\ task[t].plan = FirstPlan[t]
    /\ t \notin Poison /\ FirstPlan[t].kind = "once" =>
          \/ task[t].runs = 0 /\ task[t].next = FirstPlan[t].n
          \/ task[t].runs = 1 /\ task[t].status = "disabled"
    /\ t \notin Poison /\ MaxRuns[t] > 0 =>
          \/ task[t].runs < MaxRuns[t]
          \/ task[t].runs = MaxRuns[t] /\ task[t].status = "disabled"

\* A row whose schedule was not written back over an edit.
WholeRow(t) ==
    /\ task[t].kind = task[t].plan.kind
    /\ t \notin Poison => said[t] = task[t].runs
    /\ t \notin touched => UntouchedRow(t)

Told == \A t \in Tasks \ torn : WholeRow(t)

ScheduleInv == ScheduleTypeOK /\ WritesCron /\ Told

TaskRow == [status : {"active", "paused", "disabled"}, kind : Kinds,
            plan : Plan, next : Nat, runs : Nat]
SchedulerState == [at : {"idle", "deliver", "read", "write"}, todo : SUBSET Tasks,
                   crons : SUBSET Tasks, job : Tasks \cup {NoTask}, plan : Plan]

\* compute_next_run_at never gives a moment before the beginning.
LEMMA NextRunType ==
    ASSUME NEW plan \in Plan, NEW now \in Nat
    PROVE  NextRun(plan, now) \in Nat
<1>1. plan.n \in Nat /\ plan.n > 0 /\ plan.kind \in Kinds /\ MaxClock \in Nat
  BY ScheduleAssumption DEF Plan, ScheduleAssumption
<1>2. Never \in Nat
  BY <1>1 DEF Never
<1>3. ((now \div plan.n) + 1) * plan.n \in Nat
  <2>1. now \div plan.n \in Nat
    BY <1>1
  <2>2. \A m \in Nat : (m + 1) * plan.n \in Nat
    BY <1>1
  <2>3. QED
    BY <2>1, <2>2
<1>4. QED
  BY <1>1, <1>2, <1>3 DEF NextRun, Kinds

LEMMA RestingType == Resting \in SchedulerState
<1>1. Plan # {}
  <2>1. [kind |-> "once", n |-> 1] \in Plan
    BY ScheduleAssumption DEF Plan, Kinds, ScheduleAssumption
  <2>2. QED
    BY <2>1
<1>2. QED
  BY <1>1 DEF Resting, SchedulerState

LEMMA SchedulerTypes == ASSUME ScheduleTypeOK, [ScheduleNext]_scheduleVars
                        PROVE  sched' \in [Schedulers -> SchedulerState]
<1> USE DEF SchedulerState
<1>1. sched \in [Schedulers -> SchedulerState] /\ task \in [Tasks -> TaskRow]
  BY DEF ScheduleTypeOK, TaskRow
<1>2. ASSUME NEW w \in Schedulers, RunDue(w) PROVE sched' \in [Schedulers -> SchedulerState]
  <2>1. PICK b \in Batches : sched' = [sched EXCEPT ![w] = [Resting EXCEPT !.at = "deliver",
               !.todo = {t \in b : Speaks(t)},
               !.crons = {t \in b : Succeeds(t) /\ task[t].kind = "cron"}]]
    BY <1>2 DEF RunDue
  <2>2. b \subseteq Tasks
    BY DEF Batches, Due
  <2>3. QED
    BY <1>1, <2>1, <2>2, RestingType
<1>3. ASSUME NEW w \in Schedulers, Deliver(w) \/ WriteCron(w) \/ Abort(w)
      PROVE  sched' \in [Schedulers -> SchedulerState]
  <2>1. CASE Deliver(w)
    BY <1>1, <2>1, RestingType DEF Deliver
  <2>2. CASE WriteCron(w)
    BY <1>1, <2>2, RestingType DEF WriteCron
  <2>3. CASE Abort(w)
    BY <1>1, <2>3, RestingType DEF Abort
  <2>4. QED
    BY <1>3, <2>1, <2>2, <2>3
<1>4. ASSUME NEW w \in Schedulers, ReadCron(w) PROVE sched' \in [Schedulers -> SchedulerState]
  <2>1. PICK t \in sched[w].crons : sched' = [sched EXCEPT ![w] =
            IF task[t].kind = "cron"
            THEN [sched[w] EXCEPT !.at = "write", !.crons = @ \ {t}, !.job = t,
                                  !.plan = task[t].plan]
            ELSE IF sched[w].crons = {t} THEN Resting
            ELSE [sched[w] EXCEPT !.crons = @ \ {t}]]
    BY <1>4 DEF ReadCron
  <2>2. t \in Tasks /\ task[t].plan \in Plan
    BY <1>1 DEF TaskRow
  <2>3. [sched[w] EXCEPT !.at = "write", !.crons = @ \ {t}, !.job = t,
                         !.plan = task[t].plan] \in SchedulerState
    BY <1>1, <2>2
  <2>4. [sched[w] EXCEPT !.crons = @ \ {t}] \in SchedulerState
    BY <1>1
  <2>5. QED
    BY <1>1, <2>1, <2>3, <2>4, RestingType
<1>5. CASE \/ TimePasses \/ UNCHANGED scheduleVars
           \/ \E t \in Tasks : SetStatus(t) \/ UpdateTask(t)
  BY <1>1, <1>5 DEF TimePasses, scheduleVars, SetStatus, UpdateTask, Edit
<1>6. QED
  BY <1>2, <1>3, <1>4, <1>5 DEF ScheduleNext, SchedulerStep

\* The row after a run, field by field.
LEMMA RanRowIs ==
    ASSUME NEW t \in Tasks, task[t] \in TaskRow, clock \in Nat
    PROVE  LET next == NextRun(task[t].plan, clock) IN
           /\ RanRow(t) \in TaskRow /\ next \in Nat
           /\ RanRow(t).plan = task[t].plan /\ RanRow(t).kind = task[t].kind
           /\ RanRow(t).runs = task[t].runs + 1
           /\ CapReached(t) \/ next = Never => RanRow(t).status = "disabled"
<1> DEFINE next == NextRun(task[t].plan, clock)
           n == IF next = Never THEN task[t].next ELSE next
           s == IF CapReached(t) \/ next = Never THEN "disabled" ELSE task[t].status
           ran == [task[t] EXCEPT !.runs = @ + 1, !.next = n, !.status = s]
<1>1. next \in Nat
  BY NextRunType DEF TaskRow
<1>2. n \in Nat /\ s \in {"active", "paused", "disabled"}
  BY <1>1 DEF TaskRow
<1>3. RanRow(t) = ran
  BY DEF RanRow
<1>4. /\ ran \in TaskRow /\ ran.plan = task[t].plan /\ ran.kind = task[t].kind
      /\ ran.runs = task[t].runs + 1 /\ ran.status = s
  <2>1. task[t].runs + 1 \in Nat
    BY DEF TaskRow
  <2> HIDE DEF n, s
  <2>2. ran \in TaskRow
    BY <1>2, <2>1 DEF TaskRow
  <2>3. ran.plan = task[t].plan /\ ran.kind = task[t].kind
    BY DEF TaskRow
  <2>4. ran.runs = task[t].runs + 1 /\ ran.status = s
    BY DEF TaskRow
  <2>5. QED
    BY <2>2, <2>3, <2>4
<1>5. CapReached(t) \/ next = Never => s = "disabled"
  OBVIOUS
<1> HIDE DEF next, s, ran
<1>6. QED
  BY <1>1, <1>3, <1>4, <1>5 DEF next

LEMMA RowTypes == ASSUME ScheduleTypeOK, WritesCron, [ScheduleNext]_scheduleVars
                  PROVE  /\ task' \in [Tasks -> TaskRow] /\ said' \in [Tasks -> Nat]
                         /\ torn' \subseteq Tasks
<1>1. /\ sched \in [Schedulers -> SchedulerState] /\ task \in [Tasks -> TaskRow]
      /\ said \in [Tasks -> Nat] /\ torn \subseteq Tasks /\ clock \in Nat
  BY ScheduleAssumption DEF ScheduleTypeOK, TaskRow, SchedulerState, ScheduleAssumption
<1> DEFINE Goal == /\ task' \in [Tasks -> TaskRow] /\ said' \in [Tasks -> Nat]
                   /\ torn' \subseteq Tasks
<1>2. ASSUME NEW w \in Schedulers, RunDue(w) PROVE Goal
  <2>1. PICK b \in Batches :
          /\ task' = [t \in Tasks |-> IF t \in b /\ Succeeds(t) THEN RanRow(t) ELSE task[t]]
          /\ said' = [t \in Tasks |-> IF t \in b /\ Speaks(t) THEN Heard(t) ELSE said[t]]
    BY <1>2 DEF RunDue
  <2>2. ASSUME NEW t \in Tasks PROVE RanRow(t) \in TaskRow /\ Heard(t) \in Nat
    <3>1. Heard(t) \in Nat
      BY <1>1 DEF Heard
    <3>2. RanRow(t) \in TaskRow
      BY <1>1, RanRowIs
    <3>3. QED
      BY <3>1, <3>2
  <2>3. torn' = torn
    BY <1>2 DEF RunDue
  <2>4. QED
    BY <1>1, <2>1, <2>2, <2>3
<1>3. ASSUME NEW w \in Schedulers, WriteCron(w) PROVE Goal
  <2>1. sched[w].job \in Tasks /\ sched[w].plan \in Plan
    BY <1>1, <1>3 DEF WriteCron, WritesCron, SchedulerState
  <2>2. NextRun(sched[w].plan, clock) \in Nat
    BY <1>1, <2>1, NextRunType
  <2>3. QED
    BY <1>1, <1>3, <2>1, <2>2 DEF WriteCron, TaskRow
<1>4. ASSUME NEW t \in Tasks, SetStatus(t) PROVE Goal
  BY <1>1, <1>4 DEF SetStatus, Edit, TaskRow
<1>5. ASSUME NEW t \in Tasks, UpdateTask(t) PROVE Goal
  <2>1. PICK p \in Plans : /\ task' = [task EXCEPT ![t] = [task[t] EXCEPT !.kind = p.kind,
                                        !.plan = p, !.next = NextRun(p, clock)]]
                           /\ said' = said /\ torn' = torn
    BY <1>5 DEF UpdateTask, Edit
  <2>2. p \in Plan /\ p.kind \in Kinds
    BY ScheduleAssumption DEF ScheduleAssumption, Plan
  <2>3. NextRun(p, clock) \in Nat
    BY <1>1, <2>2, NextRunType
  <2>4. QED
    BY <1>1, <2>1, <2>2, <2>3 DEF TaskRow
<1>6. ASSUME NEW w \in Schedulers, Deliver(w) \/ ReadCron(w) \/ Abort(w) PROVE Goal
  BY <1>1, <1>6 DEF Deliver, ReadCron, Abort
<1>7. CASE TimePasses \/ UNCHANGED scheduleVars
  BY <1>1, <1>7 DEF TimePasses, scheduleVars
<1>8. QED
  BY <1>2, <1>3, <1>4, <1>5, <1>6, <1>7 DEF ScheduleNext, SchedulerStep

LEMMA ClockTypes == ASSUME ScheduleTypeOK, [ScheduleNext]_scheduleVars
                    PROVE  /\ clock' \in 0..MaxClock /\ touched' \subseteq Tasks
                           /\ schBudget' \in [fault : 0..MaxSchedFaults, edit : 0..MaxEdits]
<1>1. /\ clock \in 0..MaxClock /\ touched \subseteq Tasks
      /\ schBudget \in [fault : 0..MaxSchedFaults, edit : 0..MaxEdits]
      /\ MaxClock \in Nat /\ MaxSchedFaults \in Nat /\ MaxEdits \in Nat
  BY ScheduleAssumption DEF ScheduleTypeOK, ScheduleAssumption
<1> DEFINE Goal == /\ clock' \in 0..MaxClock /\ touched' \subseteq Tasks
                   /\ schBudget' \in [fault : 0..MaxSchedFaults, edit : 0..MaxEdits]
<1>2. CASE TimePasses
  BY <1>1, <1>2 DEF TimePasses
<1>3. ASSUME NEW t \in Tasks, SetStatus(t) \/ UpdateTask(t) PROVE Goal
  <2>1. clock' = clock /\ Use("edit", MaxEdits) /\ touched' \in {touched, touched \cup {t}}
    BY <1>3 DEF SetStatus, UpdateTask, Edit
  <2>2. QED
    BY <1>1, <2>1 DEF Use
<1>4. ASSUME NEW w \in Schedulers, Abort(w) PROVE Goal
  BY <1>1, <1>4 DEF Abort, Use
<1>5. ASSUME NEW w \in Schedulers, SchedulerStep(w) PROVE Goal
  BY <1>1, <1>5 DEF SchedulerStep, RunDue, Deliver, ReadCron, WriteCron
<1>6. CASE UNCHANGED scheduleVars
  BY <1>1, <1>6 DEF scheduleVars
<1>7. QED
  BY <1>2, <1>3, <1>4, <1>5, <1>6 DEF ScheduleNext

LEMMA InitSchedule == ScheduleInit => ScheduleInv
<1> SUFFICES ASSUME ScheduleInit PROVE ScheduleInv
  OBVIOUS
<1> USE ScheduleAssumption DEF ScheduleAssumption, ScheduleInit
<1>1. ASSUME NEW t \in Tasks
      PROVE  /\ FirstPlan[t] \in Plan /\ FirstPlan[t].kind \in Kinds
             /\ NextRun(FirstPlan[t], 0) \in Nat
  BY NextRunType DEF Plan
<1>2. task \in [Tasks -> TaskRow]
  BY <1>1 DEF TaskRow
<1>3. sched \in [Schedulers -> SchedulerState]
  BY RestingType
<1>4. ScheduleTypeOK
  BY <1>2, <1>3 DEF ScheduleTypeOK, TaskRow, SchedulerState
<1>5. WritesCron
  BY DEF WritesCron, Resting
<1>6. ASSUME NEW t \in Tasks PROVE WholeRow(t)
  <2>1. FirstPlan[t].kind = "once" => NextRun(FirstPlan[t], 0) = FirstPlan[t].n
    BY <1>1 DEF NextRun, Plan
  <2>2. QED
    BY <1>1, <2>1 DEF WholeRow, UntouchedRow
<1>7. QED
  BY <1>4, <1>5, <1>6 DEF ScheduleInv, Told

LEMMA WritesStep == ASSUME ScheduleInv, [ScheduleNext]_scheduleVars PROVE WritesCron'
<1>1. /\ sched \in [Schedulers -> SchedulerState] /\ WritesCron /\ Told
  BY DEF ScheduleInv, ScheduleTypeOK, SchedulerState
<1>2. torn \subseteq torn' /\ touched \subseteq touched'
  BY DEF ScheduleNext, scheduleVars, TimePasses, SetStatus, UpdateTask, Edit, SchedulerStep,
     RunDue, Deliver, ReadCron, WriteCron, Abort
<1>3. ASSUME NEW w \in Schedulers, sched'[w] = sched[w]
      PROVE  sched'[w].at = "write" =>
               /\ sched'[w].job \in Tasks
               /\ sched'[w].job \notin torn' \cup touched' => FirstPlan[sched'[w].job].kind = "cron"
  BY <1>1, <1>2, <1>3 DEF WritesCron
<1>4. ASSUME NEW w \in Schedulers, \A v \in Schedulers \ {w} : sched'[v] = sched[v],
             sched'[w].at # "write"
      PROVE  WritesCron'
  BY <1>3, <1>4 DEF WritesCron
<1>5. ASSUME NEW w \in Schedulers, RunDue(w) \/ Deliver(w) \/ Abort(w) PROVE WritesCron'
  <2>1. CASE RunDue(w)
    BY <1>1, <1>4, <2>1 DEF RunDue, Resting
  <2>2. CASE Deliver(w)
    BY <1>1, <1>4, <2>2 DEF Deliver, Resting, SchedulerState
  <2>3. CASE Abort(w)
    BY <1>1, <1>4, <2>3 DEF Abort, Resting
  <2>4. QED
    BY <1>5, <2>1, <2>2, <2>3
<1>6. ASSUME NEW w \in Schedulers, WriteCron(w) PROVE WritesCron'
  BY <1>1, <1>4, <1>6 DEF WriteCron, Resting
<1>7. ASSUME NEW w \in Schedulers, ReadCron(w) PROVE WritesCron'
  <2>1. PICK t \in sched[w].crons : sched' = [sched EXCEPT ![w] =
            IF task[t].kind = "cron"
            THEN [sched[w] EXCEPT !.at = "write", !.crons = @ \ {t}, !.job = t,
                                  !.plan = task[t].plan]
            ELSE IF sched[w].crons = {t} THEN Resting
            ELSE [sched[w] EXCEPT !.crons = @ \ {t}]]
    BY <1>7 DEF ReadCron
  <2>2. t \in Tasks /\ sched[w].at = "read" /\ torn' = torn /\ touched' = touched
    BY <1>1, <1>7 DEF ReadCron, SchedulerState
  <2>3. CASE task[t].kind = "cron"
    <3>1. sched'[w].job = t /\ \A v \in Schedulers \ {w} : sched'[v] = sched[v]
      BY <1>1, <2>1, <2>3 DEF SchedulerState
    <3>2. t \notin torn \cup touched => FirstPlan[t].kind = "cron"
      BY <1>1, <2>2, <2>3 DEF Told, WholeRow, UntouchedRow
    <3>3. QED
      BY <1>3, <2>2, <3>1, <3>2 DEF WritesCron
  <2>4. CASE task[t].kind # "cron"
    <3>1. sched'[w].at # "write" /\ \A v \in Schedulers \ {w} : sched'[v] = sched[v]
      BY <1>1, <2>1, <2>2, <2>4 DEF SchedulerState, Resting
    <3>2. QED
      BY <1>4, <3>1
  <2>5. QED
    BY <2>3, <2>4
<1>8. CASE \/ TimePasses \/ UNCHANGED scheduleVars
           \/ \E t \in Tasks : SetStatus(t) \/ UpdateTask(t)
  <2>1. sched' = sched
    BY <1>8 DEF TimePasses, scheduleVars, SetStatus, UpdateTask, Edit
  <2>2. QED
    BY <1>3, <2>1 DEF WritesCron
<1>9. QED
  BY <1>5, <1>6, <1>7, <1>8 DEF ScheduleNext, SchedulerStep

LEMMA RunTells ==
    ASSUME ScheduleInv, NEW w \in Schedulers, RunDue(w), NEW t \in Tasks \ torn'
    PROVE  WholeRow(t)'
<1>1. /\ task \in [Tasks -> TaskRow] /\ said \in [Tasks -> Nat] /\ clock \in Nat
      /\ torn' = torn /\ touched' = touched /\ WholeRow(t) /\ FirstPlan[t] \in Plan
      /\ MaxRuns[t] \in Nat
  BY ScheduleAssumption
  DEF ScheduleInv, ScheduleTypeOK, TaskRow, RunDue, Told, ScheduleAssumption
<1>2. PICK b \in Batches :
        /\ task' = [u \in Tasks |-> IF u \in b /\ Succeeds(u) THEN RanRow(u) ELSE task[u]]
        /\ said' = [u \in Tasks |-> IF u \in b /\ Speaks(u) THEN Heard(u) ELSE said[u]]
  BY DEF RunDue
<1>3. CASE t \notin b \/ t \in Poison
  <2>1. task'[t] = task[t] /\ (t \notin Poison => said'[t] = said[t])
    BY <1>2, <1>3 DEF Succeeds
  <2>2. QED
    BY <1>1, <2>1 DEF WholeRow, UntouchedRow
<1>4. CASE t \in b /\ t \notin Poison
  <2>1. Succeeds(t) /\ Speaks(t)
    BY <1>1, <1>4 DEF Succeeds, Speaks, Unreadable, WholeRow
  <2>2. task'[t] = RanRow(t) /\ said'[t] = said[t] + 1
    BY <1>2, <1>4, <2>1 DEF Heard
  <2>3. /\ task[t].status = "active" /\ task[t].next <= clock /\ task[t] \in TaskRow
        /\ task[t].runs \in Nat
    BY <1>1, <1>4 DEF Batches, Due, TaskRow
  <2>4. /\ RanRow(t).plan = task[t].plan /\ RanRow(t).kind = task[t].kind
        /\ RanRow(t).runs = task[t].runs + 1
        /\ CapReached(t) \/ NextRun(task[t].plan, clock) = Never => RanRow(t).status = "disabled"
    BY <1>1, <2>3, RanRowIs
  <2>5. ASSUME t \notin touched PROVE UntouchedRow(t)'
    <3>1. UntouchedRow(t)
      BY <1>1, <2>5 DEF WholeRow
    <3>2. FirstPlan[t].kind = "once" => NextRun(task[t].plan, clock) = Never /\ task[t].runs = 0
      BY <1>1, <1>4, <2>3, <3>1 DEF UntouchedRow, NextRun, Plan
    <3>3. MaxRuns[t] > 0 => \/ task[t].runs + 1 < MaxRuns[t]
                            \/ task[t].runs + 1 = MaxRuns[t] /\ CapReached(t)
      BY <1>1, <1>4, <2>3, <3>1 DEF UntouchedRow, CapReached
    <3>4. QED
      BY <2>2, <2>3, <2>4, <3>1, <3>2, <3>3 DEF UntouchedRow
  <2>6. QED
    BY <1>1, <1>4, <2>2, <2>4, <2>5 DEF WholeRow
<1>5. QED
  BY <1>3, <1>4

LEMMA ToldStep == ASSUME ScheduleInv, [ScheduleNext]_scheduleVars PROVE Told'
<1>1. /\ task \in [Tasks -> TaskRow] /\ Told /\ WritesCron
      /\ sched \in [Schedulers -> SchedulerState]
  BY DEF ScheduleInv, ScheduleTypeOK, TaskRow, SchedulerState
<1>2. ASSUME NEW t \in Tasks \ torn', t \notin torn, task'[t] = task[t], said'[t] = said[t],
             touched \subseteq touched'
      PROVE  WholeRow(t)'
  BY <1>1, <1>2 DEF Told, WholeRow, UntouchedRow
<1>3. ASSUME NEW w \in Schedulers, RunDue(w) PROVE Told'
  BY <1>3, RunTells DEF Told
<1>4. ASSUME NEW w \in Schedulers, WriteCron(w) PROVE Told'
  <2>1. PICK j \in Tasks :
          /\ j = sched[w].job
          /\ task' = [task EXCEPT ![j].plan = sched[w].plan,
                                  ![j].next = NextRun(sched[w].plan, clock)]
          /\ torn' = IF task[j].plan # sched[w].plan THEN torn \cup {j} ELSE torn
          /\ said' = said /\ touched' = touched
          /\ j \notin torn \cup touched => FirstPlan[j].kind = "cron"
    BY <1>1, <1>4 DEF WriteCron, WritesCron
  <2>2. ASSUME NEW t \in Tasks \ torn', t # j PROVE WholeRow(t)'
    BY <1>1, <1>2, <2>1, <2>2
  <2>3. ASSUME j \notin torn' PROVE WholeRow(j)'
    <3>1. /\ task'[j].plan = task[j].plan /\ task'[j].kind = task[j].kind
          /\ task'[j].runs = task[j].runs /\ task'[j].status = task[j].status
      BY <1>1, <2>1, <2>3 DEF TaskRow
    <3>2. WholeRow(j)
      BY <1>1, <2>1, <2>3 DEF Told
    <3>3. QED
      BY <2>1, <2>3, <3>1, <3>2 DEF WholeRow, UntouchedRow
  <2>4. QED
    BY <2>2, <2>3 DEF Told
<1>5. ASSUME NEW u \in Tasks, SetStatus(u) PROVE Told'
  <2>1. PICK x \in {"active", "paused", "disabled"} :
          /\ x # task[u].status
          /\ task' = [task EXCEPT ![u] = [task[u] EXCEPT !.status = x]]
          /\ said' = said /\ torn' = torn
          /\ touched' = IF task[u].status = "disabled" THEN touched \cup {u} ELSE touched
    BY <1>5 DEF SetStatus, Edit
  <2>2. ASSUME NEW t \in Tasks \ torn', t # u PROVE WholeRow(t)'
    BY <1>1, <1>2, <2>1, <2>2
  <2>3. ASSUME u \notin torn' PROVE WholeRow(u)'
    <3>1. /\ task'[u].plan = task[u].plan /\ task'[u].kind = task[u].kind
          /\ task'[u].runs = task[u].runs /\ task'[u].next = task[u].next
      BY <1>1, <2>1 DEF TaskRow
    <3>2. WholeRow(u)
      BY <1>1, <2>1, <2>3 DEF Told
    <3>3. QED
      BY <2>1, <3>1, <3>2 DEF WholeRow, UntouchedRow
  <2>4. QED
    BY <2>2, <2>3 DEF Told
<1>6. ASSUME NEW u \in Tasks, UpdateTask(u) PROVE Told'
  <2>1. PICK p \in Plans :
          /\ task' = [task EXCEPT ![u] = [task[u] EXCEPT !.kind = p.kind, !.plan = p,
                                                         !.next = NextRun(p, clock)]]
          /\ said' = said /\ torn' = torn /\ touched' = touched \cup {u}
    BY <1>6 DEF UpdateTask, Edit
  <2>2. ASSUME NEW t \in Tasks \ torn', t # u PROVE WholeRow(t)'
    BY <1>1, <1>2, <2>1, <2>2
  <2>3. ASSUME u \notin torn' PROVE WholeRow(u)'
    <3>1. task'[u].plan = p /\ task'[u].kind = p.kind /\ task'[u].runs = task[u].runs
      BY <1>1, <2>1 DEF TaskRow
    <3>2. QED
      BY <1>1, <2>1, <2>3, <3>1 DEF Told, WholeRow
  <2>4. QED
    BY <2>2, <2>3 DEF Told
<1>7. ASSUME UNCHANGED <<task, said, torn, touched>> PROVE Told'
  BY <1>2, <1>7 DEF Told
<1>8. ASSUME NEW w \in Schedulers, Deliver(w) \/ ReadCron(w) \/ Abort(w) PROVE Told'
  BY <1>7, <1>8 DEF Deliver, ReadCron, Abort
<1>9. CASE TimePasses \/ UNCHANGED scheduleVars
  BY <1>7, <1>9 DEF TimePasses, scheduleVars
<1>10. QED
  BY <1>3, <1>4, <1>5, <1>6, <1>8, <1>9 DEF ScheduleNext, SchedulerStep

LEMMA ScheduleInductive == ASSUME ScheduleInv, [ScheduleNext]_scheduleVars PROVE ScheduleInv'
<1>1. ScheduleTypeOK'
  BY SchedulerTypes, RowTypes, ClockTypes
  DEF ScheduleInv, ScheduleTypeOK, TaskRow, SchedulerState
<1>2. QED
  BY <1>1, WritesStep, ToldStep DEF ScheduleInv

LEMMA ScheduleInvariant == ScheduleSpec => []ScheduleInv
<1>1. ScheduleInv /\ [ScheduleNext]_scheduleVars => ScheduleInv'
  BY ScheduleInductive
<1>2. QED
  BY InitSchedule, <1>1, PTL DEF ScheduleSpec

\* The rows, the schedulers and the clock keep their types: no schedule leads
\* before the beginning and no more is kept of an edit than a plan.
THEOREM ScheduleTypeCorrect == ScheduleSpec => []ScheduleTypeOK
<1>1. ScheduleInv => ScheduleTypeOK
  BY DEF ScheduleInv
<1>2. QED
  BY ScheduleInvariant, <1>1, PTL

\* run_scheduled_tasks: for any tasks, schedulers, schedules and edits, a task
\* whose schedule was not written back over an edit says as much as it runs,
\* and runs as often as it was created to unless the user touched it.
THEOREM OneMessagePerRun == ScheduleSpec => []MessagePerRun
<1>1. ScheduleInv => MessagePerRun
  <2> SUFFICES ASSUME ScheduleInv, NEW t \in Tasks \ (torn \cup Poison)
      PROVE  /\ said[t] = task[t].runs
             /\ t \in touched \/ /\ FirstPlan[t].kind = "once" => said[t] <= 1
                                 /\ MaxRuns[t] > 0 => said[t] <= MaxRuns[t]
    BY DEF MessagePerRun
  <2>1. WholeRow(t) /\ said[t] \in Nat /\ MaxRuns[t] \in Nat
    BY ScheduleAssumption DEF ScheduleInv, Told, ScheduleTypeOK, ScheduleAssumption
  <2>2. QED
    BY <2>1 DEF WholeRow, UntouchedRow
<1>2. QED
  BY ScheduleInvariant, <1>1, PTL

-----------------------------------------------------------------------------
(* Imports: what the cursor, the workers and the finished jobs have read.   *)

BackfillRow == [status : Open \cup Over \cup {"none"}, range : Ranges \cup {NoOne},
                cancel : BOOLEAN, pause : BOOLEAN, tries : Nat, due : BOOLEAN,
                stale : BOOLEAN, truncated : BOOLEAN]
ImporterState == [at : {"idle", "load", "list", "report", "complete", "fail"},
                  job : BackfillIds \cup {NoOne}, token : 0..Pages, seen : Nat]

\* A row that was inserted has a range, and so has a cursor with a token.
RowsRanged == \A j \in BackfillIds : backfill[j].status # "none" => backfill[j].range \in Ranges
CursorRanged == cursor.token > 0 => cursor.range \in Ranges

\* No token asks for a page past the last.
TokensInside == /\ cursor.token < Pages
                /\ \A w \in Importers : importer[w].token < Pages

\* A worker works on a row that was inserted.
HandsNamed == \A w \in Importers :
    /\ importer[w].at # "idle" => /\ importer[w].job \in BackfillIds
                                  /\ backfill[importer[w].job].status # "none"
    /\ importer[w].at = "idle" => importer[w].job = NoOne

RangeAt(w) == backfill[importer[w].job].range

\* A range is read as far as its reader's token, or to the end without one.
ReadUpTo(r, token, ended) ==
    r \notin astray => /\ \A page \in 1..token : page \in stored[r]
                       /\ token = 0 /\ ended => PageNos \subseteq stored[r]

\* What a worker has stored is what its token says.
ReadersTrue == \A w \in Importers :
    importer[w].at \in {"list", "report", "complete"} =>
        ReadUpTo(RangeAt(w), importer[w].token, importer[w].at # "list")

BackfillInv == /\ BackfillTypeOK /\ RowsRanged /\ CursorRanged /\ TokensInside
               /\ HandsNamed /\ ReadersTrue /\ NoPageSkipped

LEMMA InitBackfill == BackfillInit => BackfillInv
<1> SUFFICES ASSUME BackfillInit PROVE BackfillInv
  OBVIOUS
<1> USE BackfillAssumption DEF BackfillAssumption, BackfillInit
<1>1. backfill \in [BackfillIds -> BackfillRow]
  BY DEF BackfillRow, EmptyRow
<1>2. importer \in [Importers -> ImporterState]
  BY DEF ImporterState, Waiting
<1>3. BackfillTypeOK
  BY <1>1, <1>2 DEF BackfillTypeOK, BackfillRow, ImporterState
<1>4. RowsRanged /\ CursorRanged /\ TokensInside
  BY DEF RowsRanged, CursorRanged, TokensInside, EmptyRow, Waiting
<1>5. HandsNamed /\ ReadersTrue
  BY DEF HandsNamed, ReadersTrue, Waiting
<1>6. NoPageSkipped
  BY DEF NoPageSkipped, CursorCovered, FinishedIsWhole, EmptyRow
<1>7. QED
  BY <1>3, <1>4, <1>5, <1>6 DEF BackfillInv

\* How a step may move a row: it keeps its range unless nobody works on it, is
\* inserted with a range, and is completed by a worker that says how.
JobMovesAs(j) ==
    \/ /\ backfill'[j].range = backfill[j].range
       /\ backfill[j].status # "none" => backfill'[j].status # "none"
       /\ backfill[j].status = "none" => backfill'[j].status = "none"
       /\ \/ backfill'[j].status # "completed"
          \/ backfill'[j].status = backfill[j].status /\ backfill'[j].truncated = backfill[j].truncated
          \/ \E w \in Importers : /\ importer[w].at = "complete" /\ importer[w].job = j
                                  /\ backfill'[j].truncated = Truncated(w)
    \/ /\ \A w \in Importers : importer[w].job # j
       /\ backfill'[j].status = "pending" /\ backfill'[j].range \in Ranges

JobsMove == backfill' \in [BackfillIds -> BackfillRow] /\ \A j \in BackfillIds : JobMovesAs(j)

LEMMA NewRowType == ASSUME NEW r \in Ranges PROVE NewRow(r) \in BackfillRow
                                /\ NewRow(r).status = "pending" /\ NewRow(r).range = r
BY DEF NewRow, EmptyRow, BackfillRow, Open

LEMMA Succession ==
    ASSUME BackfillInv, NEW w \in Importers, importer[w].at = "complete",
           Truncated(w) => SpareRows # {}, backfill' = CompletedRows(w)
    PROVE  JobsMove
<1> DEFINE j == importer[w].job
           done == [backfill EXCEPT ![j].status = "completed", ![j].truncated = Truncated(w)]
<1>1. /\ backfill \in [BackfillIds -> BackfillRow] /\ j \in BackfillIds
      /\ backfill[j].status # "none" /\ backfill[j].range \in Ranges
      /\ importer \in [Importers -> ImporterState]
  BY DEF BackfillInv, BackfillTypeOK, BackfillRow, HandsNamed, RowsRanged, ImporterState
<1>2. /\ done \in [BackfillIds -> BackfillRow]
      /\ done[j].status = "completed" /\ done[j].range = backfill[j].range
      /\ done[j].truncated = Truncated(w)
      /\ \A k \in BackfillIds \ {j} : done[k] = backfill[k]
  <2>1. Truncated(w) \in BOOLEAN
    BY DEF Truncated
  <2>2. done \in [BackfillIds -> BackfillRow]
    BY <1>1, <2>1 DEF BackfillRow, Over
  <2>3. done[j].status = "completed" /\ done[j].range = backfill[j].range
    BY <1>1 DEF BackfillRow
  <2>4. done[j].truncated = Truncated(w)
    BY <1>1 DEF BackfillRow
  <2>5. \A k \in BackfillIds \ {j} : done[k] = backfill[k]
    BY <1>1
  <2>6. QED
    BY <2>2, <2>3, <2>4, <2>5
<1> HIDE DEF done
<1>3. CASE backfill' = done
  <2>1. JobMovesAs(j)
    BY <1>1, <1>2, <1>3 DEF JobMovesAs
  <2>2. \A k \in BackfillIds \ {j} : JobMovesAs(k)
    BY <1>2, <1>3 DEF JobMovesAs
  <2>3. QED
    BY <1>2, <1>3, <2>1, <2>2 DEF JobsMove
<1>4. CASE Truncated(w) /\ backfill' # done
  <2>1. PICK k \in SpareRows : backfill' = [done EXCEPT ![k] = NewRow(backfill[j].range)]
    BY <1>4 DEF CompletedRows, Successor, done
  <2>2. k \in BackfillIds /\ k # j /\ \A v \in Importers : importer[v].job # k
    BY DEF SpareRows, Working
  <2>3. backfill'[k] = NewRow(backfill[j].range) /\ \A i \in BackfillIds \ {k} : backfill'[i] = done[i]
    BY <1>2, <2>1, <2>2
  <2>4. backfill' \in [BackfillIds -> BackfillRow]
    BY <1>1, <1>2, <2>1, <2>2, NewRowType
  <2>5. JobMovesAs(k)
    BY <1>1, <2>2, <2>3, NewRowType DEF JobMovesAs
  <2>6. JobMovesAs(j)
    BY <1>1, <1>2, <2>2, <2>3 DEF JobMovesAs
  <2>7. \A i \in BackfillIds \ {j, k} : JobMovesAs(i)
    BY <1>2, <2>3 DEF JobMovesAs
  <2>8. QED
    BY <2>4, <2>5, <2>6, <2>7 DEF JobsMove
<1>5. QED
  BY <1>3, <1>4 DEF CompletedRows, done

\* One row that was inserted changes, but is neither completed nor given another range.
Adjusted(j) ==
    /\ \A k \in BackfillIds \ {j} : backfill'[k] = backfill[k]
    /\ backfill'[j].range = backfill[j].range
    /\ backfill[j].status # "none" /\ backfill'[j].status # "none"
    /\ backfill'[j].status = "completed" => /\ backfill[j].status = "completed"
                                            /\ backfill'[j].truncated = backfill[j].truncated

LEMMA Moves == ASSUME BackfillInv, [BackfillNext]_backfillVars PROVE JobsMove
<1>1. backfill \in [BackfillIds -> BackfillRow] /\ importer \in [Importers -> ImporterState]
  BY DEF BackfillInv, BackfillTypeOK, BackfillRow, ImporterState
<1>2. ASSUME backfill' = backfill PROVE JobsMove
  BY <1>1, <1>2 DEF JobsMove, JobMovesAs
<1>3. ASSUME NEW j \in BackfillIds, Adjusted(j), backfill' \in [BackfillIds -> BackfillRow]
      PROVE  JobsMove
  <2>1. JobMovesAs(j)
    BY <1>3 DEF JobMovesAs, Adjusted
  <2>2. \A k \in BackfillIds \ {j} : JobMovesAs(k)
    BY <1>3 DEF JobMovesAs, Adjusted
  <2>3. QED
    BY <1>3, <2>1, <2>2 DEF JobsMove
<1>4. ASSUME NEW r \in Ranges, EnqueueBackfill(r) PROVE JobsMove
  <2>1. PICK k \in SpareRows : backfill' = [backfill EXCEPT ![k] = NewRow(r)]
    BY <1>4 DEF EnqueueBackfill
  <2>2. k \in BackfillIds /\ \A v \in Importers : importer[v].job # k
    BY DEF SpareRows, Working
  <2>3. backfill'[k] = NewRow(r) /\ \A i \in BackfillIds \ {k} : backfill'[i] = backfill[i]
    BY <1>1, <2>1, <2>2
  <2>4. JobMovesAs(k)
    BY <2>2, <2>3, NewRowType DEF JobMovesAs
  <2>5. \A i \in BackfillIds \ {k} : JobMovesAs(i)
    BY <2>3 DEF JobMovesAs
  <2>6. QED
    BY <1>1, <2>1, <2>2, <2>4, <2>5, NewRowType DEF JobsMove
<1>5. ASSUME NEW j \in BackfillIds,
             \/ PauseBackfill(j) \/ ResumeBackfill(j) \/ CancelBackfill(j)
             \/ BackfillDue(j) \/ BackfillStale(j)
      PROVE  JobsMove
  <2> DEFINE RowsTyped == backfill' \in [BackfillIds -> BackfillRow]
  <2>1. CASE PauseBackfill(j)
    <3> DEFINE s == IF backfill[j].status = "pending" THEN "paused" ELSE backfill[j].status
    <3>0. /\ backfill' = [backfill EXCEPT ![j].pause = TRUE, ![j].status = s]
          /\ s \in {"paused", "in_progress"} /\ backfill[j].status # "none"
      BY <1>1, <2>1 DEF PauseBackfill, BackfillRow
    <3> HIDE DEF s
    <3>1. RowsTyped
      BY <1>1, <3>0 DEF BackfillRow, Open
    <3>2. Adjusted(j)
      BY <1>1, <3>0 DEF Adjusted, BackfillRow
    <3>3. QED
      BY <1>3, <3>1, <3>2
  <2>2. CASE ResumeBackfill(j)
    <3>0. /\ backfill' = [backfill EXCEPT ![j].status = "pending", ![j].pause = FALSE,
                                          ![j].due = TRUE]
          /\ backfill[j].status # "none"
      BY <1>1, <2>2 DEF ResumeBackfill, BackfillRow
    <3>1. RowsTyped
      <4> DEFINE row == [backfill[j] EXCEPT !.status = "pending", !.pause = FALSE, !.due = TRUE]
      <4>1. row \in BackfillRow
        BY <1>1 DEF BackfillRow, Open
      <4>2. backfill' = [backfill EXCEPT ![j] = row]
        BY <1>1, <3>0, Zenon
      <4>3. QED
        BY <1>1, <4>1, <4>2
    <3>2. Adjusted(j)
      <4>1. backfill'[j].status = "pending" /\ backfill'[j].range = backfill[j].range
        BY <1>1, <3>0 DEF BackfillRow
      <4>2. \A k \in BackfillIds \ {j} : backfill'[k] = backfill[k]
        BY <1>1, <3>0
      <4>3. QED
        BY <3>0, <4>1, <4>2 DEF Adjusted
    <3>3. QED
      BY <1>3, <3>1, <3>2
  <2>3. CASE CancelBackfill(j)
    <3> DEFINE s == IF backfill[j].status = "in_progress" THEN backfill[j].status
                    ELSE "cancelled"
    <3>0. /\ backfill' = [backfill EXCEPT ![j].cancel = TRUE, ![j].status = s]
          /\ s \in {"cancelled", "in_progress"}
      BY <1>1, <2>3 DEF CancelBackfill, BackfillRow
    <3>. backfill[j].status # "none"
      BY <2>3 DEF CancelBackfill, Open
    <3> HIDE DEF s
    <3>1. RowsTyped
      BY <1>1, <3>0 DEF BackfillRow, Open, Over
    <3>2. Adjusted(j)
      BY <1>1, <3>0 DEF Adjusted, BackfillRow
    <3>3. QED
      BY <1>3, <3>1, <3>2
  <2>4. CASE BackfillDue(j)
    <3>1. RowsTyped
      BY <1>1, <2>4 DEF BackfillDue, BackfillRow, Open, Over
    <3>2. Adjusted(j)
      BY <1>1, <2>4 DEF BackfillDue, Adjusted, BackfillRow, Open
    <3>3. QED
      BY <1>3, <3>1, <3>2
  <2>5. CASE BackfillStale(j)
    <3>1. RowsTyped
      BY <1>1, <2>5 DEF BackfillStale, BackfillRow, Open, Over
    <3>2. Adjusted(j)
      BY <1>1, <2>5 DEF BackfillStale, Adjusted, BackfillRow, Open
    <3>3. QED
      BY <1>3, <3>1, <3>2
  <2>6. QED
    BY <1>5, <2>1, <2>2, <2>3, <2>4, <2>5
<1>6. ASSUME NEW w \in Importers, ClaimBackfill(w) PROVE JobsMove
  <2>1. PICK j \in BackfillIds : /\ Takeable(backfill[j])
                                 /\ backfill' = [backfill EXCEPT ![j].status = "in_progress",
                                        ![j].stale = FALSE, ![j].tries = @ + 1]
    BY <1>6 DEF ClaimBackfill
  <2>2. backfill' \in [BackfillIds -> BackfillRow]
    BY <1>1, <2>1 DEF BackfillRow, Open
  <2>3. Adjusted(j)
    BY <1>1, <2>1 DEF Adjusted, Takeable, BackfillRow
  <2>4. QED
    BY <1>3, <2>2, <2>3
<1>7. ASSUME NEW w \in Importers, ReportProgress(w) PROVE JobsMove
  <2>1. PICK j \in BackfillIds : j = importer[w].job /\ backfill[j].status # "none"
    BY <1>7 DEF ReportProgress, BackfillInv, HandsNamed
  <2>2. backfill' = [backfill EXCEPT ![j].stale =
                        IF backfill[j].status = "in_progress" THEN FALSE ELSE @]
    BY <1>7, <2>1 DEF ReportProgress
  <2>3. backfill' \in [BackfillIds -> BackfillRow]
    BY <1>1, <2>2 DEF BackfillRow
  <2>4. Adjusted(j)
    BY <1>1, <2>1, <2>2 DEF Adjusted, BackfillRow
  <2>5. QED
    BY <1>3, <2>3, <2>4
<1>8. ASSUME NEW w \in Importers, FailBackfill(w) PROVE JobsMove
  <2>1. PICK j \in BackfillIds : j = importer[w].job /\ backfill[j].status # "none"
    BY <1>8 DEF FailBackfill, BackfillInv, HandsNamed
  <2>2. backfill' = [backfill EXCEPT ![j] = AfterFailure(backfill[j])]
    BY <1>8, <2>1 DEF FailBackfill
  <2>3. ASSUME NEW row \in BackfillRow, row.status # "none"
        PROVE  /\ AfterFailure(row) \in BackfillRow /\ AfterFailure(row).range = row.range
               /\ AfterFailure(row).status \in {"cancelled", "paused", "failed", "pending"}
    BY <2>3 DEF AfterFailure, BackfillRow, Open, Over
  <2>4. backfill' \in [BackfillIds -> BackfillRow]
    BY <1>1, <2>1, <2>2, <2>3
  <2>5. Adjusted(j)
    BY <1>1, <2>1, <2>2, <2>3 DEF Adjusted
  <2>6. QED
    BY <1>3, <2>4, <2>5
<1>9. ASSUME NEW w \in Importers, CompleteBackfill(w) \/ CompletionErrors(w) PROVE JobsMove
  BY <1>2, <1>9, Succession DEF CompleteBackfill, CompletionErrors
<1>10. ASSUME NEW w \in Importers, \/ LoadCursor(w) \/ StorePage(w) \/ FailureLost(w)
                                   \/ ImportFails(w) \/ CrashImporter(w)
       PROVE  JobsMove
  BY <1>2, <1>10 DEF LoadCursor, StorePage, FailureLost, ImportFails, CrashImporter
<1>11. CASE UNCHANGED backfillVars
  BY <1>2, <1>11 DEF backfillVars
<1>12. QED
  BY <1>4, <1>5, <1>6, <1>7, <1>8, <1>9, <1>10, <1>11 DEF BackfillNext, ImportStep

LEMMA BackfillBase ==
    ASSUME BackfillInv
    PROVE  /\ backfill \in [BackfillIds -> BackfillRow] /\ importer \in [Importers -> ImporterState]
           /\ cursor \in [token : 0..Pages, range : Ranges \cup {NoOne}]
           /\ stored \in [Ranges -> SUBSET PageNos]
           /\ asked \subseteq Ranges /\ astray \subseteq Ranges /\ stopped \subseteq Ranges
           /\ Pages \in Nat \ {0} /\ NoOne \notin BackfillIds /\ NoOne \notin Ranges
BY BackfillAssumption
DEF BackfillInv, BackfillTypeOK, BackfillRow, ImporterState, BackfillAssumption, Ranges

\* What a worker does to itself, and to whom.
LEMMA ImporterSteps ==
    ASSUME BackfillInv, [BackfillNext]_backfillVars
    PROVE  \/ importer' = importer
           \/ \E w \in Importers : ImportStep(w) \/ CompletionErrors(w) \/ ImportFails(w)
                                   \/ CrashImporter(w)
<1>1. ASSUME NEW j \in BackfillIds,
             \/ PauseBackfill(j) \/ ResumeBackfill(j) \/ CancelBackfill(j)
             \/ BackfillDue(j) \/ BackfillStale(j)
      PROVE  importer' = importer
  BY <1>1 DEF PauseBackfill, ResumeBackfill, CancelBackfill, BackfillDue, BackfillStale, importVars
<1>2. ASSUME NEW r \in Ranges, EnqueueBackfill(r) PROVE importer' = importer
  BY <1>2 DEF EnqueueBackfill, importVars
<1>3. QED
  BY <1>1, <1>2 DEF BackfillNext, backfillVars

LEMMA WaitingType == Waiting \in ImporterState /\ Waiting.at = "idle" /\ Waiting.token = 0
                     /\ Waiting.job = NoOne
BY BackfillAssumption DEF Waiting, ImporterState, BackfillAssumption

LEMMA NextTokenInside ==
    ASSUME NEW token \in 0..Pages, token < Pages, Pages \in Nat \ {0}
    PROVE  NextToken(token + 1) \in 0..Pages /\ NextToken(token + 1) < Pages
           /\ token + 1 \in PageNos
BY DEF NextToken, PageNos

LEMMA ImporterTypes ==
    ASSUME BackfillInv, [BackfillNext]_backfillVars
    PROVE  /\ importer' \in [Importers -> ImporterState]
           /\ \A w \in Importers : importer'[w].token < Pages
<1> DEFINE Goal == /\ importer' \in [Importers -> ImporterState]
                   /\ \A w \in Importers : importer'[w].token < Pages
<1>1. /\ importer \in [Importers -> ImporterState] /\ cursor.token < Pages
      /\ cursor.token \in 0..Pages /\ Pages \in Nat \ {0}
      /\ \A w \in Importers : importer[w].token < Pages
  BY BackfillBase DEF BackfillInv, TokensInside
<1>2. ASSUME NEW w \in Importers, NEW s \in ImporterState, s.token < Pages,
             importer' = [importer EXCEPT ![w] = s]
      PROVE  Goal
  BY <1>1, <1>2
<1>3. ASSUME NEW w \in Importers, ClaimBackfill(w) PROVE Goal
  <2>1. PICK j \in BackfillIds :
          importer' = [importer EXCEPT ![w] = [Waiting EXCEPT !.at = "load", !.job = j]]
    BY <1>3 DEF ClaimBackfill
  <2> DEFINE s == [Waiting EXCEPT !.at = "load", !.job = j]
  <2>2. s \in ImporterState
    BY WaitingType DEF ImporterState
  <2>3. s.token < Pages
    BY <1>1 DEF Waiting
  <2> HIDE DEF s
  <2>4. QED
    BY <1>2, <2>1, <2>2, <2>3 DEF s
<1>4. ASSUME NEW w \in Importers, LoadCursor(w) PROVE Goal
  <2>1. PICK t \in {cursor.token, 0} :
          importer' = [importer EXCEPT ![w].at = "list", ![w].token = t]
    BY <1>4 DEF LoadCursor
  <2>2. t \in 0..Pages /\ t < Pages
    BY <1>1
  <2>3. importer' \in [Importers -> ImporterState]
    BY <1>1, <2>1, <2>2 DEF ImporterState
  <2>4. \A v \in Importers : importer'[v].token < Pages
    BY <1>1, <2>1, <2>2 DEF ImporterState
  <2>5. QED
    BY <2>3, <2>4
<1>5. ASSUME NEW w \in Importers, StorePage(w) PROVE Goal
  <2>1. PICK t : /\ t = NextToken(importer[w].token + 1)
                 /\ importer' = [importer EXCEPT ![w].at = "report", ![w].token = t,
                                                 ![w].seen = @ + 1]
    BY <1>5 DEF StorePage
  <2>2. t \in 0..Pages /\ t < Pages
    <3>1. importer[w].token \in 0..Pages /\ importer[w].token < Pages
      BY <1>1 DEF ImporterState
    <3>2. QED
      BY <1>1, <2>1, <3>1, NextTokenInside
  <2> DEFINE s == [importer[w] EXCEPT !.at = "report", !.token = t, !.seen = @ + 1]
  <2>3. s \in ImporterState /\ s.token = t
    <3>1. importer[w].seen + 1 \in Nat
      BY <1>1 DEF ImporterState
    <3>2. s \in ImporterState
      BY <1>1, <2>2, <3>1 DEF ImporterState
    <3>3. s.token = t
      BY <1>1 DEF ImporterState
    <3>4. QED
      BY <3>2, <3>3
  <2>4. importer' = [importer EXCEPT ![w] = s]
    BY <1>1, <2>1, Zenon
  <2> HIDE DEF s
  <2>5. QED
    BY <1>2, <2>2, <2>3, <2>4
<1>6. ASSUME NEW w \in Importers, NEW at \in {"fail", "complete", "list"},
             importer' = [importer EXCEPT ![w].at = at]
      PROVE  Goal
  BY <1>1, <1>6 DEF ImporterState
<1>7. ASSUME NEW w \in Importers, ReportProgress(w) PROVE Goal
  BY <1>6, <1>7 DEF ReportProgress
<1>8. ASSUME NEW w \in Importers, CompletionErrors(w) \/ ImportFails(w) PROVE Goal
  BY <1>6, <1>8 DEF CompletionErrors, ImportFails
<1>9. ASSUME NEW w \in Importers, importer' = [importer EXCEPT ![w] = Waiting] PROVE Goal
  <2>1. Waiting.token < Pages
    BY <1>1, WaitingType
  <2>2. QED
    BY <1>2, <1>9, <2>1, WaitingType
<1>10. ASSUME NEW w \in Importers,
              CompleteBackfill(w) \/ FailBackfill(w) \/ FailureLost(w) \/ CrashImporter(w)
       PROVE  Goal
  BY <1>9, <1>10 DEF CompleteBackfill, FailBackfill, FailureLost, CrashImporter
<1>11. QED
  BY <1>1, <1>3, <1>4, <1>5, <1>7, <1>8, <1>10, ImporterSteps DEF ImportStep

LEMMA BudgetTypes == ASSUME BackfillTypeOK, [BackfillNext]_backfillVars
    PROVE bfBudget' \in [fault : 0..MaxBackfillFaults, crash : 0..MaxBackfillCrashes,
                         late : 0..MaxBackfillLate, request : 0..MaxRequests, ask : 0..MaxAsks]
<1> DEFINE Type == [fault : 0..MaxBackfillFaults, crash : 0..MaxBackfillCrashes,
                    late : 0..MaxBackfillLate, request : 0..MaxRequests, ask : 0..MaxAsks]
<1>1. /\ bfBudget \in Type
      /\ MaxBackfillFaults \in Nat /\ MaxBackfillCrashes \in Nat /\ MaxBackfillLate \in Nat
      /\ MaxRequests \in Nat /\ MaxAsks \in Nat
  BY BackfillAssumption DEF BackfillTypeOK, BackfillAssumption
<1>2. Charge("fault", MaxBackfillFaults) => bfBudget' \in Type
  BY <1>1 DEF Charge
<1>3. Charge("crash", MaxBackfillCrashes) => bfBudget' \in Type
  BY <1>1 DEF Charge
<1>4. Charge("late", MaxBackfillLate) => bfBudget' \in Type
  BY <1>1 DEF Charge
<1>5. Charge("request", MaxRequests) => bfBudget' \in Type
  BY <1>1 DEF Charge
<1>6. ASSUME NEW r \in Ranges, EnqueueBackfill(r) PROVE bfBudget' \in Type
  BY <1>1, <1>6 DEF EnqueueBackfill
<1> HIDE DEF Type
<1>7. ASSUME NEW j \in BackfillIds, \/ PauseBackfill(j) \/ ResumeBackfill(j) \/ CancelBackfill(j)
                                    \/ BackfillDue(j) \/ BackfillStale(j)
      PROVE  bfBudget' \in Type
  BY <1>1, <1>4, <1>5, <1>7
  DEF PauseBackfill, ResumeBackfill, CancelBackfill, BackfillDue, BackfillStale
<1>8. ASSUME NEW w \in Importers, ImportStep(w) PROVE bfBudget' \in Type
  BY <1>1, <1>2, <1>8 DEF ImportStep, ClaimBackfill, LoadCursor, StorePage, ReportProgress,
     CompleteBackfill, FailBackfill, FailureLost, Trouble
<1>9. ASSUME NEW w \in Importers, CompletionErrors(w) \/ ImportFails(w) \/ CrashImporter(w)
      PROVE  bfBudget' \in Type
  BY <1>1, <1>2, <1>3, <1>9 DEF CompletionErrors, ImportFails, CrashImporter, Trouble
<1>10. CASE UNCHANGED backfillVars
  BY <1>1, <1>10 DEF backfillVars, Type
<1>11. QED
  BY <1>6, <1>7, <1>8, <1>9, <1>10 DEF BackfillNext, Type

\* A worker at work has a row that was inserted, and its range.
LEMMA AtWork ==
    ASSUME BackfillInv, NEW w \in Importers, importer[w].at # "idle"
    PROVE  /\ importer[w].job \in BackfillIds /\ RangeAt(w) \in Ranges
           /\ backfill[importer[w].job].status # "none"
BY DEF BackfillInv, HandsNamed, RowsRanged, RangeAt

\* What a worker writes to the cursor is a page it has read up to.
LEMMA SavedIsRead ==
    ASSUME BackfillInv, NEW w \in Importers, importer[w].at \in {"report", "complete"}
    PROVE  /\ SavedCursor(w) \in [token : 0..Pages, range : Ranges \cup {NoOne}]
           /\ SavedCursor(w).token < Pages /\ SavedCursor(w).range \in Ranges
           /\ SavedCursor(w).range \notin astray =>
                 \A page \in 1..SavedCursor(w).token : page \in stored[SavedCursor(w).range]
<1>1. /\ importer[w] \in ImporterState /\ RangeAt(w) \in Ranges /\ Pages \in Nat \ {0}
      /\ importer[w].token < Pages /\ importer[w].token \in 0..Pages
  BY BackfillBase, AtWork DEF BackfillInv, TokensInside, ImporterState
<1>2. ReadUpTo(RangeAt(w), importer[w].token, TRUE)
  BY DEF BackfillInv, ReadersTrue
<1>3. SavedCursor(w) = [token |-> IF RangeAt(w) \in Live THEN importer[w].token ELSE 0,
                        range |-> RangeAt(w)]
  BY DEF SavedCursor, RangeAt
<1>4. QED
  BY <1>1, <1>2, <1>3 DEF ReadUpTo

LEMMA CursorSteps ==
    ASSUME BackfillInv, [BackfillNext]_backfillVars
    PROVE  \/ cursor' = cursor
           \/ \E w \in Importers : /\ importer[w].at \in {"report", "complete"}
                                   /\ cursor' = SavedCursor(w) /\ astray' = astray /\ stored' = stored
<1>1. ASSUME NEW j \in BackfillIds,
             \/ PauseBackfill(j) \/ ResumeBackfill(j) \/ CancelBackfill(j)
             \/ BackfillDue(j) \/ BackfillStale(j)
      PROVE  cursor' = cursor
  BY <1>1 DEF PauseBackfill, ResumeBackfill, CancelBackfill, BackfillDue, BackfillStale, importVars
<1>2. ASSUME NEW r \in Ranges, EnqueueBackfill(r) PROVE cursor' = cursor
  BY <1>2 DEF EnqueueBackfill, importVars
<1>3. ASSUME NEW w \in Importers, ReportProgress(w) \/ CompleteBackfill(w) \/ CompletionErrors(w)
      PROVE  \/ cursor' = cursor
             \/ /\ importer[w].at \in {"report", "complete"}
                /\ cursor' = SavedCursor(w) /\ astray' = astray /\ stored' = stored
  BY <1>3 DEF ReportProgress, CompleteBackfill, CompletionErrors
<1>4. ASSUME NEW w \in Importers, \/ ClaimBackfill(w) \/ LoadCursor(w) \/ StorePage(w)
                                  \/ FailBackfill(w) \/ FailureLost(w) \/ ImportFails(w)
                                  \/ CrashImporter(w)
      PROVE  cursor' = cursor
  BY <1>4 DEF ClaimBackfill, LoadCursor, StorePage, FailBackfill, FailureLost, ImportFails,
     CrashImporter
<1>5. QED
  BY <1>1, <1>2, <1>3, <1>4 DEF BackfillNext, ImportStep, backfillVars

LEMMA HistoryTypes ==
    ASSUME BackfillInv, [BackfillNext]_backfillVars
    PROVE  /\ stored' \in [Ranges -> SUBSET PageNos]
           /\ \A r \in Ranges : stored[r] \subseteq stored'[r]
           /\ asked' \subseteq Ranges /\ astray' \subseteq Ranges /\ stopped' \subseteq Ranges
           /\ astray \subseteq astray'
<1> DEFINE Goal == /\ stored' \in [Ranges -> SUBSET PageNos]
                   /\ \A r \in Ranges : stored[r] \subseteq stored'[r]
                   /\ asked' \subseteq Ranges /\ astray' \subseteq Ranges /\ stopped' \subseteq Ranges
                   /\ astray \subseteq astray'
<1>1. /\ stored \in [Ranges -> SUBSET PageNos] /\ importer \in [Importers -> ImporterState]
      /\ asked \subseteq Ranges /\ astray \subseteq Ranges /\ stopped \subseteq Ranges
  BY BackfillBase
<1>2. ASSUME NEW r \in Ranges, EnqueueBackfill(r) PROVE Goal
  BY <1>1, <1>2 DEF EnqueueBackfill, importVars
<1>3. ASSUME NEW j \in BackfillIds, PauseBackfill(j) \/ CancelBackfill(j) PROVE Goal
  <2>1. backfill[j].range \in Ranges
    BY <1>3 DEF PauseBackfill, CancelBackfill, Open, BackfillInv, RowsRanged
  <2>2. /\ stopped' = stopped \cup {backfill[j].range}
        /\ UNCHANGED <<asked, stored, astray>>
    BY <1>3 DEF PauseBackfill, CancelBackfill, Halt, importVars
  <2>3. QED
    BY <1>1, <2>1, <2>2
<1>4. ASSUME NEW w \in Importers, LoadCursor(w) PROVE Goal
  <2>1. importer[w].at # "idle"
    BY <1>4 DEF LoadCursor
  <2>2. /\ astray' = astray \/ astray' = astray \cup {RangeAt(w)}
        /\ UNCHANGED <<stored, asked, stopped>>
    BY <1>4 DEF LoadCursor, RangeAt
  <2>3. QED
    BY <1>1, <2>1, <2>2, AtWork
<1>5. ASSUME NEW w \in Importers, StorePage(w) PROVE Goal
  <2>1. importer[w].at # "idle"
    BY <1>5 DEF StorePage
  <2>2. importer[w].token + 1 \in PageNos
    <3>1. importer[w].token \in 0..Pages /\ importer[w].token < Pages /\ Pages \in Nat \ {0}
      BY <1>1, BackfillBase DEF BackfillInv, TokensInside, ImporterState
    <3>2. QED
      BY <3>1, NextTokenInside
  <2>3. /\ stored' = [stored EXCEPT ![RangeAt(w)] = @ \cup {importer[w].token + 1}]
        /\ UNCHANGED <<asked, astray, stopped>>
    BY <1>5 DEF StorePage, RangeAt
  <2>4. RangeAt(w) \in Ranges
    BY <2>1, AtWork
  <2>5. QED
    BY <1>1, <2>2, <2>3, <2>4
<1>6. ASSUME NEW w \in Importers, FailBackfill(w) PROVE Goal
  <2>1. importer[w].at # "idle"
    BY <1>6 DEF FailBackfill
  <2>2. /\ stopped' = stopped \/ stopped' = stopped \cup {AfterFailure(backfill[importer[w].job]).range}
        /\ UNCHANGED <<stored, asked, astray>>
    BY <1>6 DEF FailBackfill
  <2>3. AfterFailure(backfill[importer[w].job]).range = RangeAt(w)
    <3>1. backfill[importer[w].job] \in BackfillRow
      BY <2>1, AtWork, BackfillBase
    <3>2. QED
      BY <3>1 DEF AfterFailure, RangeAt, BackfillRow
  <2>4. QED
    BY <1>1, <2>1, <2>2, <2>3, AtWork
<1>7. ASSUME UNCHANGED <<stored, asked, astray, stopped>> PROVE Goal
  BY <1>1, <1>7
<1>8. ASSUME NEW j \in BackfillIds, ResumeBackfill(j) \/ BackfillDue(j) \/ BackfillStale(j)
      PROVE  Goal
  BY <1>7, <1>8 DEF ResumeBackfill, BackfillDue, BackfillStale, importVars
<1>9. ASSUME NEW w \in Importers,
             \/ ClaimBackfill(w) \/ ReportProgress(w) \/ CompleteBackfill(w) \/ FailureLost(w)
             \/ CompletionErrors(w) \/ ImportFails(w) \/ CrashImporter(w)
      PROVE  Goal
  BY <1>7, <1>9 DEF ClaimBackfill, ReportProgress, CompleteBackfill, FailureLost,
     CompletionErrors, ImportFails, CrashImporter
<1>10. CASE UNCHANGED backfillVars
  BY <1>7, <1>10 DEF backfillVars
<1>11. QED
  BY <1>2, <1>3, <1>4, <1>5, <1>6, <1>8, <1>9, <1>10 DEF BackfillNext, ImportStep

LEMMA RangedStep == ASSUME BackfillInv, [BackfillNext]_backfillVars
                    PROVE  RowsRanged' /\ CursorRanged' /\ cursor'.token < Pages
                           /\ cursor' \in [token : 0..Pages, range : Ranges \cup {NoOne}]
<1>1. JobsMove
  BY Moves
<1>2. RowsRanged'
  BY <1>1 DEF RowsRanged, JobsMove, JobMovesAs, BackfillInv
<1>3. CASE cursor' = cursor
  BY <1>2, <1>3, BackfillBase DEF BackfillInv, CursorRanged, TokensInside
<1>4. CASE \E w \in Importers : /\ importer[w].at \in {"report", "complete"}
                                /\ cursor' = SavedCursor(w)
  BY <1>2, <1>4, SavedIsRead DEF CursorRanged
<1>5. QED
  BY <1>3, <1>4, CursorSteps

LEMMA HandsStep == ASSUME BackfillInv, [BackfillNext]_backfillVars PROVE HandsNamed'
<1>1. JobsMove /\ HandsNamed /\ importer \in [Importers -> ImporterState]
      /\ NoOne \notin BackfillIds
  BY Moves, BackfillBase DEF BackfillInv
<1>2. ASSUME NEW j \in BackfillIds, backfill[j].status # "none" PROVE backfill'[j].status # "none"
  BY <1>1, <1>2 DEF JobsMove, JobMovesAs
<1> DEFINE JobHeld(v) == /\ importer'[v].at # "idle" => /\ importer'[v].job \in BackfillIds
                                                       /\ backfill'[importer'[v].job].status # "none"
                         /\ importer'[v].at = "idle" => importer'[v].job = NoOne
<1>3. ASSUME NEW v \in Importers, importer'[v].at = importer[v].at \/ "idle" \notin {importer'[v].at, importer[v].at},
             importer'[v].job = importer[v].job
      PROVE  JobHeld(v)
  BY <1>1, <1>2, <1>3 DEF HandsNamed
<1>4. ASSUME NEW v \in Importers, importer'[v] = Waiting PROVE JobHeld(v)
  BY <1>4, WaitingType
<1>5. ASSUME NEW w \in Importers, ClaimBackfill(w), NEW v \in Importers PROVE JobHeld(v)
  <2>1. PICK j \in BackfillIds :
          /\ backfill[j].status # "none"
          /\ importer' = [importer EXCEPT ![w] = [Waiting EXCEPT !.at = "load", !.job = j]]
    BY <1>5 DEF ClaimBackfill, Takeable
  <2>2. importer'[w].job = j /\ importer'[w].at = "load"
    BY <1>1, <2>1 DEF Waiting
  <2>3. QED
    BY <1>1, <1>2, <1>3, <2>1, <2>2
<1>6. ASSUME NEW w \in Importers, NEW v \in Importers,
             CompleteBackfill(w) \/ FailBackfill(w) \/ FailureLost(w) \/ CrashImporter(w)
      PROVE  JobHeld(v)
  <2>1. importer' = [importer EXCEPT ![w] = Waiting]
    BY <1>6 DEF CompleteBackfill, FailBackfill, FailureLost, CrashImporter
  <2>2. QED
    BY <1>1, <1>3, <1>4, <2>1
<1>7. ASSUME NEW w \in Importers, NEW v \in Importers,
             \/ LoadCursor(w) \/ StorePage(w) \/ ReportProgress(w)
             \/ CompletionErrors(w) \/ ImportFails(w)
      PROVE  JobHeld(v)
  <2>1. importer'[v].job = importer[v].job
    BY <1>1, <1>7 DEF LoadCursor, StorePage, ReportProgress, CompletionErrors, ImportFails,
       ImporterState
  <2>2. importer'[v].at = importer[v].at \/ "idle" \notin {importer'[v].at, importer[v].at}
    BY <1>1, <1>7 DEF LoadCursor, StorePage, ReportProgress, CompletionErrors, ImportFails,
       ImporterState
  <2>3. QED
    BY <1>3, <2>1, <2>2
<1>8. ASSUME importer' = importer, NEW v \in Importers PROVE JobHeld(v)
  BY <1>3, <1>8
<1>9. \A v \in Importers : JobHeld(v)
  BY <1>5, <1>6, <1>7, <1>8, ImporterSteps DEF ImportStep
<1>10. QED
  BY <1>9 DEF HandsNamed

\* A reader's row keeps its range.
LEMMA RangeStays ==
    ASSUME BackfillInv, JobsMove, NEW w \in Importers, importer[w].at # "idle"
    PROVE  backfill'[importer[w].job].range = RangeAt(w)
BY AtWork DEF JobsMove, JobMovesAs, RangeAt

LEMMA ReadUpToGrows ==
    ASSUME NEW r \in Ranges, NEW token \in 0..Pages, NEW ended \in BOOLEAN,
           ReadUpTo(r, token, ended), stored[r] \subseteq stored'[r], astray \subseteq astray'
    PROVE  ReadUpTo(r, token, ended)'
BY DEF ReadUpTo

LEMMA ReadersStep == ASSUME BackfillInv, [BackfillNext]_backfillVars PROVE ReadersTrue'
<1> DEFINE Says(v) == importer'[v].at \in {"list", "report", "complete"} =>
        ReadUpTo(RangeAt(v), importer[v].token, importer[v].at # "list")'
<1>1. /\ importer \in [Importers -> ImporterState] /\ ReadersTrue /\ JobsMove
      /\ Pages \in Nat \ {0} /\ stored \in [Ranges -> SUBSET PageNos]
  BY Moves, BackfillBase DEF BackfillInv
<1>2. astray \subseteq astray' /\ \A r \in Ranges : stored[r] \subseteq stored'[r]
  BY HistoryTypes
<1>3. ASSUME NEW v \in Importers, importer[v].at \in {"list", "report", "complete"},
             importer'[v].job = importer[v].job, importer'[v].token = importer[v].token,
             importer'[v].at = "list" \/ importer[v].at # "list"
      PROVE  Says(v)
  <2>1. /\ RangeAt(v) \in Ranges /\ RangeAt(v)' = RangeAt(v) /\ importer[v].token \in 0..Pages
    BY <1>1, <1>3, AtWork, RangeStays DEF RangeAt, ImporterState
  <2>2. ReadUpTo(RangeAt(v), importer[v].token, importer[v].at # "list")
    BY <1>1, <1>3 DEF ReadersTrue
  <2>3. \A page \in 1..importer[v].token : RangeAt(v) \notin astray' =>
            page \in stored'[RangeAt(v)]
    BY <1>2, <2>1, <2>2 DEF ReadUpTo
  <2>4. importer'[v].at # "list" /\ importer[v].token = 0 /\ RangeAt(v) \notin astray' =>
            PageNos \subseteq stored'[RangeAt(v)]
    BY <1>2, <1>3, <2>1, <2>2 DEF ReadUpTo
  <2>5. QED
    BY <1>3, <2>1, <2>3, <2>4 DEF ReadUpTo
<1>4. ASSUME NEW w \in Importers, LoadCursor(w), NEW v \in Importers PROVE Says(v)
  <2>1. CASE v # w
    BY <1>1, <1>3, <1>4, <2>1 DEF LoadCursor
  <2>2. CASE v = w
    <3>1. importer[w].at = "load"
      BY <1>4 DEF LoadCursor
    <3>2. RangeAt(w) \in Ranges /\ RangeAt(w)' = RangeAt(w)
      <4>1. importer'[w].job = importer[w].job
        BY <1>1, <1>4 DEF LoadCursor, ImporterState
      <4>2. QED
        BY <1>1, <3>1, <4>1, AtWork, RangeStays DEF RangeAt
    <3>3. /\ importer'[w].at = "list"
          /\ importer'[w].token = IF RangeAt(w) \in Live THEN cursor.token ELSE 0
      BY <1>1, <1>4 DEF LoadCursor, RangeAt, ImporterState
    <3>4. importer'[w].token > 0 /\ RangeAt(w) \notin astray' => cursor.range = RangeAt(w)
      BY <1>4, <3>3 DEF LoadCursor, RangeAt
    <3>5. ASSUME NEW page \in 1..importer'[w].token, RangeAt(w) \notin astray'
          PROVE  page \in stored'[RangeAt(w)]
      <4>1. cursor.token \in 0..Pages /\ cursor.range \notin astray =>
               \A i \in 1..cursor.token : i \in stored[cursor.range]
        BY BackfillBase DEF BackfillInv, NoPageSkipped, CursorCovered
      <4>2. importer'[w].token = cursor.token /\ importer'[w].token > 0
        BY <1>1, <3>3, <3>5, BackfillBase
      <4>3. QED
        BY <1>2, <3>2, <3>4, <3>5, <4>1, <4>2, BackfillBase
    <3>6. QED
      BY <2>2, <3>2, <3>3, <3>5 DEF ReadUpTo
  <2>3. QED
    BY <2>1, <2>2
<1>5. ASSUME NEW w \in Importers, StorePage(w), NEW v \in Importers PROVE Says(v)
  <2>1. CASE v # w
    BY <1>1, <1>3, <1>5, <2>1 DEF StorePage
  <2>2. CASE v = w
    <3> DEFINE page == importer[w].token + 1
               r == RangeAt(w)
    <3>1. importer[w].at = "list" /\ importer[w].token \in 0..Pages /\ importer[w].token < Pages
      BY <1>1, <1>5 DEF StorePage, ImporterState, BackfillInv, TokensInside
    <3>2. /\ importer'[w].job = importer[w].job /\ importer'[w].at = "report"
          /\ importer'[w].token = NextToken(page)
      BY <1>1, <1>5 DEF StorePage, ImporterState
    <3>3. r \in Ranges /\ RangeAt(w)' = r
      BY <1>1, <3>1, <3>2, AtWork, RangeStays DEF RangeAt
    <3>4. stored'[r] = stored[r] \cup {page} /\ astray' = astray
      BY <1>1, <1>5, <3>3 DEF StorePage, RangeAt
    <3>5. r \notin astray => \A i \in 1..importer[w].token : i \in stored[r]
      BY <1>1, <3>1 DEF ReadersTrue, ReadUpTo
    <3>6. r \notin astray => \A i \in 1..page : i \in stored'[r]
      BY <3>1, <3>4, <3>5
    <3>7. \/ NextToken(page) = page
          \/ NextToken(page) = 0 /\ page = Pages
      BY <1>1, <3>1 DEF NextToken
    <3>8. page \in Nat /\ page > 0
      BY <3>1
    <3> HIDE DEF page, r
    <3>9. r \notin astray' => /\ \A i \in 1..NextToken(page) : i \in stored'[r]
                              /\ NextToken(page) = 0 => PageNos \subseteq stored'[r]
      BY <3>4, <3>6, <3>7, <3>8 DEF PageNos
    <3>10. QED
      BY <2>2, <3>2, <3>3, <3>9 DEF ReadUpTo
  <2>3. QED
    BY <2>1, <2>2
<1>6. ASSUME NEW w \in Importers, ReportProgress(w), NEW v \in Importers PROVE Says(v)
  <2>1. CASE v # w
    BY <1>1, <1>3, <1>6, <2>1 DEF ReportProgress
  <2>2. CASE v = w
    <3>1. /\ importer[w].at = "report" /\ importer'[w].job = importer[w].job
          /\ importer'[w].token = importer[w].token
      BY <1>1, <1>6 DEF ReportProgress, ImporterState
    <3>2. QED
      BY <1>3, <2>2, <3>1
  <2>3. QED
    BY <2>1, <2>2
<1>7. ASSUME NEW w \in Importers, importer'[w].at \notin {"list", "report", "complete"},
             \A v \in Importers \ {w} : importer'[v] = importer[v], NEW v \in Importers
      PROVE  Says(v)
  BY <1>3, <1>7
<1>8. ASSUME NEW w \in Importers, ClaimBackfill(w), NEW v \in Importers PROVE Says(v)
  BY <1>1, <1>7, <1>8 DEF ClaimBackfill, Waiting
<1>9. ASSUME NEW w \in Importers, CompletionErrors(w) \/ ImportFails(w), NEW v \in Importers
      PROVE  Says(v)
  <2>1. importer' = [importer EXCEPT ![w].at = "fail"]
    BY <1>9 DEF CompletionErrors, ImportFails
  <2>2. QED
    BY <1>1, <1>7, <2>1 DEF ImporterState
<1>10. ASSUME NEW w \in Importers, NEW v \in Importers,
              CompleteBackfill(w) \/ FailBackfill(w) \/ FailureLost(w) \/ CrashImporter(w)
       PROVE  Says(v)
  <2>1. importer' = [importer EXCEPT ![w] = Waiting]
    BY <1>10 DEF CompleteBackfill, FailBackfill, FailureLost, CrashImporter
  <2>2. QED
    BY <1>1, <1>7, <2>1, WaitingType
<1>11. ASSUME importer' = importer, NEW v \in Importers PROVE Says(v)
  BY <1>3, <1>11
<1>12. \A v \in Importers : Says(v)
  BY <1>4, <1>5, <1>6, <1>8, <1>9, <1>10, <1>11, ImporterSteps DEF ImportStep
<1>13. QED
  BY <1>12 DEF ReadersTrue

LEMMA CoveredStep == ASSUME BackfillInv, [BackfillNext]_backfillVars PROVE CursorCovered'
<1>1. astray \subseteq astray' /\ \A r \in Ranges : stored[r] \subseteq stored'[r]
  BY HistoryTypes
<1>2. CASE cursor' = cursor
  <2>1. cursor.token \in 0..Pages /\ CursorRanged /\ CursorCovered
    BY BackfillBase DEF BackfillInv, NoPageSkipped
  <2>2. ASSUME NEW page \in 1..cursor.token, cursor.range \notin astray'
        PROVE  page \in stored'[cursor.range]
    <3>1. cursor.range \in Ranges
      BY <2>1, <2>2, BackfillBase DEF CursorRanged
    <3>2. QED
      BY <1>1, <2>1, <2>2, <3>1 DEF CursorCovered
  <2>3. QED
    BY <1>2, <2>2 DEF CursorCovered
<1>3. ASSUME NEW w \in Importers, importer[w].at \in {"report", "complete"},
             cursor' = SavedCursor(w), astray' = astray, stored' = stored
      PROVE  CursorCovered'
  BY <1>3, SavedIsRead DEF CursorCovered
<1>4. QED
  BY <1>2, <1>3, CursorSteps

LEMMA WholeStep == ASSUME BackfillInv, [BackfillNext]_backfillVars PROVE FinishedIsWhole'
<1>1. /\ astray \subseteq astray' /\ \A r \in Ranges : stored[r] \subseteq stored'[r]
      /\ JobsMove /\ importer \in [Importers -> ImporterState]
  BY HistoryTypes, Moves, BackfillBase
<1>2. ASSUME NEW j \in BackfillIds, backfill'[j].status = "completed",
             ~backfill'[j].truncated, backfill'[j].range \notin astray'
      PROVE  PageNos \subseteq stored'[backfill'[j].range]
  <2>1. /\ backfill'[j].range = backfill[j].range /\ backfill[j].status # "none"
        /\ \/ backfill'[j].status = backfill[j].status /\ backfill'[j].truncated = backfill[j].truncated
           \/ \E w \in Importers : /\ importer[w].at = "complete" /\ importer[w].job = j
                                   /\ backfill'[j].truncated = Truncated(w)
    BY <1>1, <1>2 DEF JobsMove, JobMovesAs
  <2>2. backfill[j].range \in Ranges /\ backfill[j].range \notin astray
    BY <1>1, <1>2, <2>1 DEF BackfillInv, RowsRanged
  <2>3. CASE backfill'[j].status = backfill[j].status /\ backfill'[j].truncated = backfill[j].truncated
    BY <1>1, <1>2, <2>1, <2>2, <2>3 DEF BackfillInv, NoPageSkipped, FinishedIsWhole
  <2>4. ASSUME NEW w \in Importers, importer[w].at = "complete", importer[w].job = j,
               backfill'[j].truncated = Truncated(w)
        PROVE  PageNos \subseteq stored'[backfill'[j].range]
    <3>1. importer[w].token = 0
      <4>1. ~Truncated(w)
        BY <1>2, <2>4
      <4>2. importer[w].token \in 0..Pages /\ Pages \in Nat
        BY <1>1, <2>4, BackfillAssumption DEF ImporterState, BackfillAssumption
      <4>3. QED
        BY <4>1, <4>2 DEF Truncated
    <3>2. ReadUpTo(RangeAt(w), importer[w].token, TRUE) /\ RangeAt(w) = backfill[j].range
      BY <2>4 DEF BackfillInv, ReadersTrue, RangeAt
    <3>3. QED
      BY <1>1, <2>1, <2>2, <3>1, <3>2 DEF ReadUpTo
  <2>5. QED
    BY <2>1, <2>3, <2>4
<1>3. QED
  BY <1>2 DEF FinishedIsWhole

LEMMA BackfillInductive == ASSUME BackfillInv, [BackfillNext]_backfillVars PROVE BackfillInv'
<1>1. /\ JobsMove /\ importer' \in [Importers -> ImporterState]
      /\ \A w \in Importers : importer'[w].token < Pages
  BY Moves, ImporterTypes
<1>2. BackfillTypeOK'
  <2>1. BackfillTypeOK
    BY DEF BackfillInv
  <2>2. QED
    BY <1>1, <2>1, RangedStep, HistoryTypes, BudgetTypes
    DEF BackfillTypeOK, JobsMove, BackfillRow, ImporterState
<1>3. TokensInside'
  BY <1>1, RangedStep DEF TokensInside
<1>4. QED
  BY <1>2, <1>3, RangedStep, HandsStep, ReadersStep, CoveredStep, WholeStep
  DEF BackfillInv, NoPageSkipped

LEMMA BackfillInvariant == BackfillSpec => []BackfillInv
<1>1. BackfillInv /\ [BackfillNext]_backfillVars => BackfillInv'
  BY BackfillInductive
<1>2. QED
  BY InitBackfill, <1>1, PTL DEF BackfillSpec

\* Jobs, cursor, workers and histories keep their types: no worker asks for a
\* page past the last and no job works without a range.
THEOREM BackfillTypeCorrect == BackfillSpec => []BackfillTypeOK
<1>1. BackfillInv => BackfillTypeOK
  BY DEF BackfillInv
<1>2. QED
  BY BackfillInvariant, <1>1, PTL

\* update_connector_backfill_progress and complete_connector_backfill_job: for
\* any ranges, pages, caps, workers and faults, the cursor is never ahead of
\* what was stored and a job that ended without a token left has stored its
\* whole range, unless it began at another range's token.
THEOREM NothingSkipped == BackfillSpec => []NoPageSkipped
<1>1. BackfillInv => NoPageSkipped
  BY DEF BackfillInv
<1>2. QED
  BY BackfillInvariant, <1>1, PTL

-----------------------------------------------------------------------------
(* The parts together, as MCWork composes them.                            *)

\* What the maintenance worker and the node gateway do together is what each
\* part may do, so what holds of a part holds of all.
LEMMA EachPart == Spec => IngestSpec /\ BackfillSpec /\ ScheduleSpec /\ NodesSpec
<1>1. Init => IngestInit /\ BackfillInit /\ ScheduleInit /\ NodesInit
  BY DEF Init
<1>2. [Next]_<<ingestVars, backfillVars, scheduleVars, nodesVars, part>>
        => /\ [IngestNext]_ingestVars /\ [BackfillNext]_backfillVars
           /\ [ScheduleNext]_scheduleVars /\ [NodesNext]_nodesVars
  <2> SUFFICES ASSUME [Next]_<<ingestVars, backfillVars, scheduleVars, nodesVars, part>>
               PROVE  /\ [IngestNext]_ingestVars /\ [BackfillNext]_backfillVars
                      /\ [ScheduleNext]_scheduleVars /\ [NodesNext]_nodesVars
    OBVIOUS
  <2>1. CASE Next
    BY <2>1 DEF Next
  <2>2. CASE UNCHANGED <<ingestVars, backfillVars, scheduleVars, nodesVars, part>>
    BY <2>2
  <2>3. QED
    BY <2>1, <2>2
<1>3. QED
  BY <1>1, <1>2, PTL
  DEF Spec, Fairness, IngestSpec, BackfillSpec, ScheduleSpec, NodesSpec

\* The tables, workers, cursors, tasks, rows and sessions of all four parts keep
\* their types.
THEOREM WorkTypeCorrect == Spec => []WorkTypeOK
<1>1. IngestTypeOK /\ BackfillTypeOK /\ ScheduleTypeOK /\ NodesTypeOK => WorkTypeOK
  BY DEF WorkTypeOK
<1>2. QED
  BY <1>1, EachPart, TypeCorrect, BackfillTypeCorrect, ScheduleTypeCorrect, NodesTypeCorrect, PTL
=============================================================================
