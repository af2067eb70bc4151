----------------------------- MODULE Scheduler -----------------------------
(* The task scheduler of web2py (gluon/scheduler.py): worker processes that *)
(* coordinate through three tables of a database.                           *)
(*                                                                          *)
(* A worker has two threads.  The heartbeat thread (send_heartbeat) records *)
(* that the worker lives, obeys the status others have given it, deletes    *)
(* the rows of dead workers, takes their running tasks back, and elects a   *)
(* ticker.  The main thread (loop) assigns tasks to workers when the worker *)
(* is the ticker, and otherwise pops a task assigned to it, runs it in a    *)
(* process of its own and reports.  Each heartbeat writes first and is one  *)
(* transaction; the main thread reads before it writes, so that others come *)
(* between its SELECT and its UPDATE.                                       *)
(*                                                                          *)
(* Times are abstract: a row is as old as the last heartbeat in it, and a   *)
(* task is due or not.  There is one group of workers and less than its     *)
(* limit of tasks, none of them broadcast and each with a last run (repeats *)
(* is not 0), and max_empty_runs is 0.                                      *)
EXTENDS Integers, FiniteSets

CONSTANTS
  Worker,     \* worker processes; each has a name of its own
  Task, NoTask, NoWorker,
  Child,      \* Child[t]: the tasks that t depends on
  Repeats,    \* Repeats[t]: how often t is to be run
  Retry,      \* Retry[t]: how often t is tried again when it fails, -1 always
  Expiring,   \* the tasks with a stop_time
  Cycle,      \* every how many heartbeats one is full: 5 in the code
  Settings    \* the deployments, with bounds on what may happen

ASSUME NoneAssumption == NoTask \notin Task /\ NoWorker \notin Worker
ASSUME TaskAssumption ==
  /\ Child \in [Task -> SUBSET Task]
  /\ Repeats \in [Task -> Nat \ {0}]
  /\ Retry \in [Task -> Nat \cup {-1}]
  /\ Expiring \subseteq Task
ASSUME CycleAssumption == Cycle \in Nat \ {0}

(* parallel: do workers run at the same time, or does one start when the    *)
(* one before has died; queued: the tasks queued before the first worker    *)
(* starts; outcomes: how a task may end by itself; crashes, stalls (the     *)
(* heartbeats of a worker that lives are missing for so long that it is     *)
(* taken for dead) and commands: how many are still to come.                *)
Outcome == {"COMPLETED", "FAILED", "TIMEOUT"}
Setting == [parallel : BOOLEAN, queued : SUBSET Task, outcomes : SUBSET Outcome,
            crashes : Nat, stalls : Nat, commands : Nat]
ASSUME SettingAssumption == Settings \subseteq Setting

VARIABLES
  env,      \* a member of Settings
  task,     \* the rows of scheduler_task
  row,      \* the rows of scheduler_worker, of status "none" where there is none
  visited,  \* the tasks t with can_visit in the rows of task_child = t
  mem,      \* the memory of each worker
  stopping  \* stop_task between its SELECT and its UPDATE: the row it read

vars == <<env, task, row, visited, mem, stopping>>

WorkerStatus == {"ACTIVE", "PICK", "DISABLED", "TERMINATE", "KILL", "STOP_TASK"}
TaskStatus == {"none", "QUEUED", "ASSIGNED", "RUNNING", "COMPLETED", "FAILED",
               "TIMEOUT", "STOPPED", "EXPIRED"}

TaskRow == [status : TaskStatus, worker : Worker \cup {NoWorker},
            times_run : Nat, times_failed : Nat,
            enabled : BOOLEAN, due : BOOLEAN, past : BOOLEAN]

(* busy is status RUNNING in worker_stats; age is 1 when last_heartbeat is  *)
(* before expiration, 2 before departure.                                   *)
WorkerRow == [status : WorkerStatus \cup {"none"}, is_ticker : BOOLEAN,
              busy : BOOLEAN, age : 0..2]
NoRow == [status |-> "none", is_ticker |-> FALSE, busy |-> FALSE, age |-> 0]

(* pc is where the main thread is; counter counts the heartbeats; workers   *)
(* and batch are what assign_tasks has read; task, run and failed are of    *)
(* the task taken.                                                          *)
Memory == [pc : {"off", "loop", "assign", "deal", "found", "run", "report", "dead"},
           have_heartbeat : BOOLEAN, counter : 0..(Cycle - 1),
           status : {"RUNNING", "ACTIVE", "DISABLED", "TERMINATE", "KILL"},
           is_a_ticker : BOOLEAN, do_assign_tasks : BOOLEAN, greedy : BOOLEAN,
           workers : SUBSET Worker, batch : SUBSET Task,
           task : Task \cup {NoTask}, run : Nat, failed : Nat,
           outcome : Outcome \cup {"none"}]
Off == [pc |-> "off", have_heartbeat |-> TRUE, counter |-> 0, status |-> "RUNNING",
        is_a_ticker |-> FALSE, do_assign_tasks |-> FALSE, greedy |-> FALSE,
        workers |-> {}, batch |-> {}, task |-> NoTask, run |-> 0, failed |-> 0,
        outcome |-> "none"]
Dead == [Off EXCEPT !.pc = "dead"]

Idle == [task |-> NoTask, status |-> "none", worker |-> NoWorker]
Unqueued == [status |-> "none", worker |-> NoWorker, times_run |-> 0,
             times_failed |-> 0, enabled |-> TRUE, due |-> TRUE, past |-> FALSE]

Init ==
  /\ env \in Settings
  /\ task = [t \in Task |-> IF t \in env.queued
                            THEN [Unqueued EXCEPT !.status = "QUEUED"] ELSE Unqueued]
  /\ row = [w \in Worker |-> NoRow]
  /\ visited = {}
  /\ mem = [w \in Worker |-> Off]
  /\ stopping = Idle

Alive(w) == mem[w].pc \notin {"off", "dead"}
Beating(w) == Alive(w) /\ mem[w].have_heartbeat
Executing(w, t) == mem[w].pc = "run" /\ mem[w].task = t

(* Task t changes to row r; a worker's memory changes to m. *)
SetTask(t, r) == task' = [task EXCEPT ![t] = r]
SetMem(w, m) == mem' = [mem EXCEPT ![w] = m]

-----------------------------------------------------------------------------
(* Processes. *)
StartWorker(w) ==
  /\ mem[w].pc = "off"
  /\ env.parallel \/ \A v \in Worker : ~Alive(v)
  /\ SetMem(w, [Off EXCEPT !.pc = "loop"])
  /\ UNCHANGED <<env, task, row, visited, stopping>>

Crash(w) ==
  /\ Alive(w) /\ env.crashes > 0
  /\ env' = [env EXCEPT !.crashes = @ - 1]
  /\ SetMem(w, Dead)
  /\ UNCHANGED <<task, row, visited, stopping>>

(* The loop ends when there is no heartbeat any more. *)
Exit(w) ==
  /\ mem[w].pc = "loop" /\ ~mem[w].have_heartbeat
  /\ SetMem(w, Dead)
  /\ UNCHANGED <<env, task, row, visited, stopping>>

(* Time passes without a heartbeat: of a dead worker, or of one that runs   *)
(* its last task after give_up...                                           *)
Age(w) ==
  /\ row[w].status # "none" /\ row[w].age < 2
  /\ ~Alive(w) \/ (mem[w].pc = "run" /\ ~mem[w].have_heartbeat)
  /\ row' = [row EXCEPT ![w].age = @ + 1]
  /\ UNCHANGED <<env, task, visited, mem, stopping>>

(* ...or of a worker that stalls. *)
Stall(w) ==
  /\ Beating(w) /\ env.stalls > 0
  /\ row[w].status # "none" /\ row[w].age = 0
  /\ env' = [env EXCEPT !.stalls = @ - 1]
  /\ row' = [row EXCEPT ![w].age = 1]
  /\ UNCHANGED <<task, visited, mem, stopping>>

BecomeDue(t) ==
  /\ ~task[t].due
  /\ SetTask(t, [task[t] EXCEPT !.due = TRUE])
  /\ UNCHANGED <<env, row, visited, mem, stopping>>

PassStopTime(t) ==
  /\ t \in Expiring /\ ~task[t].past
  /\ SetTask(t, [task[t] EXCEPT !.past = TRUE])
  /\ UNCHANGED <<env, row, visited, mem, stopping>>

-----------------------------------------------------------------------------
(* The heartbeat thread. *)

(* The row of w after the heartbeat has been recorded. *)
Recorded(w) ==
  LET r == row[w]
  IN CASE r.status = "none" ->
            [NoRow EXCEPT !.status = "ACTIVE", !.busy = mem[w].status = "RUNNING"]
       [] r.status = "DISABLED" -> [r EXCEPT !.busy = FALSE, !.age = 0]
       [] r.status = "TERMINATE" -> r
       [] OTHER -> [r EXCEPT !.status = "ACTIVE", !.age = 0,
                             !.busy = mem[w].status = "RUNNING"]

(* w_stats.status after it. *)
Recognised(w) ==
  CASE row[w].status \in {"DISABLED", "TERMINATE"} -> row[w].status
    [] row[w].status # "none" /\ mem[w].status = "RUNNING" -> "RUNNING"
    [] OTHER -> "ACTIVE"

(* The rows of workers taken for dead. *)
DeadIn(rows) ==
  {v \in Worker : \/ rows[v].status = "ACTIVE" /\ rows[v].age >= 1
                  \/ rows[v].status \notin {"ACTIVE", "none"} /\ rows[v].age = 2}

(* Mutant of FreeTasks: tasks that are assigned are also taken back, and    *)
(* those that run are not.                                                  *)
FreeAssignedTasks(dead) ==
  [t \in Task |-> IF task[t].worker \in dead /\ task[t].status = "ASSIGNED"
                  THEN [task[t] EXCEPT !.status = "QUEUED", !.worker = NoWorker]
                  ELSE task[t]]

FreeTasks(dead) ==
  [t \in Task |-> IF task[t].worker \in dead /\ task[t].status = "RUNNING"
                  THEN [task[t] EXCEPT !.status = "QUEUED", !.worker = NoWorker]
                  ELSE task[t]]

OtherActive(w, rows) == {v \in Worker \ {w} : rows[v].status = "ACTIVE"}
OtherTicker(w, rows) == \E v \in OtherActive(w, rows) : rows[v].is_ticker

(* Mutant of Elected: the ticker before keeps its flag. *)
ElectedToo(w, rows, not_busy) ==
  IF ~OtherTicker(w, rows) /\ not_busy /\ rows[w].status # "none"
  THEN [rows EXCEPT ![w].is_ticker = TRUE] ELSE rows

(* being_a_ticker: the rows it leaves, and what it returns. *)
Elected(w, rows, not_busy) ==
  IF OtherTicker(w, rows) THEN rows
  ELSE IF not_busy
  THEN [v \in Worker |-> [rows[v] EXCEPT !.is_ticker = v = w /\ rows[w].status # "none"]]
  ELSE IF OtherActive(w, rows) # {} THEN [rows EXCEPT ![w].is_ticker = FALSE]
  ELSE rows
IsElected(w, rows, not_busy) ==
  ~OtherTicker(w, rows) /\ (not_busy \/ OtherActive(w, rows) = {})

(* send_heartbeat.  A full one, with housekeeping and election, is every    *)
(* fifth, and the one that finds PICK.                                      *)
Heartbeat(w) ==
  LET full == mem[w].counter = 0 \/ row[w].status = "PICK"
      rows == [row EXCEPT ![w] = Recorded(w)]
      dead == DeadIn(rows)
      left == [v \in Worker |-> IF v \in dead THEN NoRow ELSE rows[v]]
      not_busy == Recognised(w) = "ACTIVE"
  IN /\ Beating(w) /\ row[w].status # "KILL"
     /\ row' = IF full THEN Elected(w, left, not_busy) ELSE rows
     /\ task' = IF full THEN FreeTasks(dead) ELSE task
     /\ SetMem(w, [mem[w] EXCEPT
          !.status = Recognised(w),
          !.counter = IF @ + 1 = Cycle THEN 0 ELSE @ + 1,
          !.have_heartbeat = row[w].status # "TERMINATE",
          !.do_assign_tasks = full /\ not_busy,
          !.is_a_ticker = IF full THEN IsElected(w, left, not_busy) ELSE @,
          !.pc = IF row[w].status = "STOP_TASK" /\ @ = "run" THEN "report" ELSE @,
          !.outcome = IF row[w].status = "STOP_TASK" /\ mem[w].pc = "run"
                      THEN "FAILED" ELSE @])
     /\ UNCHANGED <<env, visited, stopping>>

(* die: the process of the task is terminated, and nothing is recorded.     *)
Die(w) ==
  /\ Beating(w) /\ row[w].status = "KILL"
  /\ SetMem(w, [mem[w] EXCEPT
       !.status = "KILL", !.have_heartbeat = FALSE,
       !.pc = IF @ = "run" THEN "report" ELSE @,
       !.outcome = IF mem[w].pc = "run" THEN "FAILED" ELSE @])
  /\ UNCHANGED <<env, task, row, visited, stopping>>

-----------------------------------------------------------------------------
(* The main thread. *)
Looping(w) ==
  mem[w].pc = "loop" /\ mem[w].have_heartbeat /\ mem[w].status # "DISABLED"
Assigning(w) == mem[w].is_a_ticker /\ mem[w].do_assign_tasks

Waiting(t) == task[t].status \in {"QUEUED", "ASSIGNED"}
AssignedTo(w) == {t \in Task : task[t].worker = w /\ task[t].status = "ASSIGNED"}

(* Mutant of Available: dependencies are not looked at. *)
AvailableToo == {t \in Task : Waiting(t) /\ task[t].due /\ task[t].enabled}

Available ==
  {t \in Task : Waiting(t) /\ task[t].due /\ task[t].enabled /\ Child[t] \subseteq visited}

(* assign_tasks, which the ticker calls after a full heartbeat, or, greedy, *)
(* when it has found nothing: it reads the active workers, passes over      *)
(* those that are busy, and expires tasks.                                  *)
ReadWorkers(w) ==
  LET active == {v \in Worker : row[v].status = "ACTIVE"}
  IN /\ Looping(w)
     /\ Assigning(w) \/ (mem[w].is_a_ticker /\ mem[w].greedy /\ AssignedTo(w) = {})
     /\ task' = [t \in Task |-> IF Waiting(t) /\ task[t].past
                                THEN [task[t] EXCEPT !.status = "EXPIRED"] ELSE task[t]]
     /\ SetMem(w, [mem[w] EXCEPT !.pc = "assign", !.greedy = active = {},
                                 !.workers = {v \in active : ~row[v].busy}])
     /\ UNCHANGED <<env, row, visited, stopping>>

SelectTasks(w) ==
  /\ mem[w].pc = "assign"
  /\ SetMem(w, [mem[w] EXCEPT
       !.pc = "deal", !.batch = IF mem[w].workers = {} THEN {} ELSE Available])
  /\ UNCHANGED <<env, task, row, visited, stopping>>

(* "let's break up the queue evenly among workers" *)
Even(f, workers) ==
  LET load(v) == Cardinality({t \in DOMAIN f : f[t] = v})
  IN \A v1, v2 \in workers : load(v1) <= load(v2) + 1

DealTasks(w) ==
  /\ mem[w].pc = "deal"
  /\ \E f \in [mem[w].batch -> mem[w].workers] :
       /\ Even(f, mem[w].workers)
       /\ task' = [t \in Task |->
            IF t \in mem[w].batch /\ Waiting(t)
            THEN [task[t] EXCEPT !.status = "ASSIGNED", !.worker = f[t]]
            ELSE task[t]]
  /\ SetMem(w, [mem[w] EXCEPT !.pc = "loop", !.workers = {}, !.batch = {}])
  /\ UNCHANGED <<env, row, visited, stopping>>

(* pop_task: the SELECT... *)
SelectAssigned(w) ==
  /\ Looping(w) /\ ~Assigning(w)
  /\ \E t \in AssignedTo(w) :
       SetMem(w, [mem[w] EXCEPT !.pc = "found", !.task = t,
                                !.run = task[t].times_run + 1,
                                !.failed = task[t].times_failed])
  /\ UNCHANGED <<env, task, row, visited, stopping>>

(* ...and the UPDATE of the row it found, which the process of the task     *)
(* follows.                                                                 *)
MarkRunning(w) ==
  /\ mem[w].pc = "found"
  /\ SetTask(mem[w].task, [task[mem[w].task] EXCEPT !.status = "RUNNING"])
  /\ SetMem(w, [mem[w] EXCEPT !.pc = "run", !.status = "RUNNING"])
  /\ UNCHANGED <<env, row, visited, stopping>>

(* local_async: the process ends, or its time is over. *)
Finish(w, outcome) ==
  /\ mem[w].pc = "run"
  /\ SetMem(w, [mem[w] EXCEPT !.pc = "report", !.outcome = outcome])
  /\ UNCHANGED <<env, task, row, visited, stopping>>

(* Mutant of Reported: the worker stays busy. *)
ReportedBusy(w) ==
  [mem[w] EXCEPT !.pc = "loop", !.task = NoTask, !.run = 0, !.failed = 0,
                 !.outcome = "none"]

(* The memory of w after its report. *)
Reported(w) ==
  [mem[w] EXCEPT !.pc = "loop", !.task = NoTask, !.run = 0, !.failed = 0,
                 !.outcome = "none",
                 !.status = IF @ = "DISABLED" THEN @ ELSE "ACTIVE"]

(* Mutant of RunAgain: one run too many. *)
RunOnceMore(w) == mem[w].run <= Repeats[mem[w].task]

RunAgain(w) == mem[w].run < Repeats[mem[w].task]

(* update_dependencies *)
VisitedAfter(t, status) ==
  IF status = "COMPLETED" THEN visited \cup {t} ELSE visited

(* report_task *)
ReportCompleted(w) ==
  LET t == mem[w].task
  IN /\ mem[w].pc = "report" /\ mem[w].outcome = "COMPLETED"
     /\ \E expired \in {FALSE, (t \in Expiring)} :
          LET status == IF RunAgain(w) THEN IF expired THEN "EXPIRED" ELSE "QUEUED"
                        ELSE "COMPLETED"
          IN /\ SetTask(t, [task[t] EXCEPT !.status = status, !.due = status # "QUEUED",
                              !.times_run = mem[w].run, !.times_failed = 0])
             /\ visited' = VisitedAfter(t, status)
     /\ SetMem(w, Reported(w))
     /\ UNCHANGED <<env, row, stopping>>

RetryFailed(w) == Retry[mem[w].task] = -1 \/ mem[w].failed < Retry[mem[w].task]

ReportFailed(w) ==
  LET t == mem[w].task
      status == IF RetryFailed(w) THEN "QUEUED" ELSE mem[w].outcome
  IN /\ mem[w].pc = "report" /\ mem[w].outcome # "COMPLETED"
     /\ SetTask(t, [task[t] EXCEPT !.status = status, !.due = status # "QUEUED",
                                   !.times_failed = @ + 1])
     /\ visited' = VisitedAfter(t, status)
     /\ SetMem(w, Reported(w))
     /\ UNCHANGED <<env, row, stopping>>

MainStep(w) ==
  \/ ReadWorkers(w) \/ SelectTasks(w) \/ DealTasks(w)
  \/ SelectAssigned(w) \/ MarkRunning(w)
  \/ \E outcome \in env.outcomes : Finish(w, outcome)
  \/ ReportCompleted(w) \/ ReportFailed(w) \/ Exit(w)

-----------------------------------------------------------------------------
(* What applications and administrators ask for. *)
Registered == {w \in Worker : row[w].status # "none"}

Command == env.commands > 0 /\ env' = [env EXCEPT !.commands = @ - 1]

(* queue_task; an immediate one makes the ticker PICK it, whatever else has *)
(* been asked of the ticker.                                                *)
QueueTask(t, immediate) ==
  /\ Command
  /\ task[t].status = "none"
  /\ SetTask(t, [task[t] EXCEPT !.status = "QUEUED"])
  /\ row' = [w \in Worker |-> IF immediate /\ row[w].is_ticker
                              THEN [row[w] EXCEPT !.status = "PICK"] ELSE row[w]]
  /\ UNCHANGED <<visited, mem, stopping>>

(* set_worker_status on the workers it selects.  exclude.append(action)     *)
(* returns None, so that only the action itself is excluded and not what    *)
(* disable, resume, terminate and kill ask to exclude.                      *)
SetWorkerStatus(workers, action) ==
  /\ Command
  /\ workers # {} /\ \A w \in workers : row[w].status # action
  /\ row' = [w \in Worker |-> IF w \in workers
                              THEN [row[w] EXCEPT !.status = action] ELSE row[w]]
  /\ UNCHANGED <<task, visited, mem, stopping>>

(* stop_task reads the task... *)
StopTask(t) ==
  /\ Command
  /\ stopping = Idle
  /\ task[t].status \in {"QUEUED", "RUNNING"}
  /\ stopping' = [task |-> t, status |-> task[t].status, worker |-> task[t].worker]
  /\ UNCHANGED <<task, row, visited, mem>>

(* ...and writes what was right then. *)
WriteStop ==
  /\ stopping # Idle
  /\ \/ /\ stopping.status = "RUNNING"
        /\ row' = [w \in Worker |-> IF w = stopping.worker /\ w \in Registered
                                    THEN [row[w] EXCEPT !.status = "STOP_TASK"] ELSE row[w]]
        /\ UNCHANGED task
     \/ /\ stopping.status = "QUEUED"
        /\ SetTask(stopping.task, [task[stopping.task] EXCEPT
                     !.status = "STOPPED", !.enabled = FALSE, !.past = TRUE])
        /\ UNCHANGED row
  /\ stopping' = Idle
  /\ UNCHANGED <<env, visited, mem>>

Administer ==
  \/ \E t \in Task : StopTask(t) \/ \E immediate \in BOOLEAN : QueueTask(t, immediate)
  \/ \E workers \in SUBSET Registered :
       \E action \in {"DISABLED", "ACTIVE", "TERMINATE", "KILL"} :
         SetWorkerStatus(workers, action)
  \/ WriteStop

Next ==
  \/ \E w \in Worker :
       \/ StartWorker(w) \/ Crash(w) \/ Age(w) \/ Stall(w) \/ MainStep(w)
       \/ Heartbeat(w) \/ Die(w)
  \/ \E t \in Task : BecomeDue(t) \/ PassStopTime(t)
  \/ Administer

Spec == Init /\ [][Next]_vars

(* A heartbeat that is not full and finds the main thread asleep. *)
CalmHeartbeat(w) ==
  mem[w].pc = "loop" /\ mem[w].do_assign_tasks /\ mem[w].counter # 0 /\ Heartbeat(w)

(* A worker is started again when none is left, and each thread goes on.    *)
(* To assign takes less time than passes between two heartbeats, of which   *)
(* four in five are not full: so the main thread finds do_assign_tasks now  *)
(* set and now reset.                                                       *)
Fairness ==
  /\ \A w \in Worker :
       /\ WF_vars(StartWorker(w)) /\ WF_vars(Age(w))
       /\ WF_vars(Heartbeat(w)) /\ SF_vars(CalmHeartbeat(w)) /\ WF_vars(Die(w))
       /\ WF_vars(MainStep(w)) /\ SF_vars(ReadWorkers(w)) /\ SF_vars(SelectAssigned(w))
  /\ \A t \in Task : WF_vars(BecomeDue(t))

FairSpec == Spec /\ Fairness

-----------------------------------------------------------------------------
TypeOK ==
  /\ env \in Setting
  /\ task \in [Task -> TaskRow]
  /\ row \in [Worker -> WorkerRow]
  /\ visited \subseteq Task
  /\ mem \in [Worker -> Memory]
  /\ stopping \in [task : Task \cup {NoTask}, status : TaskStatus,
                   worker : Worker \cup {NoWorker}]

(* Dependencies: a task runs only when every task it depends on has been    *)
(* completed, whoever assigned it and whoever took it in between.           *)
DependenciesFirst ==
  \A w \in Worker, t \in Task :
    Executing(w, t) => \A c \in Child[t] : task[c].times_run >= 1

(* The election leaves at most one row that is the ticker's. *)
OneTicker ==
  \A w1, w2 \in Worker : row[w1].is_ticker /\ row[w2].is_ticker => w1 = w2

(* When workers succeed each other, crashes never make a task that ended    *)
(* well run again: times_run stays within repeats.                          *)
AtMostRepeats == ~env.parallel => \A t \in Task : task[t].times_run <= Repeats[t]

Ended(t) == task[t].status \in {"COMPLETED", "FAILED", "TIMEOUT", "STOPPED", "EXPIRED"}

(* When workers succeed each other, every task ends, or one it depends on   *)
(* does without being completed, or no worker is left.                      *)
TasksEnd ==
  \A t \in Task :
    (~env.parallel /\ task[t].status = "QUEUED") ~>
      \/ Ended(t) \/ \E c \in Child[t] : Ended(c) /\ c \notin visited
      \/ \A w \in Worker : mem[w].pc = "dead"

(* A task that was running when its worker died is taken back, as long as   *)
(* some worker lives whose heartbeats are not ended.                        *)
Reclaimed ==
  \A t \in Task, w \in Worker :
    (task[t].status = "RUNNING" /\ task[t].worker = w /\ mem[w].pc = "dead") ~>
      \/ task[t].status # "RUNNING" \/ task[t].worker # w
      \/ \A v \in Worker : ~Beating(v)

(* "noone will touch my task!": pop_task has marked its task as running     *)
(* before it goes on, so that no two workers run one task.  No worker       *)
(* stalls or dies here.                                                     *)
NoDoubleRun ==
  \A t \in Task, w1, w2 \in Worker :
    Executing(w1, t) /\ Executing(w2, t) => w1 = w2
=============================================================================
