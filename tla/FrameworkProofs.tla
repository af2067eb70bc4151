-------------------------- MODULE FrameworkProofs ---------------------------
(* What is proved of the parts of the framework that run on their own: the  *)
(* scheduler and the web server.                                            *)
EXTENDS Scheduler, RocketServer, SequenceTheorems, FiniteSetTheorems, TLAPS

(* Theorems about Scheduler, for any number of workers and tasks, every     *)
(* dependency, and any number of crashes, stalls and commands.              *)

(* The main thread has taken a task, and not reported it yet. *)
Holding(w) == mem[w].pc \in {"found", "run", "report"}

(* The types, with what makes the rows written right: a thread that holds a *)
(* task, and stop_task, have one.                                           *)
TypeInv ==
  /\ TypeOK
  /\ \A w \in Worker : Holding(w) => mem[w].task \in Task
  /\ stopping.status # "none" => stopping.task \in Task

-----------------------------------------------------------------------------
(* A row or a memory of the right type is written. *)
LEMMA SetTaskType ==
  ASSUME task \in [Task -> TaskRow], NEW t \in Task, NEW r \in TaskRow, SetTask(t, r)
  PROVE  task' \in [Task -> TaskRow]
BY DEF SetTask

(* Giving a worker a memory of the right type keeps the types of all        *)
(* memories.                                                                *)
LEMMA SetMemType ==
  ASSUME TypeInv, NEW w \in Worker, NEW m \in Memory, SetMem(w, m),
         m.pc \in {"found", "run", "report"} => m.task \in Task
  PROVE  /\ mem' \in [Worker -> Memory]
         /\ \A v \in Worker : Holding(v)' => mem'[v].task \in Task
<1>1. mem' \in [Worker -> Memory]
  BY DEF SetMem, TypeInv, TypeOK
<1>2. \A v \in Worker : mem'[v] = IF v = w THEN m ELSE mem[v]
  BY DEF SetMem, TypeInv, TypeOK
<1> QED
  BY <1>1, <1>2 DEF TypeInv, Holding

(* The memories of workers that are off, dead or just started are well      *)
(* typed.                                                                   *)
LEMMA OffType ==
  /\ Off \in Memory /\ Off.pc = "off"
  /\ Dead \in Memory /\ Dead.pc = "dead"
  /\ [Off EXCEPT !.pc = "loop"] \in Memory /\ [Off EXCEPT !.pc = "loop"].pc = "loop"
<1>1. Off \in Memory
  BY CycleAssumption DEF Off, Memory
<1>2. Off.pc = "off"
  BY DEF Off
<1>3. \A l \in {"loop", "dead"} :
        [Off EXCEPT !.pc = l] \in Memory /\ [Off EXCEPT !.pc = l].pc = l
  BY <1>1 DEF Memory
<1> QED
  BY <1>1, <1>2, <1>3 DEF Dead

(* The invariant holds initially. *)
LEMMA InitType == Init => TypeInv
<1> SUFFICES ASSUME Init PROVE TypeInv
  OBVIOUS
<1>1. env \in Setting
  BY SettingAssumption DEF Init
<1>2. Unqueued \in TaskRow /\ [Unqueued EXCEPT !.status = "QUEUED"] \in TaskRow
  BY DEF Unqueued, TaskRow, TaskStatus
<1>3. task \in [Task -> TaskRow]
  BY <1>2 DEF Init
<1>4. row \in [Worker -> WorkerRow]
  BY DEF Init, NoRow, WorkerRow
<1>5. mem \in [Worker -> Memory] /\ \A w \in Worker : ~Holding(w)
  BY OffType DEF Init, Holding
<1>6. visited \subseteq Task
  BY DEF Init
<1>7. /\ stopping \in [task : Task \cup {NoTask}, status : TaskStatus,
                       worker : Worker \cup {NoWorker}]
      /\ stopping.status = "none"
  BY DEF Init, Idle, TaskStatus
<1> QED
  BY <1>1, <1>3, <1>4, <1>5, <1>6, <1>7 DEF TypeInv, TypeOK
-----------------------------------------------------------------------------
(* Steps that leave the rows of the tables alone, but for one of a task. *)
LEMMA ProcessType ==
  ASSUME TypeInv, NEW w \in Worker, StartWorker(w) \/ Crash(w) \/ Exit(w)
  PROVE  TypeInv'
<1>1. PICK m \in {Dead, [Off EXCEPT !.pc = "loop"]} : SetMem(w, m)
  BY DEF StartWorker, Crash, Exit
<1>2. m \in Memory /\ m.pc \notin {"found", "run", "report"}
  BY OffType
<1>3. /\ mem' \in [Worker -> Memory]
      /\ \A v \in Worker : Holding(v)' => mem'[v].task \in Task
  BY <1>1, <1>2, SetMemType
<1>4. UNCHANGED <<task, row, visited, stopping>>
  BY DEF StartWorker, Crash, Exit
<1>5. env' \in Setting
  BY DEF StartWorker, Crash, Exit, TypeInv, TypeOK, Setting
<1> QED
  BY <1>3, <1>4, <1>5 DEF TypeInv, TypeOK

(* The passing of time keeps the types. *)
LEMMA TimeType ==
  ASSUME TypeInv,
         \/ \E w \in Worker : Age(w) \/ Stall(w)
         \/ \E t \in Task : BecomeDue(t) \/ PassStopTime(t)
  PROVE  TypeInv'
<1>1. CASE \E w \in Worker : Age(w) \/ Stall(w)
  <2>1. UNCHANGED <<task, visited, mem, stopping>>
    BY <1>1 DEF Age, Stall
  <2>2. row' \in [Worker -> WorkerRow]
    BY <1>1 DEF Age, Stall, TypeInv, TypeOK, WorkerRow
  <2>3. env' \in Setting
    BY <1>1 DEF Age, Stall, TypeInv, TypeOK, Setting
  <2> QED
    BY <2>1, <2>2, <2>3 DEF TypeInv, TypeOK, Holding
<1>2. CASE \E t \in Task : BecomeDue(t) \/ PassStopTime(t)
  <2>1. UNCHANGED <<env, row, visited, mem, stopping>>
    BY <1>2 DEF BecomeDue, PassStopTime
  <2>2. PICK t \in Task : \/ SetTask(t, [task[t] EXCEPT !.due = TRUE])
                          \/ SetTask(t, [task[t] EXCEPT !.past = TRUE])
    BY <1>2 DEF BecomeDue, PassStopTime
  <2>3. task \in [Task -> TaskRow] /\ task[t] \in TaskRow
    BY DEF TypeInv, TypeOK
  <2>4. /\ [task[t] EXCEPT !.due = TRUE] \in TaskRow
        /\ [task[t] EXCEPT !.past = TRUE] \in TaskRow
    BY <2>3 DEF TaskRow
  <2>5. task' \in [Task -> TaskRow]
    BY <2>2, <2>3, <2>4, SetTaskType
  <2> QED
    BY <2>1, <2>5 DEF TypeInv, TypeOK, Holding
<1> QED
  BY <1>1, <1>2

(* A row of a worker stays one when its columns are set. *)
LEMMA RowFields ==
  ASSUME NEW r \in WorkerRow, NEW b \in BOOLEAN, NEW a \in 0..2, NEW s \in WorkerStatus
  PROVE  /\ [r EXCEPT !.busy = b, !.age = a] \in WorkerRow
         /\ [r EXCEPT !.status = s, !.busy = b] \in WorkerRow
         /\ [r EXCEPT !.status = s, !.age = a, !.busy = b] \in WorkerRow
BY DEF WorkerRow

(* A heartbeat writes a row of the right type. *)
LEMMA RecordedType ==
  ASSUME TypeInv, NEW w \in Worker
  PROVE  Recorded(w) \in WorkerRow
<1>1. row[w] \in WorkerRow /\ (mem[w].status = "RUNNING") \in BOOLEAN
  BY DEF TypeInv, TypeOK
<1>2. /\ \A busy \in BOOLEAN :
           [row[w] EXCEPT !.status = "ACTIVE", !.age = 0, !.busy = busy] \in WorkerRow
      /\ \A busy \in BOOLEAN :
           [NoRow EXCEPT !.status = "ACTIVE", !.busy = busy] \in WorkerRow
      /\ [row[w] EXCEPT !.busy = FALSE, !.age = 0] \in WorkerRow
  <2>1. NoRow \in WorkerRow /\ "ACTIVE" \in WorkerStatus
    BY DEF NoRow, WorkerRow, WorkerStatus
  <2>2. 0 \in 0..2 /\ FALSE \in BOOLEAN
    OBVIOUS
  <2> QED
    BY <1>1, <2>1, <2>2, RowFields, Zenon
<1>3. CASE row[w].status = "none"
  <2>1. Recorded(w) = [NoRow EXCEPT !.status = "ACTIVE",
                                    !.busy = mem[w].status = "RUNNING"]
    BY <1>3 DEF Recorded
  <2> QED
    BY <2>1, <1>1, <1>2, Zenon
<1>4. CASE row[w].status = "DISABLED"
  BY <1>1, <1>2, <1>4 DEF Recorded
<1>5. CASE row[w].status = "TERMINATE"
  BY <1>1, <1>5 DEF Recorded
<1>6. CASE row[w].status \notin {"none", "DISABLED", "TERMINATE"}
  <2>1. Recorded(w) = [row[w] EXCEPT !.status = "ACTIVE", !.age = 0,
                                     !.busy = mem[w].status = "RUNNING"]
    BY <1>6 DEF Recorded
  <2> QED
    BY <2>1, <1>1, <1>2, Zenon
<1> QED
  BY <1>3, <1>4, <1>5, <1>6

(* A heartbeat keeps the types. *)
LEMMA HeartbeatType ==
  ASSUME TypeInv, NEW w \in Worker, Heartbeat(w)
  PROVE  TypeInv'
<1>1. Recorded(w) \in WorkerRow
  BY RecordedType
<1> DEFINE rows == [row EXCEPT ![w] = Recorded(w)]
           left == [v \in Worker |-> IF v \in DeadIn(rows) THEN NoRow ELSE rows[v]]
           full == mem[w].counter = 0 \/ row[w].status = "PICK"
           elected == IsElected(w, left, Recognised(w) = "ACTIVE")
<1> HIDE DEF rows, left, elected
<1>2. rows \in [Worker -> WorkerRow]
  BY <1>1 DEF TypeInv, TypeOK, rows
<1>3. left \in [Worker -> WorkerRow]
  BY <1>2 DEF NoRow, WorkerRow, left
<1>4. \A b \in BOOLEAN : Elected(w, left, b) \in [Worker -> WorkerRow]
  BY <1>3 DEF Elected, WorkerRow
<1>5. row' \in [Worker -> WorkerRow]
  BY <1>2, <1>4 DEF Heartbeat, rows, left
<1>6. FreeTasks(DeadIn(rows)) \in [Task -> TaskRow]
  <2>1. \A t \in Task : task[t] \in TaskRow
    BY DEF TypeInv, TypeOK
  <2>2. \A r \in TaskRow : [r EXCEPT !.status = "QUEUED", !.worker = NoWorker] \in TaskRow
    BY DEF TaskRow, TaskStatus
  <2> QED
    BY <2>1, <2>2 DEF FreeTasks
<1>7. task' \in [Task -> TaskRow]
  BY <1>6 DEF Heartbeat, TypeInv, TypeOK, rows
<1>8. /\ mem' \in [Worker -> Memory]
      /\ \A v \in Worker : Holding(v)' => mem'[v].task \in Task
  <2>1. mem[w] \in Memory /\ row[w] \in WorkerRow
    BY DEF TypeInv, TypeOK
  <2>2. Recognised(w) \in {"RUNNING", "ACTIVE", "DISABLED", "TERMINATE"}
    BY <2>1 DEF Recognised, WorkerRow
  <2>3. (IF mem[w].counter + 1 = Cycle THEN 0 ELSE mem[w].counter + 1) \in 0..(Cycle - 1)
    BY <2>1, CycleAssumption DEF Memory
  <2>5. elected \in BOOLEAN
    BY Zenon DEF IsElected, elected
  <2> DEFINE m == [mem[w] EXCEPT
          !.status = Recognised(w),
          !.counter = IF @ + 1 = Cycle THEN 0 ELSE @ + 1,
          !.have_heartbeat = row[w].status # "TERMINATE",
          !.do_assign_tasks = full /\ Recognised(w) = "ACTIVE",
          !.is_a_ticker = IF full THEN elected ELSE @,
          !.pc = IF row[w].status = "STOP_TASK" /\ @ = "run" THEN "report" ELSE @,
          !.outcome = IF row[w].status = "STOP_TASK" /\ mem[w].pc = "run"
                      THEN "FAILED" ELSE @]
  <2>7. SetMem(w, m)
    BY DEF Heartbeat, rows, left, elected
  <2>8. m \in Memory
    <3> DEFINE pc == IF row[w].status = "STOP_TASK" /\ mem[w].pc = "run"
                     THEN "report" ELSE mem[w].pc
               outcome == IF row[w].status = "STOP_TASK" /\ mem[w].pc = "run"
                          THEN "FAILED" ELSE mem[w].outcome
               counter == IF mem[w].counter + 1 = Cycle THEN 0 ELSE mem[w].counter + 1
    <3>1. PICK h, a, i \in BOOLEAN :
            /\ h = (row[w].status # "TERMINATE")
            /\ a = (full /\ Recognised(w) = "ACTIVE")
            /\ i = IF full THEN elected ELSE mem[w].is_a_ticker
      BY <2>1, <2>5, Zenon DEF Memory
    <3>2. counter \in 0..(Cycle - 1)
      BY <2>3
    <3>3. pc \in {mem[w].pc, "report"} /\ outcome \in Outcome \cup {"none"}
      BY <2>1 DEF Memory, Outcome
    <3>4. m = [mem[w] EXCEPT !.status = Recognised(w), !.counter = counter,
                             !.have_heartbeat = h, !.do_assign_tasks = a,
                             !.is_a_ticker = i, !.pc = pc, !.outcome = outcome]
      BY <3>1
    <3> HIDE DEF m, pc, outcome, counter, full
    <3>5. [mem[w] EXCEPT !.status = Recognised(w), !.counter = counter,
                         !.have_heartbeat = h, !.do_assign_tasks = a,
                         !.is_a_ticker = i, !.pc = pc, !.outcome = outcome] \in Memory
      <4>1. PICK s \in {"RUNNING", "ACTIVE", "DISABLED", "TERMINATE"}, c \in 0..(Cycle - 1),
                 p \in {mem[w].pc, "report"}, o \in Outcome \cup {"none"} :
              s = Recognised(w) /\ c = counter /\ p = pc /\ o = outcome
        BY <2>2, <3>2, <3>3
      <4>2. PICK n : n = [mem[w] EXCEPT
                            !.status = s, !.counter = c, !.have_heartbeat = h,
                            !.do_assign_tasks = a, !.is_a_ticker = i]
        OBVIOUS
      <4>3. n \in Memory /\ p \in {n.pc, "report"}
        BY <2>1, <4>2 DEF Memory
      <4>4. [n EXCEPT !.pc = p, !.outcome = o] \in Memory
        BY <4>3 DEF Memory
      <4>5. [mem[w] EXCEPT !.status = s, !.counter = c, !.have_heartbeat = h,
                           !.do_assign_tasks = a, !.is_a_ticker = i,
                           !.pc = p, !.outcome = o] = [n EXCEPT !.pc = p, !.outcome = o]
        BY <4>2
      <4> QED
        BY <4>1, <4>4, <4>5
    <3> QED
      BY <3>4, <3>5
  <2>9. m.pc = mem[w].pc \/ (m.pc = "report" /\ mem[w].pc = "run")
    BY <2>1 DEF Memory
  <2>10. m.task = mem[w].task
    BY <2>1 DEF Memory
  <2> HIDE DEF m
  <2> QED
    BY <2>7, <2>8, <2>9, <2>10, SetMemType DEF TypeInv, Holding
<1> QED
  BY <1>5, <1>7, <1>8 DEF Heartbeat, TypeInv, TypeOK

(* A worker that ends keeps the types. *)
LEMMA DieType ==
  ASSUME TypeInv, NEW w \in Worker, Die(w)
  PROVE  TypeInv'
<1> DEFINE m == [mem[w] EXCEPT
                   !.status = "KILL", !.have_heartbeat = FALSE,
                   !.pc = IF @ = "run" THEN "report" ELSE @,
                   !.outcome = IF mem[w].pc = "run" THEN "FAILED" ELSE @]
<1>1. mem[w] \in Memory
  BY DEF TypeInv, TypeOK
<1>2. SetMem(w, m) /\ UNCHANGED <<env, task, row, visited, stopping>>
  BY DEF Die
<1>3. m \in Memory
  BY <1>1 DEF Memory, Outcome
<1>4. m.task = mem[w].task /\ (m.pc = mem[w].pc \/ mem[w].pc = "run")
  BY <1>1 DEF Memory
<1> HIDE DEF m
<1>5. /\ mem' \in [Worker -> Memory]
      /\ \A v \in Worker : Holding(v)' => mem'[v].task \in Task
  BY <1>2, <1>3, <1>4, SetMemType DEF TypeInv, Holding
<1> QED
  BY <1>2, <1>5 DEF TypeInv, TypeOK

(* Steps of the main thread that leave the rows of the tables alone. *)
LEMMA ReadType ==
  ASSUME TypeInv, NEW w \in Worker,
         SelectTasks(w) \/ SelectAssigned(w) \/ \E o \in Outcome : Finish(w, o)
  PROVE  TypeInv'
<1>1. mem[w] \in Memory
  BY DEF TypeInv, TypeOK
<1>2. UNCHANGED <<env, task, row, visited, stopping>>
  BY DEF SelectTasks, SelectAssigned, Finish
<1>3. PICK m \in Memory : SetMem(w, m) /\ (m.pc = "deal" \/ m.task \in Task)
  <2>1. CASE SelectTasks(w)
    <3> DEFINE batch == IF mem[w].workers = {} THEN {} ELSE Available
    <3>1. batch \subseteq Task
      BY DEF Available
    <3>2. \A b \in SUBSET Task :
            /\ [mem[w] EXCEPT !.pc = "deal", !.batch = b] \in Memory
            /\ [mem[w] EXCEPT !.pc = "deal", !.batch = b].pc = "deal"
      BY <1>1 DEF Memory
    <3>3. SetMem(w, [mem[w] EXCEPT !.pc = "deal", !.batch = batch])
      BY <2>1 DEF SelectTasks
    <3> HIDE DEF batch
    <3> QED
      BY <3>1, <3>2, <3>3
  <2>2. CASE SelectAssigned(w)
    <3>1. PICK t \in Task :
            SetMem(w, [mem[w] EXCEPT !.pc = "found", !.task = t,
                                     !.run = task[t].times_run + 1,
                                     !.failed = task[t].times_failed])
      BY <2>2 DEF SelectAssigned, AssignedTo
    <3>2. task[t].times_run + 1 \in Nat /\ task[t].times_failed \in Nat
      BY DEF TypeInv, TypeOK, TaskRow
    <3>3. PICK r \in Nat, f \in Nat : r = task[t].times_run + 1 /\ f = task[t].times_failed
      BY <3>2
    <3>4. PICK m : m = [mem[w] EXCEPT !.pc = "found", !.task = t, !.run = r, !.failed = f]
      OBVIOUS
    <3>5. m \in Memory /\ m.task = t
      BY <1>1, <3>4 DEF Memory
    <3> QED
      BY <3>1, <3>3, <3>4, <3>5
  <2>3. CASE \E o \in Outcome : Finish(w, o)
    <3>1. PICK o \in Outcome :
            mem[w].pc = "run" /\ SetMem(w, [mem[w] EXCEPT !.pc = "report", !.outcome = o])
      BY <2>3 DEF Finish
    <3>2. /\ [mem[w] EXCEPT !.pc = "report", !.outcome = o] \in Memory
          /\ [mem[w] EXCEPT !.pc = "report", !.outcome = o].task = mem[w].task
      BY <1>1 DEF Memory
    <3> QED
      BY <3>1, <3>2 DEF TypeInv, Holding
  <2> QED
    BY <2>1, <2>2, <2>3
<1>4. /\ mem' \in [Worker -> Memory]
      /\ \A v \in Worker : Holding(v)' => mem'[v].task \in Task
  BY <1>3, SetMemType
<1> QED
  BY <1>2, <1>4 DEF TypeInv, TypeOK

(* Steps of the main thread that write tasks. *)
LEMMA ReportedType ==
  ASSUME TypeInv, NEW w \in Worker
  PROVE  Reported(w) \in Memory /\ Reported(w).pc = "loop"
<1>1. mem[w] \in Memory
  BY DEF TypeInv, TypeOK
<1>2. PICK s : s = IF mem[w].status = "DISABLED" THEN mem[w].status ELSE "ACTIVE"
  OBVIOUS
<1>3. s \in {"ACTIVE", "DISABLED"}
  BY <1>2
<1>4. PICK n : n = [mem[w] EXCEPT !.pc = "loop", !.task = NoTask, !.outcome = "none"]
  OBVIOUS
<1>5. n \in Memory /\ n.pc = "loop"
  BY <1>1, <1>4 DEF Memory
<1>6. PICK m : m = [n EXCEPT !.run = 0, !.failed = 0]
  OBVIOUS
<1>7. m \in Memory /\ m.pc = "loop"
  BY <1>5, <1>6 DEF Memory
<1>8. Reported(w) = [m EXCEPT !.status = s]
  BY <1>1, <1>2, <1>4, <1>6 DEF Reported, Memory
<1> QED
  BY <1>3, <1>7, <1>8 DEF Memory

(* The assignment of tasks keeps the types. *)
LEMMA AssignType ==
  ASSUME TypeInv, NEW w \in Worker, ReadWorkers(w) \/ DealTasks(w)
  PROVE  TypeInv'
<1>1. mem[w] \in Memory /\ \A t \in Task : task[t] \in TaskRow
  BY DEF TypeInv, TypeOK
<1>2. UNCHANGED <<env, row, visited, stopping>>
  BY DEF ReadWorkers, DealTasks
<1>3. CASE ReadWorkers(w)
  <2>1. \A t \in Task : [task[t] EXCEPT !.status = "EXPIRED"] \in TaskRow
    BY <1>1 DEF TaskRow, TaskStatus
  <2>2. task' \in [Task -> TaskRow]
    BY <1>1, <1>3, <2>1 DEF ReadWorkers
  <2>3. PICK active \in SUBSET Worker, workers \in SUBSET Worker :
          SetMem(w, [mem[w] EXCEPT !.pc = "assign", !.greedy = active = {},
                                   !.workers = workers])
    <3> DEFINE active == {v \in Worker : row[v].status = "ACTIVE"}
    <3>1. SetMem(w, [mem[w] EXCEPT !.pc = "assign", !.greedy = active = {},
                                   !.workers = {v \in active : ~row[v].busy}])
      BY <1>3 DEF ReadWorkers
    <3> QED
      BY <3>1
  <2>4. PICK m : m = [mem[w] EXCEPT !.pc = "assign", !.greedy = active = {},
                                    !.workers = workers]
    OBVIOUS
  <2>5. m \in Memory /\ m.pc = "assign"
    BY <1>1, <2>4 DEF Memory
  <2> QED
    BY <1>2, <2>2, <2>3, <2>4, <2>5, SetMemType DEF TypeInv, TypeOK
<1>4. CASE DealTasks(w)
  <2>1. PICK f \in [mem[w].batch -> mem[w].workers] :
          task' = [t \in Task |->
            IF t \in mem[w].batch /\ Waiting(t)
            THEN [task[t] EXCEPT !.status = "ASSIGNED", !.worker = f[t]]
            ELSE task[t]]
    BY <1>4 DEF DealTasks
  <2>2. mem[w].workers \subseteq Worker
    BY <1>1 DEF Memory
  <2>3. \A t \in Task, v \in Worker :
          [task[t] EXCEPT !.status = "ASSIGNED", !.worker = v] \in TaskRow
    BY <1>1 DEF TaskRow, TaskStatus
  <2>4. task' \in [Task -> TaskRow]
    BY <1>1, <2>1, <2>2, <2>3
  <2>5. PICK m : m = [mem[w] EXCEPT !.pc = "loop", !.workers = {}, !.batch = {}]
    OBVIOUS
  <2>6. m \in Memory /\ m.pc = "loop" /\ SetMem(w, m)
    BY <1>1, <1>4, <2>5 DEF Memory, DealTasks
  <2> QED
    BY <1>2, <2>4, <2>6, SetMemType DEF TypeInv, TypeOK
<1> QED
  BY <1>3, <1>4

(* Marking a task as running keeps the types. *)
LEMMA MarkRunningType ==
  ASSUME TypeInv, NEW w \in Worker, MarkRunning(w)
  PROVE  TypeInv'
<1>1. mem[w] \in Memory /\ mem[w].task \in Task
  BY DEF TypeInv, TypeOK, MarkRunning, Holding
<1>2. task[mem[w].task] \in TaskRow
  BY <1>1 DEF TypeInv, TypeOK
<1>3. [task[mem[w].task] EXCEPT !.status = "RUNNING"] \in TaskRow
  BY <1>2 DEF TaskRow, TaskStatus
<1>4. task' \in [Task -> TaskRow]
  BY <1>1, <1>3, SetTaskType DEF MarkRunning, TypeInv, TypeOK
<1>5. PICK m : m = [mem[w] EXCEPT !.pc = "run", !.status = "RUNNING"]
  OBVIOUS
<1>6. m \in Memory /\ m.task = mem[w].task /\ SetMem(w, m)
  BY <1>1, <1>5 DEF Memory, MarkRunning
<1> QED
  BY <1>1, <1>4, <1>6, SetMemType DEF MarkRunning, TypeInv, TypeOK

(* Reporting a run keeps the types. *)
LEMMA ReportType ==
  ASSUME TypeInv, NEW w \in Worker, ReportCompleted(w) \/ ReportFailed(w)
  PROVE  TypeInv'
<1>1. PICK t \in Task : t = mem[w].task
  BY DEF TypeInv, ReportCompleted, ReportFailed, Holding
<1>2. mem[w] \in Memory /\ task[t] \in TaskRow
  BY DEF TypeInv, TypeOK
<1>3. SetMem(w, Reported(w)) /\ UNCHANGED <<env, row, stopping>>
  BY DEF ReportCompleted, ReportFailed
<1>4. PICK r \in TaskRow : SetTask(t, r)
  <2>1. CASE ReportCompleted(w)
    <3>1. PICK status \in TaskStatus :
            SetTask(t, [task[t] EXCEPT !.status = status, !.due = status # "QUEUED",
                                       !.times_run = mem[w].run, !.times_failed = 0])
      BY <1>1, <2>1 DEF ReportCompleted, TaskStatus
    <3>2. PICK n \in Nat, due \in BOOLEAN : n = mem[w].run /\ due = (status # "QUEUED")
      BY <1>2, Zenon DEF Memory
    <3>3. PICK q : q = [task[t] EXCEPT !.status = status, !.due = due]
      OBVIOUS
    <3>4. q \in TaskRow
      BY <1>2, <3>3 DEF TaskRow
    <3>5. [q EXCEPT !.times_run = n, !.times_failed = 0] \in TaskRow
      BY <3>4 DEF TaskRow
    <3>6. SetTask(t, [q EXCEPT !.times_run = n, !.times_failed = 0])
      BY <3>1, <3>2, <3>3
    <3> QED
      BY <3>5, <3>6
  <2>2. CASE ReportFailed(w)
    <3>1. PICK status \in TaskStatus :
            SetTask(t, [task[t] EXCEPT !.status = status, !.due = status # "QUEUED",
                                       !.times_failed = @ + 1])
      BY <1>1, <1>2, <2>2 DEF ReportFailed, TaskStatus, Memory, Outcome
    <3>2. PICK due \in BOOLEAN : due = (status # "QUEUED")
      BY Zenon
    <3>3. PICK q : q = [task[t] EXCEPT !.status = status, !.due = due]
      OBVIOUS
    <3>4. q \in TaskRow
      BY <1>2, <3>3 DEF TaskRow
    <3>5. [q EXCEPT !.times_failed = @ + 1] \in TaskRow
      BY <3>4 DEF TaskRow
    <3>6. SetTask(t, [q EXCEPT !.times_failed = @ + 1])
      BY <1>2, <3>1, <3>2, <3>3 DEF TaskRow
    <3> QED
      BY <3>5, <3>6
  <2> QED
    BY <2>1, <2>2
<1>5. visited' \subseteq Task
  BY <1>1, <1>2 DEF ReportCompleted, ReportFailed, VisitedAfter, TypeInv, TypeOK
<1>6. task' \in [Task -> TaskRow]
  BY <1>4, SetTaskType DEF TypeInv, TypeOK
<1> QED
  BY <1>3, <1>5, <1>6, ReportedType, SetMemType DEF TypeInv, TypeOK

(* What applications and administrators ask for: at most the status of some *)
(* workers changes.                                                         *)
LEMMA AdministerRows ==
  ASSUME Administer
  PROVE  \/ UNCHANGED row
         \/ \E s \in WorkerStatus, workers \in SUBSET Worker :
              row' = [v \in Worker |-> IF v \in workers
                                       THEN [row[v] EXCEPT !.status = s] ELSE row[v]]
<1>1. CASE \E t \in Task, immediate \in BOOLEAN : QueueTask(t, immediate)
  <2>1. PICK immediate \in BOOLEAN :
          row' = [v \in Worker |-> IF immediate /\ row[v].is_ticker
                                   THEN [row[v] EXCEPT !.status = "PICK"] ELSE row[v]]
    BY <1>1 DEF QueueTask
  <2>2. row' = [v \in Worker |->
                  IF v \in {u \in Worker : immediate /\ row[u].is_ticker}
                  THEN [row[v] EXCEPT !.status = "PICK"] ELSE row[v]]
    BY <2>1
  <2> QED
    BY <2>2 DEF WorkerStatus
<1>2. CASE \E workers \in SUBSET Registered :
             \E action \in {"DISABLED", "ACTIVE", "TERMINATE", "KILL"} :
               SetWorkerStatus(workers, action)
  <2>1. PICK workers \in SUBSET Registered,
             action \in {"DISABLED", "ACTIVE", "TERMINATE", "KILL"} :
          SetWorkerStatus(workers, action)
    BY <1>2
  <2>2. action \in WorkerStatus /\ workers \in SUBSET Worker
    BY DEF WorkerStatus, Registered
  <2> QED
    BY <2>1, <2>2 DEF SetWorkerStatus
<1>3. CASE WriteStop
  <2>1. \/ UNCHANGED row
        \/ row' = [v \in Worker |->
                     IF v \in {u \in Worker : u = stopping.worker /\ u \in Registered}
                     THEN [row[v] EXCEPT !.status = "STOP_TASK"] ELSE row[v]]
    BY <1>3 DEF WriteStop
  <2> QED
    BY <2>1 DEF WorkerStatus
<1>4. CASE \E t \in Task : StopTask(t)
  BY <1>4 DEF StopTask
<1> QED
  BY <1>1, <1>2, <1>3, <1>4 DEF Administer

(* The commands of the administrator keep the types. *)
LEMMA AdministerType == ASSUME TypeInv, Administer PROVE TypeInv'
<1>1. env' \in Setting
  <2>1. UNCHANGED env \/ (env.commands > 0 /\ env' = [env EXCEPT !.commands = @ - 1])
    BY DEF Administer, StopTask, QueueTask, SetWorkerStatus, WriteStop, Command
  <2> QED
    BY <2>1 DEF TypeInv, TypeOK, Setting
<1>2. UNCHANGED <<visited, mem>>
  BY DEF Administer, StopTask, QueueTask, SetWorkerStatus, WriteStop
<1>3. row' \in [Worker -> WorkerRow]
  <2>1. \A s \in WorkerStatus, v \in Worker : [row[v] EXCEPT !.status = s] \in WorkerRow
    BY DEF TypeInv, TypeOK, WorkerRow
  <2>2. \/ UNCHANGED row
        \/ \E s \in WorkerStatus, workers \in SUBSET Worker :
             row' = [v \in Worker |-> IF v \in workers
                                      THEN [row[v] EXCEPT !.status = s] ELSE row[v]]
    BY AdministerRows
  <2> QED
    BY <2>1, <2>2 DEF TypeInv, TypeOK
<1>4. task' \in [Task -> TaskRow]
  <2>1. \A t \in Task : task[t] \in TaskRow
    BY DEF TypeInv, TypeOK
  <2>2. CASE UNCHANGED task
    BY <2>2 DEF TypeInv, TypeOK
  <2>3. CASE \E t \in Task, immediate \in BOOLEAN : QueueTask(t, immediate)
    <3>1. PICK t \in Task : SetTask(t, [task[t] EXCEPT !.status = "QUEUED"])
      BY <2>3 DEF QueueTask
    <3>2. [task[t] EXCEPT !.status = "QUEUED"] \in TaskRow
      BY <2>1 DEF TaskRow, TaskStatus
    <3> QED
      BY <3>1, <3>2, SetTaskType DEF TypeInv, TypeOK
  <2>4. CASE WriteStop /\ stopping.status = "QUEUED"
    <3>1. PICK t \in Task : t = stopping.task
      BY <2>4 DEF TypeInv
    <3>2. [task[t] EXCEPT !.status = "STOPPED", !.enabled = FALSE, !.past = TRUE] \in TaskRow
      BY <2>1 DEF TaskRow, TaskStatus
    <3>3. SetTask(t, [task[t] EXCEPT !.status = "STOPPED", !.enabled = FALSE, !.past = TRUE])
      BY <2>4, <3>1 DEF WriteStop
    <3> QED
      BY <3>2, <3>3, SetTaskType DEF TypeInv, TypeOK
  <2> QED
    BY <2>2, <2>3, <2>4 DEF Administer, StopTask, SetWorkerStatus, WriteStop
<1>5. /\ stopping' \in [task : Task \cup {NoTask}, status : TaskStatus,
                        worker : Worker \cup {NoWorker}]
      /\ stopping'.status # "none" => stopping'.task \in Task
  <2>1. CASE UNCHANGED stopping
    BY <2>1 DEF TypeInv, TypeOK
  <2>2. CASE \E t \in Task : StopTask(t)
    <3>1. PICK t \in Task :
            stopping' = [task |-> t, status |-> task[t].status, worker |-> task[t].worker]
      BY <2>2 DEF StopTask
    <3>2. task[t].status \in TaskStatus /\ task[t].worker \in Worker \cup {NoWorker}
      BY DEF TypeInv, TypeOK, TaskRow
    <3> QED
      BY <3>1, <3>2
  <2>3. CASE stopping' = Idle
    BY <2>3 DEF Idle, TaskStatus
  <2> QED
    BY <2>1, <2>2, <2>3 DEF Administer, QueueTask, SetWorkerStatus, WriteStop
<1> QED
  BY <1>1, <1>2, <1>3, <1>4, <1>5 DEF TypeInv, TypeOK, Holding

(* Every step keeps the types. *)
LEMMA TypeStep == TypeInv /\ [Next]_vars => TypeInv'
<1> SUFFICES ASSUME TypeInv, [Next]_vars PROVE TypeInv'
  OBVIOUS
<1>1. CASE UNCHANGED vars
  BY <1>1 DEF vars, TypeInv, TypeOK, Holding
<1>2. ASSUME NEW w \in Worker, MainStep(w) PROVE TypeInv'
  <2>1. env.outcomes \subseteq Outcome
    BY DEF TypeInv, TypeOK, Setting
  <2> QED
    BY <1>2, <2>1, AssignType, ReadType, MarkRunningType, ReportType, ProcessType
    DEF MainStep
<1> QED
  BY <1>1, <1>2, ProcessType, TimeType, HeartbeatType, DieType, AdministerType DEF Next

(* Every row, every task, every memory and what is known of them keeps its  *)
(* type, whoever starts, dies, stalls or is commanded.                      *)
THEOREM TypesAreKept == Spec => []TypeOK
<1>1. TypeInv => TypeOK
  BY DEF TypeInv
<1> QED
  BY <1>1, InitType, TypeStep, PTL DEF Spec

(* The types, with the tasks that threads hold, are kept for ever. *)
LEMMA TypesHold == Spec => []TypeInv
BY InitType, TypeStep, PTL DEF Spec

-----------------------------------------------------------------------------
(* The election. *)
LEMMA ElectedOne ==
  ASSUME NEW w \in Worker, NEW rows \in [Worker -> WorkerRow], NEW not_busy \in BOOLEAN,
         \A v1, v2 \in Worker : rows[v1].is_ticker /\ rows[v2].is_ticker => v1 = v2
  PROVE  \A v1, v2 \in Worker :
           /\ Elected(w, rows, not_busy)[v1].is_ticker
           /\ Elected(w, rows, not_busy)[v2].is_ticker
           => v1 = v2
<1> DEFINE r == Elected(w, rows, not_busy)
<1>1. CASE r = rows
  BY <1>1
<1>2. CASE r = [v \in Worker |->
                  [rows[v] EXCEPT !.is_ticker = v = w /\ rows[w].status # "none"]]
  <2>1. \A v \in Worker : r[v].is_ticker => v = w
    BY <1>2 DEF WorkerRow
  <2> QED
    BY <2>1
<1>3. CASE r = [rows EXCEPT ![w].is_ticker = FALSE]
  <2>1. \A v \in Worker : r[v].is_ticker => rows[v].is_ticker
    BY <1>3 DEF WorkerRow
  <2> QED
    BY <2>1
<1> QED
  BY <1>1, <1>2, <1>3 DEF Elected

(* A heartbeat makes nobody the ticker. *)
LEMMA RecordedTicker ==
  ASSUME TypeInv, NEW w \in Worker
  PROVE  Recorded(w).is_ticker => row[w].is_ticker
<1>1. row[w] \in WorkerRow
  BY DEF TypeInv, TypeOK
<1>2. \A s, a, b : /\ [row[w] EXCEPT !.busy = b, !.age = a].is_ticker = row[w].is_ticker
                   /\ [row[w] EXCEPT !.status = s, !.age = a, !.busy = b].is_ticker
                        = row[w].is_ticker
                   /\ ~[NoRow EXCEPT !.status = s, !.busy = b].is_ticker
  BY <1>1 DEF WorkerRow, NoRow
<1>3. CASE row[w].status = "none"
  <2>1. Recorded(w) = [NoRow EXCEPT !.status = "ACTIVE",
                                    !.busy = mem[w].status = "RUNNING"]
    BY <1>3 DEF Recorded
  <2> QED
    BY <1>2, <2>1
<1>4. CASE row[w].status = "DISABLED"
  BY <1>2, <1>4 DEF Recorded
<1>5. CASE row[w].status = "TERMINATE"
  BY <1>5 DEF Recorded
<1>6. CASE row[w].status \notin {"none", "DISABLED", "TERMINATE"}
  <2>1. Recorded(w) = [row[w] EXCEPT !.status = "ACTIVE", !.age = 0,
                                     !.busy = mem[w].status = "RUNNING"]
    BY <1>6 DEF Recorded
  <2> QED
    BY <1>2, <2>1
<1> QED
  BY <1>3, <1>4, <1>5, <1>6

(* No step makes a second ticker. *)
LEMMA TickerStep ==
  ASSUME TypeInv, OneTicker, [Next]_vars
  PROVE  OneTicker'
<1>1. ASSUME \A v \in Worker : row'[v].is_ticker => row[v].is_ticker
      PROVE  OneTicker'
  BY <1>1 DEF OneTicker
<1>2. CASE UNCHANGED row
  BY <1>2 DEF OneTicker
<1>3. CASE \E w \in Worker : Age(w) \/ Stall(w)
  BY <1>1, <1>3 DEF Age, Stall, TypeInv, TypeOK, WorkerRow
<1>4. CASE \E w \in Worker : Heartbeat(w)
  <2>1. PICK w \in Worker : Heartbeat(w)
    BY <1>4
  <2> DEFINE rows == [row EXCEPT ![w] = Recorded(w)]
             left == [v \in Worker |-> IF v \in DeadIn(rows) THEN NoRow ELSE rows[v]]
  <2>2. Recorded(w) \in WorkerRow /\ (Recorded(w).is_ticker => row[w].is_ticker)
    BY RecordedType, RecordedTicker
  <2> HIDE DEF rows, left
  <2>3. rows \in [Worker -> WorkerRow] /\ left \in [Worker -> WorkerRow]
    BY <2>2 DEF TypeInv, TypeOK, rows, left, NoRow, WorkerRow
  <2>4. \A v \in Worker : left[v].is_ticker => rows[v].is_ticker
    BY DEF left, NoRow
  <2>5. \A v \in Worker : rows[v].is_ticker => row[v].is_ticker
    BY <2>2 DEF TypeInv, TypeOK, rows
  <2>6. row' = rows \/ \E b \in BOOLEAN : row' = Elected(w, left, b)
    BY <2>1 DEF Heartbeat, rows, left
  <2>7. \A v1, v2 \in Worker : left[v1].is_ticker /\ left[v2].is_ticker => v1 = v2
    BY <2>4, <2>5 DEF OneTicker
  <2>8. \A b \in BOOLEAN : \A v1, v2 \in Worker :
          Elected(w, left, b)[v1].is_ticker /\ Elected(w, left, b)[v2].is_ticker => v1 = v2
    BY <2>3, <2>7, ElectedOne
  <2> QED
    BY <2>5, <2>6, <2>8 DEF OneTicker
<1>5. CASE Administer
  <2>1. UNCHANGED row \/ \E s \in WorkerStatus, workers \in SUBSET Worker :
          row' = [v \in Worker |-> IF v \in workers
                                   THEN [row[v] EXCEPT !.status = s] ELSE row[v]]
    BY <1>5, AdministerRows
  <2>2. \A v \in Worker : row'[v].is_ticker => row[v].is_ticker
    BY <2>1 DEF TypeInv, TypeOK, WorkerRow
  <2> QED
    BY <1>1, <2>2
<1> QED
  BY <1>2, <1>3, <1>4, <1>5
  DEF Next, vars, MainStep, StartWorker, Crash, Exit, BecomeDue, PassStopTime, Die,
      ReadWorkers, SelectTasks, DealTasks, SelectAssigned, MarkRunning, Finish,
      ReportCompleted, ReportFailed

(* At most one worker is the ticker in the database, whoever is elected,    *)
(* stalls, is taken for dead or comes back.                                 *)
THEOREM OneTickerOnly == Spec => []OneTicker
<1>1. Init => OneTicker
  BY DEF Init, NoRow, OneTicker
<1>2. TypeInv /\ OneTicker /\ [Next]_vars => OneTicker'
  BY TickerStep
<1> QED
  BY <1>1, <1>2, TypesHold, PTL DEF Spec

-----------------------------------------------------------------------------
(* Dependencies, and how often a task is run. *)
Open == {"none", "QUEUED", "ASSIGNED", "RUNNING"}

(* A task is assigned, dealt or taken only after those it depends on have   *)
(* been completed, which are visited for ever.                              *)
DependenciesInv ==
  /\ \A t \in visited : task[t].times_run >= 1
  /\ \A t \in Task : task[t].status = "ASSIGNED" => Child[t] \subseteq visited
  /\ \A w \in Worker : \A t \in mem[w].batch : Child[t] \subseteq visited
  /\ \A w \in Worker : Holding(w) => mem[w].run >= 1 /\ Child[mem[w].task] \subseteq visited

(* When workers succeed each other, the one that lives knows how often its  *)
(* task has been run; an open task is still to be run.                      *)
RepeatsInv ==
  ~env.parallel =>
    /\ \A v, w \in Worker : Alive(v) /\ Alive(w) => v = w
    /\ \A t \in Task : /\ task[t].times_run <= Repeats[t]
                       /\ task[t].status \in Open => task[t].times_run < Repeats[t]
    /\ \A w \in Worker : Holding(w) => /\ mem[w].run = task[mem[w].task].times_run + 1
                                       /\ mem[w].run <= Repeats[mem[w].task]

RunInv == TypeInv /\ DependenciesInv /\ RepeatsInv

(* A step that completes no task, and by which no task is assigned, opened  *)
(* or taken.                                                                *)
CalmTasks ==
  \A t \in Task :
    /\ task'[t].times_run = task[t].times_run
    /\ task'[t].status = "ASSIGNED" => task[t].status = "ASSIGNED"
    /\ task'[t].status \in Open => task[t].status \in Open
CalmMemory ==
  \A w \in Worker :
    /\ mem'[w].batch \subseteq mem[w].batch
    /\ Alive(w)' => Alive(w)
    /\ Holding(w)' => Holding(w) /\ mem'[w].task = mem[w].task /\ mem'[w].run = mem[w].run

(* A calm step keeps what the two safety theorems rest on. *)
LEMMA CalmStep ==
  ASSUME RunInv, TypeInv', CalmTasks, CalmMemory, visited' = visited,
         env'.parallel = env.parallel
  PROVE  RunInv'
<1>1. DependenciesInv'
  BY DEF RunInv, TypeInv, TypeOK, DependenciesInv, CalmTasks, CalmMemory
<1>2. RepeatsInv'
  BY DEF RunInv, TypeInv, TypeOK, RepeatsInv, CalmTasks, CalmMemory
<1> QED
  BY <1>1, <1>2 DEF RunInv

(* The invariant holds initially. *)
LEMMA InitRun == Init => RunInv
<1> SUFFICES ASSUME Init PROVE RunInv
  OBVIOUS
<1>1. \A w \in Worker : ~Holding(w) /\ ~Alive(w) /\ mem[w].batch = {}
  BY DEF Init, Off, Holding, Alive
<1>2. \A t \in Task : task[t].times_run = 0 /\ task[t].status \in {"none", "QUEUED"}
  BY DEF Init, Unqueued
<1>3. \A t \in Task : Repeats[t] > 0 /\ Repeats[t] \in Nat
  BY TaskAssumption
<1>4. DependenciesInv
  BY <1>1, <1>2 DEF Init, DependenciesInv
<1>5. RepeatsInv
  BY <1>1, <1>2, <1>3 DEF RepeatsInv
<1> QED
  BY <1>4, <1>5, InitType DEF RunInv
(* What makes a step calm, for the one worker or the one task it is about. *)
LEMMA CalmWorker ==
  ASSUME TypeInv, NEW w \in Worker, NEW m, SetMem(w, m), m.batch \subseteq mem[w].batch,
         m.pc \notin {"off", "dead"} => Alive(w),
         m.pc \in {"found", "run", "report"} =>
           Holding(w) /\ m.task = mem[w].task /\ m.run = mem[w].run
  PROVE  CalmMemory
<1>1. \A v \in Worker : mem'[v] = IF v = w THEN m ELSE mem[v]
  BY DEF SetMem, TypeInv, TypeOK
<1> QED
  BY <1>1 DEF CalmMemory, Alive, Holding

(* Setting one row calmly is calm for all tasks. *)
LEMMA CalmTask ==
  ASSUME TypeInv, NEW t \in Task, NEW r, SetTask(t, r),
         r.times_run = task[t].times_run,
         r.status = "ASSIGNED" => task[t].status = "ASSIGNED",
         r.status \in Open => task[t].status \in Open
  PROVE  CalmTasks
<1>1. \A u \in Task : task'[u] = IF u = t THEN r ELSE task[u]
  BY DEF SetTask, TypeInv, TypeOK
<1> QED
  BY <1>1 DEF CalmTasks

(* A step that leaves the tasks alone is calm for tasks. *)
LEMMA TasksAlone == task' = task => CalmTasks
BY DEF CalmTasks

(* A step that leaves the memories of the workers alone is calm for them. *)
LEMMA MemoriesAlone == mem' = mem => CalmMemory
BY DEF CalmMemory, Alive, Holding

(* Whether workers run side by side is settled from the start. *)
LEMMA SettingKept ==
  ASSUME TypeInv, [Next]_vars
  PROVE  env'.parallel = env.parallel
<1>1. \/ UNCHANGED env
      \/ env' = [env EXCEPT !.crashes = @ - 1]
      \/ env' = [env EXCEPT !.stalls = @ - 1]
      \/ env' = [env EXCEPT !.commands = @ - 1]
  BY DEF Next, vars, MainStep, StartWorker, Crash, Exit, Age, Stall, BecomeDue,
         PassStopTime, Heartbeat, Die, ReadWorkers, SelectTasks, DealTasks,
         SelectAssigned, MarkRunning, Finish, ReportCompleted, ReportFailed,
         Administer, QueueTask, SetWorkerStatus, StopTask, WriteStop, Command
<1> QED
  BY <1>1 DEF TypeInv, TypeOK, Setting

(* The passing of time is calm. *)
LEMMA CalmTime ==
  ASSUME TypeInv,
         \/ \E w \in Worker : Age(w) \/ Stall(w)
         \/ \E t \in Task : BecomeDue(t) \/ PassStopTime(t)
  PROVE  CalmTasks /\ CalmMemory
<1>1. mem' = mem
  BY DEF Age, Stall, BecomeDue, PassStopTime
<1>2. CASE \E w \in Worker : Age(w) \/ Stall(w)
  BY <1>1, <1>2, TasksAlone, MemoriesAlone DEF Age, Stall
<1>3. CASE \E t \in Task : BecomeDue(t) \/ PassStopTime(t)
  <2>1. PICK t \in Task : \/ SetTask(t, [task[t] EXCEPT !.due = TRUE])
                          \/ SetTask(t, [task[t] EXCEPT !.past = TRUE])
    BY <1>3 DEF BecomeDue, PassStopTime
  <2>2. task[t] \in TaskRow
    BY DEF TypeInv, TypeOK
  <2>3. CalmTasks
    BY <2>1, <2>2, CalmTask DEF TaskRow
  <2> QED
    BY <1>1, <2>3, MemoriesAlone
<1> QED
  BY <1>2, <1>3

(* The end of a run, of a worker or of its process is calm. *)
LEMMA CalmEnd ==
  ASSUME TypeInv, NEW w \in Worker,
         Crash(w) \/ Exit(w) \/ Die(w) \/ \E o \in Outcome : Finish(w, o)
  PROVE  CalmTasks /\ CalmMemory
<1>1. CalmTasks
  BY TasksAlone DEF Crash, Exit, Die, Finish
<1>2. mem[w] \in Memory
  BY DEF TypeInv, TypeOK
<1>3. CASE Crash(w) \/ Exit(w)
  <2>1. SetMem(w, Dead) /\ Dead.pc = "dead" /\ Dead.batch = {}
    BY <1>3 DEF Crash, Exit, Dead, Off
  <2> QED
    BY <1>1, <2>1, CalmWorker
<1>4. CASE Die(w)
  <2> DEFINE m == [mem[w] EXCEPT
                     !.status = "KILL", !.have_heartbeat = FALSE,
                     !.pc = IF @ = "run" THEN "report" ELSE @,
                     !.outcome = IF mem[w].pc = "run" THEN "FAILED" ELSE @]
  <2>1. SetMem(w, m) /\ Alive(w)
    BY <1>4 DEF Die, Beating
  <2>2. /\ m.batch = mem[w].batch /\ m.task = mem[w].task /\ m.run = mem[w].run
        /\ m.pc = mem[w].pc \/ mem[w].pc = "run"
    BY <1>2 DEF Memory
  <2> HIDE DEF m
  <2> QED
    BY <1>1, <2>1, <2>2, CalmWorker DEF Holding
<1>5. CASE \E o \in Outcome : Finish(w, o)
  <2>1. PICK o \in Outcome :
          mem[w].pc = "run" /\ SetMem(w, [mem[w] EXCEPT !.pc = "report", !.outcome = o])
    BY <1>5 DEF Finish
  <2>2. PICK m : m = [mem[w] EXCEPT !.pc = "report", !.outcome = o]
    OBVIOUS
  <2>3. m.batch = mem[w].batch /\ m.task = mem[w].task /\ m.run = mem[w].run
    BY <1>2, <2>2 DEF Memory
  <2> QED
    BY <1>1, <2>1, <2>2, <2>3, CalmWorker DEF Holding, Alive
<1> QED
  BY <1>3, <1>4, <1>5

(* A heartbeat is calm. *)
LEMMA CalmHeartbeats ==
  ASSUME TypeInv, NEW w \in Worker, Heartbeat(w)
  PROVE  CalmTasks /\ CalmMemory
<1>1. mem[w] \in Memory /\ \A t \in Task : task[t] \in TaskRow
  BY DEF TypeInv, TypeOK
<1>2. \A dead : \A t \in Task :
        /\ FreeTasks(dead)[t].times_run = task[t].times_run
        /\ \/ FreeTasks(dead)[t].status = task[t].status
           \/ FreeTasks(dead)[t].status = "QUEUED" /\ task[t].status = "RUNNING"
  BY <1>1 DEF FreeTasks, TaskRow
<1>3. task' = task \/ \E dead : task' = FreeTasks(dead)
  BY DEF Heartbeat
<1>4. CalmTasks
  BY <1>2, <1>3 DEF CalmTasks, Open
<1> DEFINE rows == [row EXCEPT ![w] = Recorded(w)]
           left == [v \in Worker |-> IF v \in DeadIn(rows) THEN NoRow ELSE rows[v]]
           full == mem[w].counter = 0 \/ row[w].status = "PICK"
           elected == IsElected(w, left, Recognised(w) = "ACTIVE")
           m == [mem[w] EXCEPT
                   !.status = Recognised(w),
                   !.counter = IF @ + 1 = Cycle THEN 0 ELSE @ + 1,
                   !.have_heartbeat = row[w].status # "TERMINATE",
                   !.do_assign_tasks = full /\ Recognised(w) = "ACTIVE",
                   !.is_a_ticker = IF full THEN elected ELSE @,
                   !.pc = IF row[w].status = "STOP_TASK" /\ @ = "run" THEN "report" ELSE @,
                   !.outcome = IF row[w].status = "STOP_TASK" /\ mem[w].pc = "run"
                               THEN "FAILED" ELSE @]
<1> HIDE DEF rows, left, elected
<1>5. SetMem(w, m) /\ Alive(w)
  BY DEF Heartbeat, Beating, rows, left, elected
<1>6. /\ m.batch = mem[w].batch /\ m.task = mem[w].task /\ m.run = mem[w].run
      /\ m.pc = mem[w].pc \/ mem[w].pc = "run"
  BY <1>1 DEF Memory
<1> HIDE DEF m
<1> QED
  BY <1>4, <1>5, <1>6, CalmWorker DEF Holding

(* Reading the workers for an assignment is calm. *)
LEMMA CalmRead ==
  ASSUME TypeInv, NEW w \in Worker, ReadWorkers(w)
  PROVE  CalmTasks /\ CalmMemory
<1>1. mem[w] \in Memory /\ \A t \in Task : task[t] \in TaskRow
  BY DEF TypeInv, TypeOK
<1>2. CalmTasks
  BY <1>1 DEF ReadWorkers, CalmTasks, Open, TaskRow
<1>3. PICK g, v : SetMem(w, [mem[w] EXCEPT !.pc = "assign", !.greedy = g, !.workers = v])
  BY DEF ReadWorkers
<1>4. PICK m : m = [mem[w] EXCEPT !.pc = "assign", !.greedy = g, !.workers = v]
  OBVIOUS
<1>5. m.batch = mem[w].batch /\ m.pc = "assign" /\ Alive(w)
  BY <1>1, <1>4 DEF ReadWorkers, Looping, Alive, Memory
<1> QED
  BY <1>2, <1>3, <1>4, <1>5, CalmWorker

(* The commands of the administrator are calm. *)
LEMMA CalmAdminister ==
  ASSUME TypeInv, Administer
  PROVE  CalmTasks /\ CalmMemory
<1>1. mem' = mem
  BY DEF Administer, StopTask, QueueTask, SetWorkerStatus, WriteStop
<1>2. \A t \in Task : task[t] \in TaskRow
  BY DEF TypeInv, TypeOK
<1>3. ASSUME task' = task PROVE CalmTasks
  BY <1>3, TasksAlone
<1>4. ASSUME \E t \in Task, immediate \in BOOLEAN : QueueTask(t, immediate)
      PROVE  CalmTasks
  <2>1. PICK t \in Task : /\ task[t].status = "none"
                          /\ SetTask(t, [task[t] EXCEPT !.status = "QUEUED"])
    BY <1>4 DEF QueueTask
  <2>2. PICK r : r = [task[t] EXCEPT !.status = "QUEUED"]
    OBVIOUS
  <2>3. r.times_run = task[t].times_run /\ r.status = "QUEUED"
    BY <1>2, <2>2 DEF TaskRow
  <2> QED
    BY <2>1, <2>2, <2>3, CalmTask DEF Open
<1>5. ASSUME WriteStop, stopping.status = "QUEUED"
      PROVE  CalmTasks
  <2>1. PICK t \in Task : t = stopping.task
    BY <1>5 DEF TypeInv
  <2>2. PICK r : r = [task[t] EXCEPT !.status = "STOPPED", !.enabled = FALSE, !.past = TRUE]
    OBVIOUS
  <2>3. SetTask(t, r)
    BY <1>5, <2>1, <2>2 DEF WriteStop
  <2>4. r.times_run = task[t].times_run /\ r.status = "STOPPED"
    BY <1>2, <2>2 DEF TaskRow
  <2> QED
    BY <2>3, <2>4, CalmTask DEF Open
<1>6. CalmTasks
  BY <1>3, <1>4, <1>5 DEF Administer, StopTask, SetWorkerStatus, WriteStop
<1> QED
  BY <1>1, <1>6, MemoriesAlone
(* A worker that acts is the only one that lives, when they succeed each    *)
(* other.                                                                   *)
LEMMA StartRun ==
  ASSUME RunInv, TypeInv', NEW w \in Worker, StartWorker(w)
  PROVE  RunInv'
<1>1. \A v \in Worker : mem'[v] = IF v = w THEN [Off EXCEPT !.pc = "loop"] ELSE mem[v]
  BY DEF StartWorker, SetMem, RunInv, TypeInv, TypeOK
<1>2. [Off EXCEPT !.pc = "loop"].pc = "loop" /\ [Off EXCEPT !.pc = "loop"].batch = {}
  BY DEF Off
<1>3. UNCHANGED <<env, task, row, visited, stopping>>
  BY DEF StartWorker
<1>4. ~env.parallel => \A v \in Worker : ~Alive(v)
  BY DEF StartWorker
<1>5. DependenciesInv'
  BY <1>1, <1>2, <1>3 DEF RunInv, DependenciesInv, Holding
<1>6. RepeatsInv'
  <2> SUFFICES ASSUME ~env.parallel PROVE RepeatsInv'
    BY <1>3 DEF RepeatsInv
  <2>1. \A v \in Worker : Alive(v)' => v = w
    BY <1>1, <1>4 DEF Alive
  <2>2. \A v \in Worker : ~Holding(v)'
    BY <1>1, <1>2, <1>4 DEF Alive, Holding
  <2> QED
    BY <1>3, <2>1, <2>2 DEF RunInv, RepeatsInv
<1> QED
  BY <1>5, <1>6 DEF RunInv

(* The batch is of tasks whose dependencies have been completed. *)
LEMMA SelectTasksRun ==
  ASSUME RunInv, TypeInv', NEW w \in Worker, SelectTasks(w)
  PROVE  RunInv'
<1>1. PICK b \in SUBSET Available : SetMem(w, [mem[w] EXCEPT !.pc = "deal", !.batch = b])
  BY DEF SelectTasks
<1>2. PICK m : m = [mem[w] EXCEPT !.pc = "deal", !.batch = b]
  OBVIOUS
<1>3. mem[w] \in Memory /\ \A v \in Worker : mem'[v] = IF v = w THEN m ELSE mem[v]
  BY <1>1, <1>2 DEF SetMem, RunInv, TypeInv, TypeOK
<1>4. m.pc = "deal" /\ m.batch = b /\ Alive(w)
  BY <1>2, <1>3 DEF SelectTasks, Alive, Memory
<1>5. UNCHANGED <<env, task, row, visited, stopping>>
  BY DEF SelectTasks
<1>6. \A t \in b : Child[t] \subseteq visited
  BY DEF Available
<1>7. DependenciesInv'
  BY <1>3, <1>4, <1>5, <1>6 DEF RunInv, DependenciesInv, Holding
<1>8. RepeatsInv'
  BY <1>3, <1>4, <1>5 DEF RunInv, RepeatsInv, Holding, Alive
<1> QED
  BY <1>7, <1>8 DEF RunInv

(* What is dealt waits, and is in the batch. *)
LEMMA DealTasksRun ==
  ASSUME RunInv, TypeInv', NEW w \in Worker, DealTasks(w)
  PROVE  RunInv'
<1>1. PICK m : m = [mem[w] EXCEPT !.pc = "loop", !.workers = {}, !.batch = {}]
  OBVIOUS
<1>2. mem[w] \in Memory /\ \A v \in Worker : mem'[v] = IF v = w THEN m ELSE mem[v]
  BY <1>1 DEF DealTasks, SetMem, RunInv, TypeInv, TypeOK
<1>3. m.pc = "loop" /\ m.batch = {} /\ Alive(w)
  BY <1>1, <1>2 DEF DealTasks, Alive, Memory
<1>4. UNCHANGED <<env, row, visited, stopping>>
  BY DEF DealTasks
<1>5. \A t \in Task :
        \/ task'[t] = task[t]
        \/ /\ t \in mem[w].batch /\ Waiting(t)
           /\ task'[t].times_run = task[t].times_run /\ task'[t].status = "ASSIGNED"
  <2>1. PICK f : task' = [t \in Task |->
                            IF t \in mem[w].batch /\ Waiting(t)
                            THEN [task[t] EXCEPT !.status = "ASSIGNED", !.worker = f[t]]
                            ELSE task[t]]
    BY DEF DealTasks
  <2>2. \A t \in Task : task[t] \in TaskRow
    BY DEF RunInv, TypeInv, TypeOK
  <2>3. \A t \in Task : \A v :
          /\ [task[t] EXCEPT !.status = "ASSIGNED", !.worker = v].status = "ASSIGNED"
          /\ [task[t] EXCEPT !.status = "ASSIGNED", !.worker = v].times_run
               = task[t].times_run
    BY <2>2 DEF TaskRow
  <2> QED
    BY <2>1, <2>3
<1>6. DependenciesInv'
  BY <1>2, <1>3, <1>4, <1>5 DEF RunInv, TypeInv, TypeOK, DependenciesInv, Holding
<1>7. RepeatsInv'
  <2>1. \A t \in Task :
          task'[t].times_run = task[t].times_run
          /\ (task'[t].status \in Open => task[t].status \in Open)
    BY <1>5 DEF Waiting, Open
  <2>2. \A v \in Worker : /\ Alive(v)' => Alive(v)
                          /\ Holding(v)' => Holding(v) /\ mem'[v] = mem[v]
    BY <1>2, <1>3 DEF Alive, Holding
  <2> QED
    BY <1>4, <2>1, <2>2 DEF RunInv, TypeInv, RepeatsInv
<1> QED
  BY <1>6, <1>7 DEF RunInv

(* What is taken is assigned. *)
LEMMA SelectAssignedRun ==
  ASSUME RunInv, TypeInv', NEW w \in Worker, SelectAssigned(w)
  PROVE  RunInv'
<1>1. PICK t \in AssignedTo(w) :
        SetMem(w, [mem[w] EXCEPT !.pc = "found", !.task = t,
                                 !.run = task[t].times_run + 1,
                                 !.failed = task[t].times_failed])
  BY DEF SelectAssigned
<1>2. PICK r, f : r = task[t].times_run + 1 /\ f = task[t].times_failed
  OBVIOUS
<1>3. PICK m : m = [mem[w] EXCEPT !.pc = "found", !.task = t, !.run = r, !.failed = f]
  OBVIOUS
<1>4. mem[w] \in Memory /\ \A v \in Worker : mem'[v] = IF v = w THEN m ELSE mem[v]
  BY <1>1, <1>2, <1>3 DEF SetMem, RunInv, TypeInv, TypeOK
<1>5. m.pc = "found" /\ m.batch = mem[w].batch /\ m.task = t /\ m.run = r
  BY <1>3, <1>4 DEF Memory
<1>6. t \in Task /\ task[t].status = "ASSIGNED" /\ task[t].times_run \in Nat
  BY DEF AssignedTo, RunInv, TypeInv, TypeOK, TaskRow
<1>7. UNCHANGED <<env, task, row, visited, stopping>> /\ Alive(w)
  BY DEF SelectAssigned, Looping, Alive
<1>8. DependenciesInv'
  BY <1>2, <1>4, <1>5, <1>6, <1>7 DEF RunInv, DependenciesInv, Holding
<1>9. RepeatsInv'
  <2> SUFFICES ASSUME ~env.parallel PROVE RepeatsInv'
    BY <1>7 DEF RepeatsInv
  <2>1. task[t].times_run < Repeats[t]
    BY <1>6 DEF RunInv, RepeatsInv, Open
  <2>2. r <= Repeats[t]
    BY <1>2, <1>6, <2>1, TaskAssumption
  <2>3. \A v \in Worker : Alive(v)' => Alive(v)
    BY <1>4, <1>7 DEF Alive
  <2> QED
    BY <1>2, <1>4, <1>5, <1>7, <2>2, <2>3 DEF RunInv, RepeatsInv, Holding
<1> QED
  BY <1>8, <1>9 DEF RunInv

(* The task held is marked as running, whatever it has become since. *)
LEMMA MarkRunningRun ==
  ASSUME RunInv, TypeInv', NEW w \in Worker, MarkRunning(w)
  PROVE  RunInv'
<1>1. PICK t \in Task : t = mem[w].task
  BY DEF MarkRunning, RunInv, TypeInv, Holding
<1>2. PICK m : m = [mem[w] EXCEPT !.pc = "run", !.status = "RUNNING"]
  OBVIOUS
<1>3. PICK r : r = [task[t] EXCEPT !.status = "RUNNING"]
  OBVIOUS
<1>4. /\ mem[w] \in Memory /\ \A v \in Worker : mem'[v] = IF v = w THEN m ELSE mem[v]
      /\ task[t] \in TaskRow /\ \A u \in Task : task'[u] = IF u = t THEN r ELSE task[u]
  BY <1>1, <1>2, <1>3 DEF MarkRunning, SetMem, SetTask, RunInv, TypeInv, TypeOK
<1>5. m.pc = "run" /\ m.batch = mem[w].batch /\ m.task = t /\ m.run = mem[w].run
  BY <1>1, <1>2, <1>4 DEF Memory
<1>6. r.status = "RUNNING" /\ r.times_run = task[t].times_run
  BY <1>3, <1>4 DEF TaskRow
<1>7. UNCHANGED <<env, row, visited, stopping>> /\ Alive(w) /\ Holding(w)
  BY DEF MarkRunning, Alive, Holding
<1>8. \A v \in Worker : /\ Alive(v)' => Alive(v)
                        /\ Holding(v)' => Holding(v)
                        /\ mem'[v].task = mem[v].task /\ mem'[v].run = mem[v].run
                        /\ mem'[v].batch = mem[v].batch
  BY <1>1, <1>4, <1>5, <1>7 DEF Alive, Holding
<1>9. DependenciesInv'
  BY <1>4, <1>6, <1>7, <1>8 DEF RunInv, TypeInv, TypeOK, DependenciesInv
<1>10. RepeatsInv'
  <2> SUFFICES ASSUME ~env.parallel PROVE RepeatsInv'
    BY <1>7 DEF RepeatsInv
  <2>1. mem[w].run = task[t].times_run + 1 /\ mem[w].run <= Repeats[t]
    BY <1>1, <1>7 DEF RunInv, RepeatsInv
  <2>2. task[t].times_run \in Nat /\ Repeats[t] \in Nat
    BY <1>4, TaskAssumption DEF TaskRow
  <2>3. \A u \in Task : task'[u].times_run = task[u].times_run
    BY <1>4, <1>6
  <2>4. \A u \in Task : task'[u].status \in Open => task'[u].times_run < Repeats[u]
    BY <1>4, <1>6, <2>1, <2>2 DEF RunInv, RepeatsInv
  <2> QED
    BY <1>7, <1>8, <2>3, <2>4 DEF RunInv, TypeInv, RepeatsInv
<1> QED
  BY <1>9, <1>10 DEF RunInv

(* A report: the task is completed, opened again, or failed. *)
LEMMA ReportRun ==
  ASSUME RunInv, TypeInv', NEW w \in Worker, ReportCompleted(w) \/ ReportFailed(w)
  PROVE  RunInv'
<1>1. PICK t \in Task : t = mem[w].task
  BY DEF RunInv, TypeInv, ReportCompleted, ReportFailed, Holding
<1>2. /\ mem[w] \in Memory /\ task[t] \in TaskRow
      /\ \A v \in Worker : mem'[v] = IF v = w THEN Reported(w) ELSE mem[v]
  BY DEF ReportCompleted, ReportFailed, SetMem, RunInv, TypeInv, TypeOK
<1>3. Reported(w).pc = "loop" /\ Reported(w).batch = mem[w].batch
  BY <1>2 DEF Reported, Memory
<1>4. UNCHANGED <<env, row, stopping>> /\ Alive(w) /\ Holding(w)
  BY DEF ReportCompleted, ReportFailed, Alive, Holding
<1>5. PICK r : /\ \A u \in Task : task'[u] = IF u = t THEN r ELSE task[u]
               /\ \/ /\ r.times_run = mem[w].run
                     /\ r.status \in Open => RunAgain(w)
                     /\ visited' \in {visited, visited \cup {t}}
                  \/ r.times_run = task[t].times_run /\ visited' = visited
               /\ r.status # "ASSIGNED"
  <2>1. CASE ReportCompleted(w)
    <3>1. PICK s \in {"EXPIRED", "QUEUED", "COMPLETED"} :
            /\ SetTask(t, [task[t] EXCEPT !.status = s, !.due = s # "QUEUED",
                                          !.times_run = mem[w].run, !.times_failed = 0])
            /\ visited' = VisitedAfter(t, s)
            /\ s = "QUEUED" => RunAgain(w)
      BY <1>1, <2>1 DEF ReportCompleted
    <3>2. PICK r : r = [task[t] EXCEPT !.status = s, !.due = s # "QUEUED",
                                       !.times_run = mem[w].run, !.times_failed = 0]
      OBVIOUS
    <3>3. \A u \in Task : task'[u] = IF u = t THEN r ELSE task[u]
      BY <3>1, <3>2 DEF SetTask, RunInv, TypeInv, TypeOK
    <3>4. r.status = s /\ r.times_run = mem[w].run
      BY <1>2, <3>2 DEF TaskRow
    <3>5. r.status # "ASSIGNED" /\ (r.status \in Open => RunAgain(w))
      BY <3>1, <3>4 DEF Open
    <3> QED
      BY <3>1, <3>3, <3>4, <3>5 DEF VisitedAfter
  <2>2. CASE ReportFailed(w)
    <3>1. PICK s \in {"QUEUED", mem[w].outcome} :
            /\ SetTask(t, [task[t] EXCEPT !.status = s, !.due = s # "QUEUED",
                                          !.times_failed = @ + 1])
            /\ visited' = VisitedAfter(t, s)
            /\ mem[w].outcome # "COMPLETED"
      BY <1>1, <2>2 DEF ReportFailed
    <3>2. PICK r : r = [task[t] EXCEPT !.status = s, !.due = s # "QUEUED",
                                       !.times_failed = @ + 1]
      OBVIOUS
    <3>3. \A u \in Task : task'[u] = IF u = t THEN r ELSE task[u]
      BY <3>1, <3>2 DEF SetTask, RunInv, TypeInv, TypeOK
    <3>4. r.status = s /\ r.times_run = task[t].times_run
      BY <1>2, <3>2 DEF TaskRow
    <3>5. s # "ASSIGNED" /\ s # "COMPLETED"
      BY <1>2, <3>1 DEF Memory, Outcome
    <3> QED
      BY <3>1, <3>3, <3>4, <3>5 DEF VisitedAfter
  <2> QED
    BY <2>1, <2>2
<1>6. \A v \in Worker : /\ Alive(v)' => Alive(v)
                        /\ Holding(v)' => Holding(v) /\ mem'[v] = mem[v] /\ v # w
                        /\ mem'[v].batch = mem[v].batch
  BY <1>2, <1>3, <1>4 DEF Alive, Holding
<1>7. mem[w].run >= 1
  BY <1>4 DEF RunInv, DependenciesInv
<1>8. DependenciesInv'
  BY <1>5, <1>6, <1>7 DEF RunInv, TypeInv, TypeOK, DependenciesInv
<1>9. RepeatsInv'
  <2> SUFFICES ASSUME ~env.parallel PROVE RepeatsInv'
    BY <1>4 DEF RepeatsInv
  <2>1. mem[w].run = task[t].times_run + 1 /\ mem[w].run <= Repeats[t]
    BY <1>1, <1>4 DEF RunInv, RepeatsInv
  <2>2. task[t].times_run \in Nat /\ Repeats[t] \in Nat
    BY <1>2, TaskAssumption DEF TaskRow
  <2>3. r.times_run <= Repeats[t] /\ (r.status \in Open => r.times_run < Repeats[t])
    BY <1>1, <1>5, <2>1, <2>2 DEF RunAgain
  <2>4. \A v \in Worker : ~Holding(v)'
    BY <1>4, <1>6 DEF RunInv, RepeatsInv, Alive, Holding
  <2> QED
    BY <1>4, <1>5, <1>6, <2>3, <2>4 DEF RunInv, RepeatsInv
<1> QED
  BY <1>8, <1>9 DEF RunInv

(* Every step keeps the invariant of the two safety theorems. *)
LEMMA RunStep == RunInv /\ [Next]_vars => RunInv'
<1> SUFFICES ASSUME RunInv, [Next]_vars PROVE RunInv'
  OBVIOUS
<1>1. TypeInv /\ TypeInv' /\ env'.parallel = env.parallel
  BY TypeStep, SettingKept DEF RunInv
<1>2. ASSUME CalmTasks, CalmMemory, visited' = visited PROVE RunInv'
  BY <1>1, <1>2, CalmStep
<1>3. CASE UNCHANGED vars
  BY <1>2, <1>3, TasksAlone, MemoriesAlone DEF vars
<1>4. ASSUME NEW w \in Worker, Crash(w) \/ Exit(w) \/ Die(w) \/ \E o \in Outcome : Finish(w, o)
      PROVE  RunInv'
  <2>1. visited' = visited
    BY <1>4 DEF Crash, Exit, Die, Finish
  <2> QED
    BY <1>1, <1>2, <1>4, <2>1, CalmEnd
<1>5. ASSUME \/ \E w \in Worker : Age(w) \/ Stall(w)
             \/ \E t \in Task : BecomeDue(t) \/ PassStopTime(t)
      PROVE  RunInv'
  <2>1. visited' = visited
    BY <1>5 DEF Age, Stall, BecomeDue, PassStopTime
  <2> QED
    BY <1>1, <1>2, <1>5, <2>1, CalmTime
<1>6. ASSUME NEW w \in Worker, Heartbeat(w) PROVE RunInv'
  BY <1>1, <1>2, <1>6, CalmHeartbeats DEF Heartbeat
<1>7. ASSUME NEW w \in Worker, ReadWorkers(w) PROVE RunInv'
  BY <1>1, <1>2, <1>7, CalmRead DEF ReadWorkers
<1>8. CASE Administer
  <2>1. visited' = visited
    BY <1>8 DEF Administer, StopTask, QueueTask, SetWorkerStatus, WriteStop
  <2> QED
    BY <1>1, <1>2, <1>8, <2>1, CalmAdminister
<1>9. ASSUME NEW w \in Worker, MainStep(w) PROVE RunInv'
  <2>1. env.outcomes \subseteq Outcome
    BY <1>1 DEF TypeInv, TypeOK, Setting
  <2> QED
    BY <1>1, <1>4, <1>7, <1>9, <2>1, SelectTasksRun, DealTasksRun, SelectAssignedRun,
       MarkRunningRun, ReportRun DEF MainStep
<1> QED
  BY <1>1, <1>3, <1>4, <1>5, <1>6, <1>8, <1>9, StartRun DEF Next

(* The invariant of the two safety theorems holds for ever. *)
LEMMA RunsHold == Spec => []RunInv
BY InitRun, RunStep, PTL DEF Spec

(* A task runs only when every task it depends on has been completed,       *)
(* whoever assigned it, took it back, stopped it or dealt it again.         *)
THEOREM DependenciesComeFirst == Spec => []DependenciesFirst
<1>1. RunInv => DependenciesFirst
  <2> SUFFICES ASSUME RunInv, NEW w \in Worker, NEW t \in Task, Executing(w, t)
               PROVE  \A c \in Child[t] : task[c].times_run >= 1
    BY DEF DependenciesFirst
  <2>1. Holding(w) /\ mem[w].task = t
    BY DEF Executing, Holding
  <2> QED
    BY <2>1 DEF RunInv, DependenciesInv
<1> QED
  BY <1>1, RunsHold, PTL

(* When workers succeed each other, no crash, however often, makes a task   *)
(* run well more often than it was to be run.                               *)
THEOREM RunsAreBounded == Spec => []AtMostRepeats
<1>1. RunInv => AtMostRepeats
  BY DEF RunInv, RepeatsInv, AtMostRepeats
<1> QED
  BY <1>1, RunsHold, PTL

-----------------------------------------------------------------------------
(* Theorems about RocketServer, for every set of connections and of         *)
(* threads, all limits of the pool, and a stop at any moment.               *)

(* Where a connection may be: in a queue, or with a thread. *)
In(queue, c) == \E i \in DOMAIN queue : queue[i] = c
Once(queue) ==
  \A i, j \in DOMAIN queue : queue[i] = queue[j] /\ queue[i] # NoConn => i = j
InPlay(c) ==
  \/ In(active_queue, c) \/ In(monitor_queue, c)
  \/ \E t \in Thread : thread[t].conn = c

(* It is in one of these places at most, and only there. *)
PlacedOnce ==
  /\ Once(active_queue) /\ Once(monitor_queue)
  /\ \A c \in Conn : ~(In(active_queue, c) /\ In(monitor_queue, c))
  /\ \A t \in Thread, c \in Conn :
       thread[t].conn = c => ~In(active_queue, c) /\ ~In(monitor_queue, c)
  /\ \A t, u \in Thread :
       thread[t].conn = thread[u].conn /\ thread[t].conn # NoConn => t = u

(* What the monitor watches is in none of them, except the connection that  *)
(* it has just put in the active queue and not yet removed from its set.    *)
Watched ==
  /\ \A c \in connections : InPlay(c) => c = monitor.restoring
  /\ \A c \in monitor.readable : ~InPlay(c) /\ c # monitor.restoring
  /\ monitor.restoring # NoConn => monitor.pc = "restore"

(* The listener has accepted them all. *)
Known ==
  \A c \in Conn :
    InPlay(c) \/ c \in connections \/ c \in monitor.readable => c \in accepted

(* The threads of the pool are those that have been started and not buried. *)
PoolMatches ==
  \A t \in Thread : /\ t \in threads <=> thread[t].pc # "none"
                    /\ thread[t].pc = "serving" => thread[t].conn \in Conn

RocketInv == RocketTypeOK /\ PlacedOnce /\ Watched /\ Known /\ PoolMatches

-----------------------------------------------------------------------------
(* What is in a queue, and how often, after each operation on it. *)
Item == Conn \cup {NoConn}

(* Append adds what is appended, and keeps the other places. *)
LEMMA AppendPlaces ==
  ASSUME NEW q \in Seq(Item), NEW x \in Item
  PROVE  /\ Append(q, x) \in Seq(Item)
         /\ \A c : In(Append(q, x), c) <=> In(q, c) \/ c = x
         /\ Once(q) /\ (x = NoConn \/ ~In(q, x)) => Once(Append(q, x))
<1>1. /\ Append(q, x) \in Seq(Item)
      /\ DOMAIN q = 1..Len(q) /\ Len(q) \in Nat
      /\ DOMAIN Append(q, x) = 1..(Len(q) + 1)
      /\ \A i \in DOMAIN q : Append(q, x)[i] = q[i]
      /\ Append(q, x)[Len(q) + 1] = x
  OBVIOUS
<1>2. \A c : In(Append(q, x), c) <=> In(q, c) \/ c = x
  BY <1>1 DEF In
<1>3. Once(q) /\ (x = NoConn \/ ~In(q, x)) => Once(Append(q, x))
  BY <1>1 DEF In, Once
<1> QED
  BY <1>1, <1>2, <1>3

(* Tail takes the head away, and keeps the order of the rest. *)
LEMMA TailPlaces ==
  ASSUME NEW q \in Seq(Item), q # <<>>
  PROVE  /\ Tail(q) \in Seq(Item) /\ Head(q) \in Item /\ In(q, Head(q))
         /\ \A c : In(Tail(q), c) => In(q, c)
         /\ Once(q) => Once(Tail(q))
         /\ Once(q) /\ Head(q) # NoConn => ~In(Tail(q), Head(q))
<1>1. /\ Tail(q) \in Seq(Item) /\ Head(q) \in Item
      /\ Len(q) \in Nat /\ Len(q) > 0 /\ Head(q) = q[1]
      /\ DOMAIN q = 1..Len(q) /\ DOMAIN Tail(q) = 1..(Len(q) - 1)
      /\ \A i \in DOMAIN Tail(q) : i + 1 \in DOMAIN q /\ Tail(q)[i] = q[i + 1]
  OBVIOUS
<1>2. In(q, Head(q)) /\ \A c : In(Tail(q), c) => In(q, c)
  BY <1>1 DEF In
<1>3. Once(q) => Once(Tail(q))
  BY <1>1 DEF Once
<1>4. Once(q) /\ Head(q) # NoConn => ~In(Tail(q), Head(q))
  BY <1>1 DEF Once, In
<1> QED
  BY <1>1, <1>2, <1>3, <1>4

(* The pills at the end are no connections. *)
LEMMA PillPlaces ==
  ASSUME NEW q \in Seq(Item), NEW n \in Nat
  PROVE  /\ q \o Pills(n) \in Seq(Item)
         /\ \A c \in Conn : In(q \o Pills(n), c) <=> In(q, c)
         /\ Once(q) => Once(q \o Pills(n))
<1>1. Pills(n) \in Seq(Item) /\ Len(Pills(n)) = n /\ \A i \in 1..n : Pills(n)[i] = NoConn
  BY DEF Pills, Item
<1>2. /\ q \o Pills(n) \in Seq(Item)
      /\ Len(q) \in Nat /\ DOMAIN q = 1..Len(q)
      /\ DOMAIN (q \o Pills(n)) = 1..(Len(q) + n)
      /\ \A i \in 1..Len(q) + n :
           (q \o Pills(n))[i] = IF i <= Len(q) THEN q[i] ELSE NoConn
  BY <1>1
<1>3. \A c \in Conn : In(q \o Pills(n), c) <=> In(q, c)
  BY <1>2, NoConnAssumption DEF In
<1>4. Once(q) => Once(q \o Pills(n))
  BY <1>2 DEF Once
<1> QED
  BY <1>2, <1>3, <1>4

(* A queue holds something a finite number of times, never when it is not   *)
(* in it, and once when it is in it once.                                   *)
LEMMA CountPlaces ==
  ASSUME NEW q \in Seq(Item), NEW c
  PROVE  /\ IsFiniteSet({i \in DOMAIN q : q[i] = c})
         /\ Count(q, c) \in Nat
         /\ ~In(q, c) => Count(q, c) = 0
         /\ In(q, c) => Count(q, c) # 0
         /\ In(q, c) /\ Once(q) /\ c # NoConn => Count(q, c) = 1
<1> DEFINE places == {i \in DOMAIN q : q[i] = c}
<1>1. IsFiniteSet(places)
  <2>1. IsFiniteSet(1..Len(q)) /\ DOMAIN q = 1..Len(q)
    BY FS_Interval, LenProperties
  <2> QED
    BY <2>1, FS_Subset
<1>2. Count(q, c) \in Nat /\ (Count(q, c) = 0 <=> places = {})
  BY <1>1, FS_CardinalityType, FS_EmptySet DEF Count
<1>3. In(q, c) <=> places # {}
  BY DEF In
<1>4. ASSUME In(q, c), Once(q), c # NoConn PROVE Count(q, c) = 1
  <2>1. PICK i \in DOMAIN q : q[i] = c
    BY <1>4 DEF In
  <2>2. places = {i}
    BY <1>4, <2>1 DEF Once
  <2> QED
    BY <2>2, FS_Singleton DEF Count
<1> QED
  BY <1>1, <1>2, <1>3, <1>4

(* Append counts what is appended once more. *)
LEMMA CountAppend ==
  ASSUME NEW q \in Seq(Item), NEW x \in Item, NEW c
  PROVE  Count(Append(q, x), c) = Count(q, c) + (IF x = c THEN 1 ELSE 0)
<1> DEFINE places == {i \in DOMAIN q : q[i] = c}
           after == {i \in DOMAIN Append(q, x) : Append(q, x)[i] = c}
<1>1. IsFiniteSet(places) /\ Cardinality(places) \in Nat
  BY CountPlaces, FS_CardinalityType
<1>2. /\ DOMAIN q = 1..Len(q) /\ Len(q) \in Nat
      /\ DOMAIN Append(q, x) = 1..(Len(q) + 1)
      /\ \A i \in DOMAIN q : Append(q, x)[i] = q[i]
      /\ Append(q, x)[Len(q) + 1] = x
  OBVIOUS
<1>3. after = IF x = c THEN places \cup {Len(q) + 1} ELSE places
  BY <1>2
<1>4. Len(q) + 1 \notin places
  BY <1>2
<1> HIDE DEF places, after
<1>5. Cardinality(after) = Cardinality(places) + (IF x = c THEN 1 ELSE 0)
  <2>1. Cardinality(places \cup {Len(q) + 1}) = Cardinality(places) + 1
    BY <1>1, <1>4, FS_AddElement
  <2> QED
    BY <1>1, <1>3, <2>1
<1> QED
  BY <1>5 DEF Count, places, after

(* Tail counts the head once less. *)
LEMMA CountTail ==
  ASSUME NEW q \in Seq(Item), q # <<>>, NEW c
  PROVE  Count(q, c) = Count(Tail(q), c) + (IF Head(q) = c THEN 1 ELSE 0)
<1> DEFINE places == {i \in DOMAIN q : q[i] = c}
           rest == {i \in DOMAIN Tail(q) : Tail(q)[i] = c}
           shift == [i \in rest |-> i + 1]
<1>1. /\ Tail(q) \in Seq(Item)
      /\ Len(q) \in Nat /\ Len(q) > 0 /\ Head(q) = q[1]
      /\ DOMAIN q = 1..Len(q) /\ DOMAIN Tail(q) = 1..(Len(q) - 1)
      /\ \A i \in 1..(Len(q) - 1) : Tail(q)[i] = q[i + 1]
  OBVIOUS
<1>2. IsFiniteSet(rest) /\ IsFiniteSet(places)
      /\ Cardinality(rest) \in Nat /\ Cardinality(places) \in Nat
  BY <1>1, CountPlaces, FS_CardinalityType
<1>3. shift \in Bijection(rest, places \ {1})
  <2>1. \A i \in rest : i + 1 \in places \ {1}
    BY <1>1
  <2>2. \A j \in places \ {1} : j - 1 \in rest /\ j = (j - 1) + 1
    BY <1>1
  <2>3. \A i, j \in rest : i + 1 = j + 1 => i = j
    BY <1>1
  <2> QED
    BY <2>1, <2>2, <2>3 DEF Bijection, Injection, Surjection, IsInjective
<1>4. Cardinality(places \ {1}) = Cardinality(rest)
  BY <1>2, <1>3, FS_Bijection DEF ExistsBijection
<1>5. 1 \in places <=> Head(q) = c
  BY <1>1
<1> HIDE DEF places, rest
<1>6. Cardinality(places) = Cardinality(rest) + (IF Head(q) = c THEN 1 ELSE 0)
  <2>1. Cardinality(places \ {1}) =
          IF 1 \in places THEN Cardinality(places) - 1 ELSE Cardinality(places)
    BY <1>2, FS_RemoveElement
  <2> QED
    BY <1>2, <1>4, <1>5, <2>1
<1> QED
  BY <1>6 DEF Count, places, rest

(* n pills are n more. *)
LEMMA CountPills ==
  ASSUME NEW q \in Seq(Item), NEW n \in Nat
  PROVE  Count(q \o Pills(n), NoConn) = Count(q, NoConn) + n
<1> DEFINE places == {i \in DOMAIN q : q[i] = NoConn}
           added == (Len(q) + 1)..(Len(q) + n)
           after == {i \in DOMAIN (q \o Pills(n)) : (q \o Pills(n))[i] = NoConn}
<1>1. Pills(n) \in Seq(Item) /\ Len(Pills(n)) = n /\ \A i \in 1..n : Pills(n)[i] = NoConn
  BY DEF Pills, Item
<1>2. /\ Len(q) \in Nat /\ DOMAIN q = 1..Len(q)
      /\ DOMAIN (q \o Pills(n)) = 1..(Len(q) + n)
      /\ \A i \in 1..Len(q) + n :
           (q \o Pills(n))[i] = IF i <= Len(q) THEN q[i] ELSE NoConn
  BY <1>1
<1>3. IsFiniteSet(places) /\ Cardinality(places) \in Nat
  BY CountPlaces, FS_CardinalityType
<1>4. IsFiniteSet(added) /\ Cardinality(added) = n
  <2>1. Len(q) + 1 \in Int /\ Len(q) + n \in Int
    BY <1>2
  <2>2. /\ IsFiniteSet(added)
        /\ Cardinality(added) = IF Len(q) + 1 > Len(q) + n THEN 0
                                ELSE (Len(q) + n) - (Len(q) + 1) + 1
    BY <2>1, FS_Interval, Zenon
  <2> QED
    BY <1>2, <2>2
<1>5. after = places \cup added /\ places \cap added = {}
  BY <1>2
<1> HIDE DEF places, added, after
<1>6. Cardinality(after) = Cardinality(places) + n
  <2>1. Cardinality(places \cup added) =
          Cardinality(places) + Cardinality(added) - Cardinality(places \cap added)
    BY <1>3, <1>4, FS_Union
  <2>2. Cardinality(places \cap added) = 0
    BY <1>5, FS_EmptySet
  <2> QED
    BY <1>3, <1>4, <1>5, <2>1, <2>2
<1> QED
  BY <1>6 DEF Count, places, after

-----------------------------------------------------------------------------
(* No connection has arrived when the server starts. *)
LEMMA RocketStarts == RocketInit => RocketInv
<1> SUFFICES ASSUME RocketInit PROVE RocketInv
  OBVIOUS
<1>1. active_queue \in Seq(Item) /\ monitor_queue \in Seq(Item)
      /\ (\A c : ~In(active_queue, c) /\ ~In(monitor_queue, c))
      /\ Once(active_queue) /\ Once(monitor_queue)
  BY DEF RocketInit, In, Once
<1>2. limits \in Limit
  BY LimitsAssumption DEF RocketInit
<1>3. \A t \in Thread : thread[t].conn = NoConn
                       /\ (t \in threads <=> thread[t].pc # "none")
                       /\ thread[t].pc # "serving"
  BY DEF RocketInit, Free
<1>4. RocketTypeOK
  BY <1>1, <1>2 DEF RocketInit, RocketTypeOK, Item, Free
<1>5. PlacedOnce /\ Watched /\ Known /\ PoolMatches
  BY <1>1, <1>3, NoConnAssumption
  DEF RocketInit, PlacedOnce, Watched, Known, PoolMatches, InPlay
<1> QED
  BY <1>4, <1>5 DEF RocketInv

(* A new connection is nowhere yet. *)
LEMMA AcceptKeeps ==
  ASSUME RocketInv, NEW c \in Conn, Accept(c)
  PROVE  RocketInv'
<1>1. /\ active_queue' \in Seq(Item)
      /\ \A d : In(active_queue', d) <=> In(active_queue, d) \/ d = c
      /\ Once(active_queue) /\ ~In(active_queue, c) => Once(active_queue')
  BY AppendPlaces DEF RocketInv, RocketTypeOK, Accept, Item
<1>2. ~InPlay(c) /\ c \notin connections /\ c \notin monitor.readable
  BY DEF RocketInv, Known, Accept
<1>3. RocketTypeOK'
  BY <1>1 DEF RocketInv, RocketTypeOK, Accept, Item, poolVars
<1>4. PlacedOnce'
  BY <1>1, <1>2, NoConnAssumption DEF RocketInv, PlacedOnce, InPlay, Accept, poolVars
<1>5. Watched'
  BY <1>1, <1>2 DEF RocketInv, Watched, InPlay, Accept, poolVars
<1>6. Known' /\ PoolMatches'
  BY <1>1 DEF RocketInv, Known, PoolMatches, InPlay, Accept, poolVars
<1> QED
  BY <1>3, <1>4, <1>5, <1>6 DEF RocketInv

(* What a worker takes leaves the queue. *)
LEMMA TakeKeeps ==
  ASSUME RocketInv, NEW t \in Thread, Take(t)
  PROVE  RocketInv'
<1> DEFINE c == Head(active_queue)
<1>1. active_queue \in Seq(Item) /\ active_queue # <<>>
  BY DEF RocketInv, RocketTypeOK, Take, Item
<1>2. /\ active_queue' \in Seq(Item) /\ c \in Item /\ In(active_queue, c)
      /\ \A d : In(active_queue', d) => In(active_queue, d)
      /\ Once(active_queue) => Once(active_queue')
      /\ Once(active_queue) /\ c # NoConn => ~In(active_queue', c)
  BY <1>1, TailPlaces DEF Take
<1> HIDE DEF c
<1>3. /\ thread' = [thread EXCEPT ![t] = [pc |-> IF c = NoConn THEN "dying" ELSE "serving",
                                         conn |-> c]]
      /\ UNCHANGED <<limits, listening, monitor_queue, threads, check_for_dead_threads,
                     monitor, connections, accepted, closed, stage>>
      /\ thread[t].pc = "idle"
  BY DEF Take, Become, c
<1>4. \A u \in Thread : /\ thread'[u].conn = (IF u = t THEN c ELSE thread[u].conn)
                        /\ thread'[u].pc = "none" <=> thread[u].pc = "none"
  BY <1>3 DEF RocketInv, RocketTypeOK
<1>5. RocketTypeOK'
  BY <1>2, <1>3 DEF RocketInv, RocketTypeOK, Item
<1>6. PlacedOnce'
  <2>1. \A u \in Thread : thread[u].conn = c => c = NoConn
    BY <1>2, NoConnAssumption DEF RocketInv, PlacedOnce, Item
  <2>2. Once(active_queue') /\ Once(monitor_queue')
    BY <1>2, <1>3 DEF RocketInv, PlacedOnce
  <2>3. \A d \in Conn : ~(In(active_queue', d) /\ In(monitor_queue', d))
    BY <1>2, <1>3 DEF RocketInv, PlacedOnce
  <2>4. \A u \in Thread, d \in Conn :
          thread'[u].conn = d => ~In(active_queue', d) /\ ~In(monitor_queue', d)
    BY <1>2, <1>3, <1>4, NoConnAssumption DEF RocketInv, PlacedOnce
  <2>5. \A u, v \in Thread :
          thread'[u].conn = thread'[v].conn /\ thread'[u].conn # NoConn => u = v
    BY <1>4, <2>1 DEF RocketInv, PlacedOnce
  <2> QED
    BY <2>2, <2>3, <2>4, <2>5 DEF PlacedOnce
<1>7. Watched' /\ Known'
  BY <1>2, <1>3, <1>4, NoConnAssumption
  DEF RocketInv, RocketTypeOK, Watched, Known, InPlay
<1>8. PoolMatches'
  BY <1>2, <1>3, <1>4 DEF RocketInv, RocketTypeOK, PoolMatches, Item
<1> QED
  BY <1>5, <1>6, <1>7, <1>8 DEF RocketInv

(* A silent connection goes from its worker to the queue of the monitor. *)
LEMMA TimeOutKeeps ==
  ASSUME RocketInv, NEW t \in Thread, TimeOut(t)
  PROVE  RocketInv'
<1> DEFINE c == thread[t].conn
<1>1. monitor_queue \in Seq(Item) /\ c \in Item
  BY DEF RocketInv, RocketTypeOK, Item
<1>2. /\ monitor_queue' \in Seq(Item)
      /\ \A d : In(monitor_queue', d) <=> In(monitor_queue, d) \/ d = c
      /\ Once(monitor_queue) /\ (c = NoConn \/ ~In(monitor_queue, c)) => Once(monitor_queue')
  BY <1>1, AppendPlaces DEF TimeOut
<1>3. /\ thread' = [thread EXCEPT ![t] = [pc |-> "idle", conn |-> NoConn]]
      /\ UNCHANGED <<limits, listening, active_queue, threads, check_for_dead_threads,
                     monitor, connections, accepted, closed, stage>>
      /\ thread[t].pc = "serving"
  BY DEF TimeOut, Become
<1>4. \A u \in Thread : /\ thread'[u].conn = (IF u = t THEN NoConn ELSE thread[u].conn)
                        /\ thread'[u].pc = "none" <=> thread[u].pc = "none"
  BY <1>3 DEF RocketInv, RocketTypeOK
<1>5. RocketTypeOK'
  BY <1>2, <1>3 DEF RocketInv, RocketTypeOK, Item
<1>6. PlacedOnce'
  BY <1>1, <1>2, <1>3, <1>4, NoConnAssumption DEF RocketInv, PlacedOnce, Item
<1>7. Watched' /\ Known' /\ PoolMatches'
  BY <1>2, <1>3, <1>4, NoConnAssumption
  DEF RocketInv, RocketTypeOK, Watched, Known, PoolMatches, InPlay
<1> QED
  BY <1>5, <1>6, <1>7 DEF RocketInv

(* A connection that is closed or left, and a thread that ends. *)
LEMMA LeaveKeeps ==
  ASSUME RocketInv, NEW t \in Thread, Close(t) \/ Abandon(t) \/ End(t)
  PROVE  RocketInv'
<1>1. PICK pc \in {"idle", "dead"} : thread' = [thread EXCEPT ![t] = [pc |-> pc, conn |-> NoConn]]
  BY DEF Close, Abandon, End, Become
<1>2. /\ UNCHANGED <<limits, listening, active_queue, monitor_queue, threads,
                     check_for_dead_threads, monitor, connections, accepted, stage>>
      /\ thread[t].pc \in {"serving", "dying"}
      /\ closed' = closed \/ (thread[t].pc = "serving" /\ closed' = closed \cup {thread[t].conn})
  BY DEF Close, Abandon, End, queues
<1>3. \A u \in Thread : /\ thread'[u].conn = (IF u = t THEN NoConn ELSE thread[u].conn)
                        /\ thread'[u].pc = "none" <=> thread[u].pc = "none"
  BY <1>1, <1>2 DEF RocketInv, RocketTypeOK
<1>4. RocketTypeOK'
  BY <1>1, <1>2 DEF RocketInv, RocketTypeOK, Known, InPlay, PoolMatches
<1>5. PlacedOnce'
  BY <1>2, <1>3, NoConnAssumption DEF RocketInv, PlacedOnce
<1>6. Watched' /\ Known' /\ PoolMatches'
  BY <1>1, <1>2, <1>3, NoConnAssumption
  DEF RocketInv, RocketTypeOK, Watched, Known, PoolMatches, InPlay
<1> QED
  BY <1>4, <1>5, <1>6 DEF RocketInv

(* The queue of the monitor with just the None of stop holds no connection, *)
(* and those that were in it had been accepted.                             *)
LEMMA FlushedQueue ==
  /\ <<NoConn>> \in Seq(Item) /\ Once(<<NoConn>>)
  /\ \A c \in Conn : ~In(<<NoConn>>, c)
  /\ RocketInv => {c \in Conn : Count(monitor_queue, c) > 0} \subseteq accepted
<1>1. <<NoConn>> \in Seq(Item) /\ Once(<<NoConn>>) /\ \A c \in Conn : ~In(<<NoConn>>, c)
  BY NoConnAssumption DEF Item, Once, In
<1>2. ASSUME RocketInv, NEW c \in Conn, Count(monitor_queue, c) > 0
      PROVE  c \in accepted
  <2>1. monitor_queue \in Seq(Item)
    BY <1>2 DEF RocketInv, RocketTypeOK, Item
  <2>2. ~In(monitor_queue, c) => Count(monitor_queue, c) = 0
    BY <2>1, CountPlaces, Zenon
  <2> QED
    BY <1>2, <2>2 DEF RocketInv, Known, InPlay
<1> QED
  BY <1>1, <1>2

(* The monitor collects one connection, or stops. *)
LEMMA CollectKeeps ==
  ASSUME RocketInv, Collect
  PROVE  RocketInv'
<1>1. monitor_queue \in Seq(Item) /\ monitor_queue # <<>>
  BY DEF RocketInv, RocketTypeOK, Collect, Item
<1>2. PICK c \in Item :
        /\ c = Head(monitor_queue)
        /\ Tail(monitor_queue) \in Seq(Item) /\ In(monitor_queue, c)
        /\ \A d : In(Tail(monitor_queue), d) => In(monitor_queue, d)
        /\ Once(monitor_queue) => Once(Tail(monitor_queue))
        /\ Once(monitor_queue) /\ c # NoConn => ~In(Tail(monitor_queue), c)
  BY <1>1, TailPlaces
<1>3. /\ UNCHANGED <<limits, listening, active_queue, thread, threads,
                     check_for_dead_threads, accepted, stage>>
      /\ monitor.pc = "collect"
  BY DEF Collect, poolVars
<1>4. CASE /\ c # NoConn
           /\ connections' = connections \cup {c}
           /\ monitor_queue' = Tail(monitor_queue)
           /\ UNCHANGED <<monitor, closed>>
  <2>1. RocketTypeOK'
    BY <1>2, <1>3, <1>4 DEF RocketInv, RocketTypeOK, Item
  <2>2. c \in Conn /\ c \in accepted
    BY <1>2, <1>4 DEF RocketInv, Known, InPlay, Item
  <2>3. PlacedOnce'
    BY <1>2, <1>3, <1>4 DEF RocketInv, PlacedOnce
  <2>4. ~InPlay(c)'
    BY <1>2, <1>3, <1>4, <2>2 DEF RocketInv, PlacedOnce, InPlay
  <2>5. \A d : InPlay(d)' => InPlay(d)
    BY <1>2, <1>3, <1>4 DEF InPlay
  <2>6. Watched' /\ Known' /\ PoolMatches'
    BY <1>3, <1>4, <2>2, <2>4, <2>5 DEF RocketInv, Watched, Known, PoolMatches
  <2> QED
    BY <2>1, <2>3, <2>6 DEF RocketInv
<1>5. CASE /\ closed' = closed \cup connections \cup
                          {d \in Conn : Count(monitor_queue, d) > 0}
           /\ connections' = {}
           /\ monitor_queue' = <<NoConn>>
           /\ monitor' = [monitor EXCEPT !.active = FALSE, !.pc = "select"]
  <2>1. connections \subseteq accepted
    BY DEF RocketInv, RocketTypeOK, Known
  <2>2. /\ monitor'.readable = monitor.readable /\ monitor'.restoring = monitor.restoring
        /\ monitor' \in [active : BOOLEAN,
                         pc : {"collect", "select", "restore", "resize", "end"},
                         readable : SUBSET Conn, restoring : Conn \cup {NoConn}]
    BY <1>5 DEF RocketInv, RocketTypeOK
  <2>3. RocketTypeOK'
    BY <1>3, <1>5, <2>1, <2>2, FlushedQueue DEF RocketInv, RocketTypeOK, Item
  <2>4. PlacedOnce'
    BY <1>3, <1>5, FlushedQueue DEF RocketInv, PlacedOnce
  <2>5. \A d \in Conn : InPlay(d)' => InPlay(d)
    BY <1>3, <1>5, FlushedQueue DEF InPlay
  <2>6. Watched' /\ Known' /\ PoolMatches'
    BY <1>3, <1>5, <2>2, <2>5 DEF RocketInv, RocketTypeOK, Watched, Known, PoolMatches
  <2> QED
    BY <2>3, <2>4, <2>6 DEF RocketInv
<1> QED
  BY <1>2, <1>4, <1>5 DEF Collect

(* Who is nowhere may be readable. *)
LEMMA SelectKeeps ==
  ASSUME RocketInv, Select
  PROVE  RocketInv'
<1>1. UNCHANGED <<limits, listening, active_queue, monitor_queue, thread, threads,
                  check_for_dead_threads, connections, accepted, closed, stage>>
  BY DEF Select, queues, poolVars
<1>2. PICK pc \in {"restore", "end"}, readable \in SUBSET (connections \cup monitor.readable) :
        /\ monitor' = [monitor EXCEPT !.pc = pc, !.readable = readable]
        /\ monitor.restoring = NoConn
  <2>1. monitor.restoring = NoConn
    BY DEF Select, RocketInv, Watched
  <2>2. [monitor EXCEPT !.pc = "end"] = [monitor EXCEPT !.pc = "end", !.readable = monitor.readable]
    BY DEF RocketInv, RocketTypeOK
  <2> QED
    BY <2>1, <2>2 DEF Select, MonitorAt
<1>3. RocketTypeOK'
  BY <1>1, <1>2 DEF RocketInv, RocketTypeOK
<1>4. PlacedOnce' /\ PoolMatches'
  BY <1>1 DEF RocketInv, PlacedOnce, PoolMatches
<1>5. Watched' /\ Known'
  BY <1>1, <1>2, NoConnAssumption
  DEF RocketInv, RocketTypeOK, Watched, Known, InPlay
<1> QED
  BY <1>3, <1>4, <1>5 DEF RocketInv

(* What was readable is nowhere, so that it may go to the active queue. *)
LEMMA RestoreKeeps ==
  ASSUME RocketInv, NEW c \in Conn, Restore(c)
  PROVE  RocketInv'
<1>1. /\ active_queue' \in Seq(Item)
      /\ \A d : In(active_queue', d) <=> In(active_queue, d) \/ d = c
      /\ Once(active_queue) /\ ~In(active_queue, c) => Once(active_queue')
  BY AppendPlaces DEF RocketInv, RocketTypeOK, Restore, Item
<1>2. /\ UNCHANGED <<limits, listening, monitor_queue, thread, threads,
                     check_for_dead_threads, connections, accepted, closed, stage>>
      /\ monitor' = [monitor EXCEPT !.restoring = c, !.readable = @ \ {c}]
      /\ monitor.pc = "restore" /\ monitor.restoring = NoConn /\ c \in monitor.readable
  BY DEF Restore, poolVars
<1>3. ~InPlay(c) /\ c \in accepted
  BY <1>2 DEF RocketInv, Watched, Known
<1>4. RocketTypeOK'
  BY <1>1, <1>2 DEF RocketInv, RocketTypeOK, Item
<1>5. PlacedOnce'
  BY <1>1, <1>2, <1>3 DEF RocketInv, PlacedOnce, InPlay
<1>6. \A d : InPlay(d)' => InPlay(d) \/ d = c
  BY <1>1, <1>2 DEF InPlay
<1>7. Watched' /\ Known' /\ PoolMatches'
  BY <1>2, <1>3, <1>6, NoConnAssumption
  DEF RocketInv, RocketTypeOK, Watched, Known, PoolMatches
<1> QED
  BY <1>4, <1>5, <1>7 DEF RocketInv

(* After Remove the exception for what was restored is no longer needed. *)
LEMMA RemoveKeeps ==
  ASSUME RocketInv, RemoveRestored
  PROVE  RocketInv'
<1>1. UNCHANGED <<limits, listening, active_queue, monitor_queue, thread, threads,
                  check_for_dead_threads, accepted, closed, stage>>
  BY DEF RemoveRestored, queues, poolVars
<1>2. /\ connections' = connections \ {monitor.restoring}
      /\ monitor'.restoring = NoConn /\ monitor'.readable = monitor.readable
      /\ monitor' \in [active : BOOLEAN,
                       pc : {"collect", "select", "restore", "resize", "end"},
                       readable : SUBSET Conn, restoring : Conn \cup {NoConn}]
  BY DEF RemoveRestored, RocketInv, RocketTypeOK
<1>3. RocketTypeOK'
  BY <1>1, <1>2 DEF RocketInv, RocketTypeOK
<1>4. PlacedOnce' /\ PoolMatches'
  BY <1>1 DEF RocketInv, PlacedOnce, PoolMatches
<1>5. \A d : InPlay(d)' => InPlay(d)
  BY <1>1 DEF InPlay
<1>6. Watched' /\ Known'
  BY <1>1, <1>2, <1>5, NoConnAssumption DEF RocketInv, RocketTypeOK, Watched, Known
<1> QED
  BY <1>3, <1>4, <1>6 DEF RocketInv

(* Stale connections are closed. *)
LEMMA FlushKeeps ==
  ASSUME RocketInv, Flush
  PROVE  RocketInv'
<1>1. UNCHANGED <<limits, listening, active_queue, monitor_queue, thread, threads,
                  check_for_dead_threads, accepted, stage>>
  BY DEF Flush, queues, poolVars
<1>2. PICK stale \in SUBSET connections :
        connections' = connections \ stale /\ closed' = closed \cup stale
  BY DEF Flush
<1>3. monitor' = [monitor EXCEPT !.pc = "resize"] /\ monitor.restoring = NoConn
  BY DEF Flush, MonitorAt
<1>4. connections \subseteq accepted
  BY DEF RocketInv, RocketTypeOK, Known
<1>5. RocketTypeOK'
  BY <1>1, <1>2, <1>3, <1>4 DEF RocketInv, RocketTypeOK
<1>6. PlacedOnce' /\ PoolMatches'
  BY <1>1 DEF RocketInv, PlacedOnce, PoolMatches
<1>7. Watched' /\ Known'
  BY <1>1, <1>2, <1>3 DEF RocketInv, RocketTypeOK, Watched, Known, InPlay
<1> QED
  BY <1>5, <1>6, <1>7 DEF RocketInv

(* The threads of the pool are finitely many. *)
LEMMA FiniteThreads ==
  ASSUME NEW S, S \subseteq Thread
  PROVE  IsFiniteSet(S) /\ Cardinality(S) \in Nat
BY ThreadAssumption, FS_Subset, FS_CardinalityType

(* The pool after a resize: no thread has another connection. *)
LEMMA ResizeKeeps ==
  ASSUME RocketInv, DynamicResize
  PROVE  RocketInv'
<1>1. /\ UNCHANGED <<limits, listening, monitor_queue, connections, accepted, closed, stage>>
      /\ monitor'.readable = monitor.readable /\ monitor.restoring = NoConn
      /\ monitor'.restoring = monitor.restoring
      /\ monitor' \in [active : BOOLEAN,
                       pc : {"collect", "select", "restore", "resize", "end"},
                       readable : SUBSET Conn, restoring : Conn \cup {NoConn}]
  BY DEF DynamicResize, MonitorAt, RocketInv, RocketTypeOK, Watched
<1>2. /\ active_queue' \in Seq(Item) /\ check_for_dead_threads' \in Int
      /\ \A d \in Conn : In(active_queue', d) <=> In(active_queue, d)
      /\ Once(active_queue')
      /\ threads' \subseteq Thread
      /\ thread' \in [Thread -> [pc : {"none", "idle", "serving", "dying", "dead"},
                               conn : Conn \cup {NoConn}]]
      /\ \A t \in Thread : thread'[t] = thread[t] \/
                           (thread'[t].pc # "serving" /\ thread'[t].conn = NoConn)
      /\ \A t \in Thread : t \in threads' <=> thread'[t].pc # "none"
  <2>1. CASE UNCHANGED <<poolVars, active_queue>>
    BY <2>1 DEF poolVars, RocketInv, RocketTypeOK, PlacedOnce, PoolMatches, Item
  <2>2. CASE Resize
    <3>1. PICK dead \in SUBSET threads, pills \in {0, 1}, new \in SUBSET Thread :
            /\ threads' = (threads \ dead) \cup new
            /\ thread' = [t \in Thread |-> IF t \in new THEN [pc |-> "idle", conn |-> NoConn]
                                          ELSE IF t \in dead THEN Free
                                          ELSE thread[t]]
            /\ check_for_dead_threads' = Checked(dead, pills)
            /\ active_queue' = active_queue \o Pills(pills)
      <4> DEFINE dead == IF check_for_dead_threads > 0 THEN DeadThreads ELSE {}
                 pills == IF active_queue = <<>> /\ Cardinality(threads \ dead) > limits.min
                          THEN 1 ELSE 0
      <4>1. dead \in SUBSET threads /\ pills \in {0, 1}
        BY DEF DeadThreads
      <4>2. PICK new \in SUBSET (Thread \ (threads \ dead)) :
              /\ threads' = (threads \ dead) \cup new
              /\ thread' = [t \in Thread |-> IF t \in new THEN [pc |-> "idle", conn |-> NoConn]
                                            ELSE IF t \in dead THEN Free
                                            ELSE thread[t]]
              /\ check_for_dead_threads' = Checked(dead, pills)
              /\ active_queue' = active_queue \o Pills(pills)
        BY <2>2, Zenon DEF Resize
      <4> HIDE DEF dead, pills
      <4> QED
        BY <4>1, <4>2
    <3>2. active_queue \in Seq(Item) /\ Once(active_queue) /\ pills \in Nat
      BY DEF RocketInv, RocketTypeOK, PlacedOnce, Item
    <3>3. /\ active_queue' \in Seq(Item) /\ Once(active_queue')
          /\ \A d \in Conn : In(active_queue', d) <=> In(active_queue, d)
      BY <3>1, <3>2, PillPlaces
    <3>4. Cardinality(dead) \in Nat
      BY FiniteThreads DEF RocketInv, RocketTypeOK
    <3>5. check_for_dead_threads' \in Int
      BY <3>1, <3>2, <3>4 DEF Checked, RocketInv, RocketTypeOK
    <3>6. /\ threads' \subseteq Thread
          /\ thread' \in [Thread -> [pc : {"none", "idle", "serving", "dying", "dead"},
                                   conn : Conn \cup {NoConn}]]
          /\ \A t \in Thread : thread'[t] = thread[t] \/
                               (thread'[t].pc # "serving" /\ thread'[t].conn = NoConn)
      BY <3>1 DEF RocketInv, RocketTypeOK, Free
    <3>7. \A t \in Thread : t \in threads' <=> thread'[t].pc # "none"
      BY <3>1 DEF RocketInv, PoolMatches, Free
    <3> QED
      BY <3>3, <3>5, <3>6, <3>7
  <2> QED
    BY <2>1, <2>2 DEF DynamicResize
<1>3. RocketTypeOK'
  BY <1>1, <1>2 DEF RocketInv, RocketTypeOK, Item
<1>4. PlacedOnce'
  BY <1>1, <1>2, NoConnAssumption DEF RocketInv, PlacedOnce
<1>5. \A d \in Conn : InPlay(d)' => InPlay(d)
  BY <1>1, <1>2, NoConnAssumption DEF InPlay
<1>6. Watched' /\ Known'
  BY <1>1, <1>5 DEF RocketInv, RocketTypeOK, Watched, Known
<1>7. PoolMatches'
  BY <1>2 DEF RocketInv, PoolMatches
<1> QED
  BY <1>3, <1>4, <1>6, <1>7 DEF RocketInv

(* Rocket.stop empties sets and queues, and adds pills. *)
LEMMA StopKeeps ==
  ASSUME RocketInv, StopListeners \/ StopStep
  PROVE  RocketInv'
<1>1. CASE StopListeners
  <2>1. RocketTypeOK'
    BY <1>1 DEF StopListeners, Advance, queues, poolVars, RocketInv, RocketTypeOK
  <2>2. PlacedOnce' /\ Watched' /\ Known' /\ PoolMatches'
    BY <1>1 DEF StopListeners, queues, poolVars, RocketInv, PlacedOnce, Watched, Known,
                PoolMatches, InPlay
  <2> QED
    BY <2>1, <2>2 DEF RocketInv
<1>2. CASE StopMonitor
  <2>1. connections \subseteq accepted
    BY DEF RocketInv, RocketTypeOK, Known
  <2>2. RocketTypeOK'
    BY <1>2, <2>1 DEF StopMonitor, Advance, queues, poolVars, RocketInv, RocketTypeOK
  <2>3. monitor'.readable = monitor.readable /\ monitor'.restoring = monitor.restoring
        /\ monitor'.pc = monitor.pc
    BY <1>2 DEF StopMonitor, RocketInv, RocketTypeOK
  <2>4. PlacedOnce' /\ Watched' /\ Known' /\ PoolMatches'
    BY <1>2, <2>3 DEF StopMonitor, queues, poolVars, RocketInv, PlacedOnce, Watched, Known,
                PoolMatches, InPlay
  <2> QED
    BY <2>2, <2>4 DEF RocketInv
<1>3. CASE FlushQueue
  <2>1. UNCHANGED <<limits, listening, active_queue, thread, threads, check_for_dead_threads,
                    monitor, connections, accepted>> /\ monitor_queue' = <<NoConn>>
    BY <1>3 DEF FlushQueue, poolVars
  <2>2. RocketTypeOK'
    BY <1>3, <2>1, FlushedQueue DEF FlushQueue, Advance, RocketInv, RocketTypeOK, Item
  <2>3. PlacedOnce'
    BY <2>1, FlushedQueue DEF RocketInv, PlacedOnce
  <2>4. \A d \in Conn : InPlay(d)' => InPlay(d)
    BY <2>1, FlushedQueue DEF InPlay
  <2>5. Watched' /\ Known' /\ PoolMatches'
    BY <2>1, <2>4 DEF RocketInv, RocketTypeOK, Watched, Known, PoolMatches
  <2> QED
    BY <2>2, <2>3, <2>5 DEF RocketInv
<1>4. CASE StopThreads
  <2>1. active_queue \in Seq(Item) /\ Cardinality(threads) \in Nat
        /\ Cardinality({}) \in Nat
    BY FiniteThreads DEF RocketInv, RocketTypeOK, Item
  <2>2. /\ active_queue' \in Seq(Item)
        /\ \A d \in Conn : In(active_queue', d) <=> In(active_queue, d)
        /\ Once(active_queue) => Once(active_queue')
    BY <1>4, <2>1, PillPlaces DEF StopThreads
  <2>3. UNCHANGED <<limits, listening, monitor_queue, thread, threads, monitor,
                    connections, accepted, closed>> /\ check_for_dead_threads' \in Int
    BY <1>4, <2>1 DEF StopThreads, Checked, RocketInv, RocketTypeOK
  <2>4. RocketTypeOK'
    BY <1>4, <2>2, <2>3 DEF StopThreads, Advance, RocketInv, RocketTypeOK, Item
  <2>5. PlacedOnce'
    BY <2>2, <2>3, NoConnAssumption DEF RocketInv, PlacedOnce
  <2>6. \A d \in Conn : InPlay(d)' => InPlay(d)
    BY <2>2, <2>3 DEF InPlay
  <2>7. Watched' /\ Known' /\ PoolMatches'
    BY <2>3, <2>6 DEF RocketInv, RocketTypeOK, Watched, Known, PoolMatches
  <2> QED
    BY <2>4, <2>5, <2>7 DEF RocketInv
<1>5. CASE JoinThreads
  <2>1. UNCHANGED <<limits, listening, active_queue, monitor_queue, monitor, connections,
                    accepted, closed>>
        /\ threads' = {} /\ thread' = [t \in Thread |-> Free]
    BY <1>5 DEF JoinThreads, queues
  <2>2. Cardinality(DeadThreads) \in Nat
    BY FiniteThreads DEF DeadThreads, RocketInv, RocketTypeOK
  <2>3. check_for_dead_threads' \in Int
    BY <1>5, <2>2 DEF JoinThreads, Checked, RocketInv, RocketTypeOK
  <2>4. RocketTypeOK'
    BY <1>5, <2>1, <2>3 DEF JoinThreads, Advance, Free, RocketInv, RocketTypeOK
  <2>5. \A t \in Thread : thread'[t].conn = NoConn /\ thread'[t].pc = "none"
    BY <2>1 DEF Free
  <2>6. PlacedOnce'
    BY <2>1, <2>5, NoConnAssumption DEF RocketInv, PlacedOnce
  <2>7. \A d \in Conn : InPlay(d)' => InPlay(d)
    BY <2>1, <2>5, NoConnAssumption DEF InPlay
  <2>8. Watched' /\ Known' /\ PoolMatches'
    BY <2>1, <2>5, <2>7 DEF RocketInv, RocketTypeOK, Watched, Known, PoolMatches
  <2> QED
    BY <2>4, <2>6, <2>8 DEF RocketInv
<1> QED
  BY <1>1, <1>2, <1>3, <1>4, <1>5 DEF StopStep

(* Every connection of the server is in one place at a time, whatever its   *)
(* threads do and whenever it is stopped.                                   *)
THEOREM PlacesAreKept == RocketSpec => []RocketInv
<1>1. RocketInv /\ [RocketNext]_rocketVars => RocketInv'
  <2> SUFFICES ASSUME RocketInv, [RocketNext]_rocketVars
               PROVE  RocketInv'
    OBVIOUS
  <2>1. ASSUME NEW c \in Conn, Accept(c) PROVE RocketInv'
    BY <2>1, AcceptKeeps
  <2>2. ASSUME NEW t \in Thread, WorkerStep(t) PROVE RocketInv'
    BY <2>2, TakeKeeps, TimeOutKeeps, LeaveKeeps DEF WorkerStep
  <2>3. CASE MonitorStep
    BY <2>3, CollectKeeps, SelectKeeps, RestoreKeeps, RemoveKeeps, FlushKeeps, ResizeKeeps
    DEF MonitorStep
  <2>4. CASE StopListeners \/ StopStep
    BY <2>4, StopKeeps
  <2>5. CASE UNCHANGED rocketVars
    BY <2>5 DEF rocketVars, queues, poolVars, RocketInv, RocketTypeOK, PlacedOnce, Watched,
                Known, PoolMatches, InPlay
  <2> QED
    BY <2>1, <2>2, <2>3, <2>4, <2>5 DEF RocketNext
<1> QED
  BY <1>1, RocketStarts, PTL DEF RocketSpec

(* One place at most makes one holder at most. *)
LEMMA PlacedIsHeldOnce ==
  ASSUME RocketInv, NEW c \in Conn
  PROVE  Count(active_queue, c) + Count(monitor_queue, c)
           + Cardinality({t \in Thread : thread[t].conn = c}) <= 1
<1> DEFINE holders == {t \in Thread : thread[t].conn = c}
<1>1. active_queue \in Seq(Item) /\ monitor_queue \in Seq(Item) /\ c # NoConn
      /\ Once(active_queue) /\ Once(monitor_queue)
  BY NoConnAssumption DEF RocketInv, RocketTypeOK, PlacedOnce, Item
<1>2. \A q \in {active_queue, monitor_queue} :
        Count(q, c) = IF In(q, c) THEN 1 ELSE 0
  <2> SUFFICES ASSUME NEW q \in {active_queue, monitor_queue}
               PROVE  Count(q, c) = IF In(q, c) THEN 1 ELSE 0
    OBVIOUS
  <2>1. q \in Seq(Item) /\ Once(q)
    BY <1>1
  <2> QED
    BY <1>1, <2>1, CountPlaces
<1>3. CASE holders = {}
  <2>1. Cardinality(holders) = 0
    BY <1>3, FS_EmptySet
  <2>2. ~(In(active_queue, c) /\ In(monitor_queue, c))
    BY DEF RocketInv, PlacedOnce
  <2> QED
    BY <1>2, <2>1, <2>2
<1>4. CASE holders # {}
  <2>1. PICK t \in Thread : thread[t].conn = c
    BY <1>4
  <2>2. holders = {t}
    BY <1>1, <2>1 DEF RocketInv, PlacedOnce
  <2>3. Cardinality(holders) = 1
    BY <2>2, FS_Singleton
  <2>4. ~In(active_queue, c) /\ ~In(monitor_queue, c)
    BY <2>1 DEF RocketInv, PlacedOnce
  <2> QED
    BY <1>2, <2>3, <2>4
<1> QED
  BY <1>3, <1>4

(* No two workers ever serve the same connection, and none is in a queue    *)
(* while a worker serves it.                                                *)
THEOREM OneHolderOnly == RocketSpec => []OneHolder
<1>1. RocketInv => OneHolder
  BY PlacedIsHeldOnce DEF OneHolder
<1> QED
  BY <1>1, PlacesAreKept, PTL

(* The assertion of the monitor holds: what it collects is new to it. *)
THEOREM CollectedIsAlwaysNew == RocketSpec => []CollectedIsNew
<1>1. RocketInv => CollectedIsNew
  <2> SUFFICES ASSUME RocketInv, monitor.pc = "collect", NEW c \in connections
               PROVE  Count(monitor_queue, c) = 0
    BY DEF CollectedIsNew
  <2>1. monitor_queue \in Seq(Item) /\ c \in Conn
    BY DEF RocketInv, RocketTypeOK, Item
  <2>2. ~InPlay(c)
    BY <2>1, NoConnAssumption DEF RocketInv, Watched
  <2>3. ~In(monitor_queue, c)
    BY <2>2 DEF InPlay
  <2> QED
    BY <2>1, <2>3, CountPlaces
<1> QED
  BY <1>1, PlacesAreKept, PTL

-----------------------------------------------------------------------------
(* The counter of deaths. *)
Doomed == {t \in threads : thread[t].pc \in {"dying", "dead"}}

(* The sets and the number that the counter is compared with. *)
LEMMA DoomedFinite ==
  ASSUME RocketInv
  PROVE  /\ IsFiniteSet(Doomed) /\ Cardinality(Doomed) \in Nat
         /\ active_queue \in Seq(Item) /\ Count(active_queue, NoConn) \in Nat
         /\ IsFiniteSet(threads) /\ Cardinality(threads) \in Nat
         /\ Cardinality({}) = 0
<1>1. active_queue \in Seq(Item) /\ Doomed \subseteq Thread /\ threads \subseteq Thread
  BY DEF RocketInv, RocketTypeOK, Item, Doomed
<1>2. Count(active_queue, NoConn) \in Nat
  BY <1>1, CountPlaces
<1> QED
  BY <1>1, <1>2, FiniteThreads, FS_EmptySet

(* A worker that takes a None is doomed instead of the None. *)
LEMMA TakeCounts ==
  ASSUME RocketInv, DeathsAreCounted, NEW t \in Thread, Take(t)
  PROVE  DeathsAreCounted'
<1>1. active_queue \in Seq(Item) /\ active_queue # <<>>
  BY DEF RocketInv, RocketTypeOK, Take, Item
<1>2. Count(active_queue, NoConn)
        = Count(active_queue', NoConn) + (IF Head(active_queue) = NoConn THEN 1 ELSE 0)
  BY <1>1, CountTail DEF Take
<1>3. active_queue' \in Seq(Item) /\ Count(active_queue', NoConn) \in Nat
  <2>1. active_queue' \in Seq(Item)
    BY <1>1 DEF Take
  <2> QED
    BY <2>1, CountPlaces
<1>4. t \in threads /\ t \notin Doomed /\ UNCHANGED <<threads, check_for_dead_threads>>
  BY DEF Take, RocketInv, PoolMatches, Doomed
<1>5. Doomed' = IF Head(active_queue) = NoConn THEN Doomed \cup {t} ELSE Doomed
  BY <1>4 DEF Take, Become, Doomed, RocketInv, RocketTypeOK
<1>6. IsFiniteSet(Doomed) /\ Cardinality(Doomed) \in Nat
      /\ Count(active_queue, NoConn) \in Nat
  BY DoomedFinite
<1>7. Cardinality(Doomed') = Cardinality(Doomed)
                              + (IF Head(active_queue) = NoConn THEN 1 ELSE 0)
  BY <1>4, <1>5, <1>6, FS_AddElement
<1>8. check_for_dead_threads = Count(active_queue, NoConn) + Cardinality(Doomed)
  BY DEF DeathsAreCounted, Doomed
<1>9. check_for_dead_threads' = Count(active_queue', NoConn) + Cardinality(Doomed')
  BY <1>2, <1>3, <1>4, <1>6, <1>7, <1>8
<1> QED
  BY <1>9 DEF DeathsAreCounted, Doomed

(* A connection at the end of the queue is no None. *)
LEMMA PutCounts ==
  ASSUME RocketInv, DeathsAreCounted, NEW c \in Conn,
         active_queue' = Append(active_queue, c),
         UNCHANGED <<thread, threads, check_for_dead_threads>>
  PROVE  DeathsAreCounted'
<1>1. active_queue \in Seq(Item) /\ c \in Item /\ c # NoConn
  BY NoConnAssumption DEF RocketInv, RocketTypeOK, Item
<1>2. Count(active_queue, NoConn) \in Nat
  BY DoomedFinite
<1>3. Count(active_queue', NoConn) = Count(active_queue, NoConn) + 0
  BY <1>1, CountAppend
<1> QED
  BY <1>2, <1>3 DEF DeathsAreCounted

(* A worker that goes on, or ends as it was told to, changes no number. *)
LEMMA WorkCounts ==
  ASSUME RocketInv, DeathsAreCounted, NEW t \in Thread,
         TimeOut(t) \/ Close(t) \/ Abandon(t) \/ End(t)
  PROVE  DeathsAreCounted'
<1>1. PICK pc \in {"idle", "dead"} :
        /\ thread' = [thread EXCEPT ![t] = [pc |-> pc, conn |-> NoConn]]
        /\ pc = "idle" <=> thread[t].pc = "serving"
        /\ thread[t].pc \in {"serving", "dying"}
  BY DEF TimeOut, Close, Abandon, End, Become
<1>2. UNCHANGED <<active_queue, threads, check_for_dead_threads>>
  BY DEF TimeOut, Close, Abandon, End, queues
<1>3. Doomed' = Doomed
  BY <1>1, <1>2 DEF Doomed, RocketInv, RocketTypeOK
<1> QED
  BY <1>2, <1>3 DEF DeathsAreCounted, Doomed

(* The dead that are buried are no longer counted, nor in the pool; a pill  *)
(* is counted at once.                                                      *)
LEMMA ResizeCounts ==
  ASSUME RocketInv, DeathsAreCounted, Resize
  PROVE  DeathsAreCounted'
<1> DEFINE dead == IF check_for_dead_threads > 0 THEN DeadThreads ELSE {}
           pills == IF active_queue = <<>> /\ Cardinality(threads \ dead) > limits.min
                    THEN 1 ELSE 0
<1>1. PICK new \in SUBSET (Thread \ (threads \ dead)) :
        /\ threads' = (threads \ dead) \cup new
        /\ thread' = [t \in Thread |-> IF t \in new THEN [pc |-> "idle", conn |-> NoConn]
                                      ELSE IF t \in dead THEN Free
                                      ELSE thread[t]]
        /\ check_for_dead_threads' = Checked(dead, pills)
        /\ active_queue' = active_queue \o Pills(pills)
  BY Zenon DEF Resize
<1>2. dead \subseteq Doomed /\ pills \in Nat
  BY DEF DeadThreads, IsAlive, Doomed, RocketInv, PoolMatches, RocketTypeOK
<1> HIDE DEF dead, pills
<1>3. Doomed' = Doomed \ dead
  BY <1>1, <1>2 DEF Doomed, RocketInv, RocketTypeOK, Free
<1>4. /\ IsFiniteSet(Doomed) /\ Cardinality(Doomed) \in Nat
      /\ active_queue \in Seq(Item) /\ Count(active_queue, NoConn) \in Nat
  BY DoomedFinite
<1>5. Cardinality(Doomed \ dead) = Cardinality(Doomed) - Cardinality(dead)
  <2>1. Doomed \cap dead = dead
    BY <1>2
  <2>2. Cardinality(Doomed \ dead) = Cardinality(Doomed) - Cardinality(Doomed \cap dead)
    BY <1>4, FS_Difference
  <2> QED
    BY <2>1, <2>2
<1>6. Cardinality(dead) \in Nat
  BY <1>2, <1>4, FS_Subset, FS_CardinalityType
<1>7. Count(active_queue', NoConn) = Count(active_queue, NoConn) + pills
  BY <1>1, <1>2, <1>4, CountPills
<1>8. check_for_dead_threads = Count(active_queue, NoConn) + Cardinality(Doomed)
  BY DEF DeathsAreCounted, Doomed
<1>9. check_for_dead_threads' = check_for_dead_threads - Cardinality(dead) + pills
  BY <1>1 DEF Checked
<1>10. check_for_dead_threads' = Count(active_queue', NoConn) + Cardinality(Doomed')
  BY <1>2, <1>3, <1>4, <1>5, <1>6, <1>7, <1>8, <1>9
<1> QED
  BY <1>10 DEF DeathsAreCounted, Doomed

(* A None for every thread is counted for every thread. *)
LEMMA StopCounts ==
  ASSUME RocketInv, DeathsAreCounted, StopThreads
  PROVE  DeathsAreCounted'
<1>1. /\ Cardinality(threads) \in Nat /\ Cardinality({}) = 0
      /\ active_queue \in Seq(Item) /\ Count(active_queue, NoConn) \in Nat
      /\ Cardinality(Doomed) \in Nat
  BY DoomedFinite
<1>2. Count(active_queue', NoConn) = Count(active_queue, NoConn) + Cardinality(threads)
  BY <1>1, CountPills DEF StopThreads
<1>3. check_for_dead_threads' = check_for_dead_threads - Cardinality({}) + Cardinality(threads)
      /\ UNCHANGED <<thread, threads>>
  BY DEF StopThreads, Checked
<1>4. check_for_dead_threads = Count(active_queue, NoConn) + Cardinality(Doomed)
  BY DEF DeathsAreCounted, Doomed
<1>5. check_for_dead_threads' = Count(active_queue', NoConn) + Cardinality(Doomed)
  BY <1>1, <1>2, <1>3, <1>4
<1> QED
  BY <1>3, <1>5 DEF DeathsAreCounted, Doomed

(* When all have ended, all are dead and none is in the pool. *)
LEMMA JoinCounts ==
  ASSUME RocketInv, DeathsAreCounted, JoinThreads
  PROVE  DeathsAreCounted'
<1>1. DeadThreads = threads /\ Doomed = threads
  BY DEF JoinThreads, DeadThreads, Doomed, IsAlive, RocketInv, RocketTypeOK, PoolMatches
<1>2. /\ Cardinality(threads) \in Nat /\ Cardinality({}) = 0
      /\ Count(active_queue, NoConn) \in Nat
  BY DoomedFinite
<1>3. check_for_dead_threads' = check_for_dead_threads - Cardinality(threads) + 0
      /\ threads' = {} /\ active_queue' = active_queue
  BY <1>1 DEF JoinThreads, Checked, queues
<1>4. check_for_dead_threads = Count(active_queue, NoConn) + Cardinality(threads)
  BY <1>1 DEF DeathsAreCounted, Doomed
<1>5. Doomed' = {}
  BY <1>3 DEF Doomed
<1>6. check_for_dead_threads' = Count(active_queue', NoConn) + Cardinality(Doomed')
  BY <1>2, <1>3, <1>4, <1>5
<1> QED
  BY <1>6 DEF DeathsAreCounted, Doomed

(* The counter of deaths is exact, so that the monitor looks for dead       *)
(* threads as long as there is one, or a None that will make one.           *)
THEOREM DeathsStayCounted == RocketSpec => []DeathsAreCounted
<1>1. RocketInit => DeathsAreCounted
  <2> SUFFICES ASSUME RocketInit PROVE DeathsAreCounted
    OBVIOUS
  <2>1. Doomed = {} /\ {i \in DOMAIN active_queue : active_queue[i] = NoConn} = {}
    BY DEF RocketInit, Doomed
  <2>2. Count(active_queue, NoConn) = 0
    BY <2>1, FS_EmptySet DEF Count
  <2>3. Cardinality(Doomed) = 0 /\ check_for_dead_threads = 0
    BY <2>1, FS_EmptySet DEF RocketInit
  <2> QED
    BY <2>2, <2>3 DEF DeathsAreCounted, Doomed
<1>2. RocketInv /\ DeathsAreCounted /\ [RocketNext]_rocketVars => DeathsAreCounted'
  <2> SUFFICES ASSUME RocketInv, DeathsAreCounted, [RocketNext]_rocketVars
               PROVE  DeathsAreCounted'
    OBVIOUS
  <2>1. ASSUME NEW c \in Conn, Accept(c) PROVE DeathsAreCounted'
    BY <2>1, PutCounts DEF Accept, poolVars
  <2>2. ASSUME NEW t \in Thread, WorkerStep(t) PROVE DeathsAreCounted'
    BY <2>2, TakeCounts, WorkCounts DEF WorkerStep
  <2>3. ASSUME NEW c \in Conn, Restore(c) PROVE DeathsAreCounted'
    BY <2>3, PutCounts DEF Restore, poolVars
  <2>4. CASE Collect \/ Select \/ RemoveRestored \/ Flush
    BY <2>4 DEF Collect, Select, RemoveRestored, Flush, poolVars, queues, DeathsAreCounted
  <2>5. CASE DynamicResize
    <3>1. CASE Resize
      BY <3>1, ResizeCounts
    <3>2. CASE UNCHANGED <<poolVars, active_queue>>
      BY <3>2 DEF poolVars, DeathsAreCounted
    <3> QED
      BY <2>5, <3>1, <3>2 DEF DynamicResize
  <2>6. CASE StopListeners \/ StopMonitor \/ FlushQueue
    BY <2>6 DEF StopListeners, StopMonitor, FlushQueue, poolVars, queues, DeathsAreCounted
  <2>7. CASE StopThreads \/ JoinThreads
    BY <2>7, StopCounts, JoinCounts
  <2>8. CASE UNCHANGED rocketVars
    BY <2>8 DEF rocketVars, poolVars, queues, DeathsAreCounted
  <2> QED
    BY <2>1, <2>2, <2>3, <2>4, <2>5, <2>6, <2>7, <2>8
    DEF RocketNext, MonitorStep, StopStep
<1> QED
  BY <1>1, <1>2, PlacesAreKept, PTL DEF RocketSpec
=============================================================================
