---------------------------- MODULE RocketServer ----------------------------
(* The threads of the web server (gluon/rocket.py): a listener, a pool of   *)
(* worker threads, the monitor of idle connections, and the main thread     *)
(* that stops them.                                                         *)
(*                                                                          *)
(* A connection moves between two queues.  The listener puts a new one in   *)
(* the active queue; a worker takes it, serves its requests and closes it,  *)
(* or, when the client is silent for too long, puts it in the monitor       *)
(* queue; the monitor collects these, returns a readable one to the active  *)
(* queue and closes a stale one.  A None in a queue (NoConn) tells the      *)
(* thread that takes it to end.                                             *)
EXTENDS Integers, Sequences, FiniteSets

CONSTANTS
  Thread,   \* names for worker threads, to be used again when one is dead
  Conn, NoConn,
  Limits    \* possible values of min_threads and max_threads

ASSUME NoConnAssumption == NoConn \notin Conn
ASSUME ThreadAssumption == IsFiniteSet(Thread)

VARIABLES
  limits,
  listening,    \* Listener.ready
  active_queue, monitor_queue,
  thread,       \* what each worker thread does, and the connection it serves
  threads,      \* ThreadPool.threads
  check_for_dead_threads,
  monitor,      \* Monitor.active, the step of its thread, what select found
  connections,  \* Monitor.connections
  accepted, closed,
  stage         \* how far Rocket.stop has come

poolVars == <<thread, threads, check_for_dead_threads>>
queues == <<active_queue, monitor_queue>>
rocketVars == <<limits, listening, queues, poolVars, monitor, connections,
                accepted, closed, stage>>

Limit == [min : Nat \ {0}, max : Nat]
ASSUME LimitsAssumption == Limits \subseteq Limit
Free == [pc |-> "none", conn |-> NoConn]
grow_threshold == limits.max \div 10 + 2

(* ThreadPool.start grows the pool to min_threads; then the monitor and the *)
(* listener start.                                                          *)
RocketInit ==
  /\ limits \in Limits
  /\ threads \in {s \in SUBSET Thread : Cardinality(s) = limits.min}
  /\ thread = [t \in Thread |->
                 IF t \in threads THEN [pc |-> "idle", conn |-> NoConn] ELSE Free]
  /\ check_for_dead_threads = 0
  /\ listening = TRUE
  /\ active_queue = <<>> /\ monitor_queue = <<>>
  /\ monitor = [active |-> TRUE, pc |-> "collect", readable |-> {}, restoring |-> NoConn]
  /\ connections = {}
  /\ accepted = {} /\ closed = {}
  /\ stage = "run"

IsAlive(t) == thread[t].pc \notin {"none", "dead"}
Count(queue, c) == Cardinality({i \in DOMAIN queue : queue[i] = c})

-----------------------------------------------------------------------------
(* Listener.listen *)
Accept(c) ==
  /\ listening /\ c \notin accepted
  /\ accepted' = accepted \cup {c}
  /\ active_queue' = Append(active_queue, c)
  /\ UNCHANGED <<limits, listening, monitor_queue, poolVars, monitor, connections,
                 closed, stage>>

-----------------------------------------------------------------------------
(* Worker.run *)
Become(t, pc, c) == thread' = [thread EXCEPT ![t] = [pc |-> pc, conn |-> c]]

Take(t) ==
  LET c == Head(active_queue)
  IN /\ thread[t].pc = "idle" /\ active_queue # <<>>
     /\ active_queue' = Tail(active_queue)
     /\ Become(t, IF c = NoConn THEN "dying" ELSE "serving", c)
     /\ UNCHANGED <<limits, listening, monitor_queue, threads, check_for_dead_threads,
                    monitor, connections, accepted, closed, stage>>

(* Mutant of TimeOut: the worker goes on with the connection. *)
TimeOutAndServe(t) ==
  /\ thread[t].pc = "serving"
  /\ monitor_queue' = Append(monitor_queue, thread[t].conn)
  /\ UNCHANGED <<limits, listening, active_queue, poolVars, monitor, connections,
                 accepted, closed, stage>>

(* The client is silent for SOCKET_TIMEOUT. *)
TimeOut(t) ==
  /\ thread[t].pc = "serving"
  /\ monitor_queue' = Append(monitor_queue, thread[t].conn)
  /\ Become(t, "idle", NoConn)
  /\ UNCHANGED <<limits, listening, active_queue, threads, check_for_dead_threads,
                 monitor, connections, accepted, closed, stage>>

(* The last request of the connection is answered, or there is an error. *)
Close(t) ==
  /\ thread[t].pc = "serving"
  /\ closed' = closed \cup {thread[t].conn}
  /\ Become(t, "idle", NoConn)
  /\ UNCHANGED <<limits, listening, queues, threads, check_for_dead_threads,
                 monitor, connections, accepted, stage>>

(* Mutant of Abandon: the error ends the thread. *)
AbandonAndEnd(t) ==
  /\ thread[t].pc = "serving"
  /\ Become(t, "dead", NoConn)
  /\ UNCHANGED <<limits, listening, queues, threads, check_for_dead_threads,
                 monitor, connections, accepted, closed, stage>>

(* A request that cannot be parsed: the loop is left without a close. *)
Abandon(t) ==
  /\ thread[t].pc = "serving"
  /\ Become(t, "idle", NoConn)
  /\ UNCHANGED <<limits, listening, queues, threads, check_for_dead_threads,
                 monitor, connections, accepted, closed, stage>>

End(t) ==
  /\ thread[t].pc = "dying"
  /\ Become(t, "dead", NoConn)
  /\ UNCHANGED <<limits, listening, queues, threads, check_for_dead_threads,
                 monitor, connections, accepted, closed, stage>>

WorkerStep(t) == Take(t) \/ TimeOut(t) \/ Close(t) \/ Abandon(t) \/ End(t)

-----------------------------------------------------------------------------
(* ThreadPool *)
DeadThreads == {t \in threads : ~IsAlive(t)}

(* Mutant of Checked: bring_out_your_dead does not correct the counter. *)
CheckedToo(dead, pills) == check_for_dead_threads + pills

(* check_for_dead_threads after bring_out_your_dead and shrink. *)
Checked(dead, pills) == check_for_dead_threads - Cardinality(dead) + pills

Pills(n) == [i \in 1..n |-> NoConn]

(* grow adds at most max_threads - len(threads): with max_threads = 0 none. *)
Growth(size) ==
  LET room == limits.max - size
  IN IF Len(active_queue) <= grow_threshold \/ room < 0 THEN 0
     ELSE IF Len(active_queue) < room THEN Len(active_queue) ELSE room

(* dynamic_resize *)
Resize ==
  LET dead == IF check_for_dead_threads > 0 THEN DeadThreads ELSE {}
      left == threads \ dead
      pills == IF active_queue = <<>> /\ Cardinality(left) > limits.min THEN 1 ELSE 0
  IN \E new \in SUBSET (Thread \ left) :
       /\ Cardinality(new) = Growth(Cardinality(left))
       /\ threads' = left \cup new
       /\ thread' = [t \in Thread |-> IF t \in new THEN [pc |-> "idle", conn |-> NoConn]
                                     ELSE IF t \in dead THEN Free
                                     ELSE thread[t]]
       /\ check_for_dead_threads' = Checked(dead, pills)
       /\ active_queue' = active_queue \o Pills(pills)

-----------------------------------------------------------------------------
(* Monitor.run *)
MonitorAt(pc) == monitor' = [monitor EXCEPT !.pc = pc]

(* One connection, or the None that ends the thread, out of the queue; the  *)
(* latter flushes the queue (stop).                                         *)
Collect ==
  /\ monitor.pc = "collect" /\ monitor_queue # <<>>
  /\ \/ /\ Head(monitor_queue) # NoConn
        /\ connections' = connections \cup {Head(monitor_queue)}
        /\ monitor_queue' = Tail(monitor_queue)
        /\ UNCHANGED <<monitor, closed>>
     \/ /\ Head(monitor_queue) = NoConn
        /\ closed' = closed \cup connections \cup
                       {c \in Conn : Count(monitor_queue, c) > 0}
        /\ connections' = {}
        /\ monitor_queue' = <<NoConn>>
        /\ monitor' = [monitor EXCEPT !.active = FALSE, !.pc = "select"]
  /\ UNCHANGED <<limits, listening, active_queue, poolVars, accepted, stage>>

(* select finds some of the connections readable; then self.active is       *)
(* looked at.                                                               *)
Select ==
  /\ monitor.pc = "select" \/ (monitor.pc = "collect" /\ monitor_queue = <<>>)
  /\ \/ /\ monitor.active
        /\ \E readable \in SUBSET connections :
             monitor' = [monitor EXCEPT !.pc = "restore", !.readable = readable]
     \/ /\ ~monitor.active
        /\ MonitorAt("end")
  /\ UNCHANGED <<limits, listening, queues, poolVars, connections, accepted, closed, stage>>

(* A readable connection goes to the active queue first... *)
Restore(c) ==
  /\ monitor.pc = "restore" /\ monitor.restoring = NoConn /\ c \in monitor.readable
  /\ active_queue' = Append(active_queue, c)
  /\ monitor' = [monitor EXCEPT !.restoring = c, !.readable = @ \ {c}]
  /\ UNCHANGED <<limits, listening, monitor_queue, poolVars, connections,
                 accepted, closed, stage>>

(* Mutant of RemoveRestored: the connection stays in the set. *)
RemoveNothing ==
  /\ monitor.restoring # NoConn
  /\ monitor' = [monitor EXCEPT !.restoring = NoConn]
  /\ UNCHANGED <<limits, listening, queues, poolVars, connections, accepted,
                 closed, stage>>

(* ...and leaves the set then; when stop has emptied it, this fails and the *)
(* thread ends.                                                             *)
RemoveRestored ==
  /\ monitor.restoring # NoConn
  /\ connections' = connections \ {monitor.restoring}
  /\ monitor' = [monitor EXCEPT !.restoring = NoConn,
                                !.pc = IF monitor.restoring \in connections THEN @ ELSE "end"]
  /\ UNCHANGED <<limits, listening, queues, poolVars, accepted, closed, stage>>

Flush ==
  /\ monitor.pc = "restore" /\ monitor.restoring = NoConn /\ monitor.readable = {}
  /\ \E stale \in SUBSET connections :
       /\ connections' = connections \ stale
       /\ closed' = closed \cup stale
  /\ MonitorAt("resize")
  /\ UNCHANGED <<limits, listening, queues, poolVars, accepted, stage>>

DynamicResize ==
  /\ monitor.pc = "resize"
  /\ IF limits.max > limits.min \/ limits.max = 0
     THEN Resize ELSE UNCHANGED <<poolVars, active_queue>>
  /\ MonitorAt(IF monitor.active THEN "collect" ELSE "end")
  /\ UNCHANGED <<limits, listening, monitor_queue, connections, accepted, closed, stage>>

MonitorStep ==
  \/ Collect \/ Select \/ (\E c \in Conn : Restore(c)) \/ RemoveRestored
  \/ Flush \/ DynamicResize

-----------------------------------------------------------------------------
(* Rocket.stop, called by the handler of a signal. *)
Advance(from, to) == stage = from /\ stage' = to

(* The listeners are joined. *)
StopListeners ==
  /\ Advance("run", "monitor")
  /\ listening' = FALSE
  /\ UNCHANGED <<limits, queues, poolVars, monitor, connections, accepted, closed>>

(* Monitor.stop closes the connections of the set... *)
StopMonitor ==
  /\ Advance("monitor", "queue")
  /\ monitor' = [monitor EXCEPT !.active = FALSE]
  /\ closed' = closed \cup connections
  /\ connections' = {}
  /\ UNCHANGED <<limits, listening, queues, poolVars, accepted>>

(* ...and those of the queue. *)
FlushQueue ==
  /\ Advance("queue", "join")
  /\ closed' = closed \cup {c \in Conn : Count(monitor_queue, c) > 0}
  /\ monitor_queue' = <<NoConn>>
  /\ UNCHANGED <<limits, listening, active_queue, poolVars, monitor, connections, accepted>>

(* Mutant of StopThreads: one thread gets no None. *)
StopThreadsButOne ==
  /\ Advance("join", "threads") /\ monitor.pc = "end"
  /\ active_queue' = active_queue \o Pills(Cardinality(threads) - 1)
  /\ check_for_dead_threads' = Checked({}, Cardinality(threads) - 1)
  /\ UNCHANGED <<limits, listening, monitor_queue, thread, threads, monitor,
                 connections, accepted, closed>>

(* The monitor is joined; ThreadPool.stop puts one None for every thread... *)
StopThreads ==
  /\ Advance("join", "threads") /\ monitor.pc = "end"
  /\ active_queue' = active_queue \o Pills(Cardinality(threads))
  /\ check_for_dead_threads' = Checked({}, Cardinality(threads))
  /\ UNCHANGED <<limits, listening, monitor_queue, thread, threads, monitor,
                 connections, accepted, closed>>

(* ...and waits until all have ended. *)
JoinThreads ==
  /\ Advance("threads", "down") /\ \A t \in threads : ~IsAlive(t)
  /\ threads' = {}
  /\ thread' = [t \in Thread |-> Free]
  /\ check_for_dead_threads' = Checked(DeadThreads, 0)
  /\ UNCHANGED <<limits, listening, queues, monitor, connections, accepted, closed>>

StopStep == StopMonitor \/ FlushQueue \/ StopThreads \/ JoinThreads

RocketNext ==
  \/ \E c \in Conn : Accept(c)
  \/ \E t \in Thread : WorkerStep(t)
  \/ MonitorStep \/ StopListeners \/ StopStep

(* Requests end, connections become silent or are closed, and every thread  *)
(* goes on.  Nobody has to connect or to stop the server.                   *)
RocketFairness ==
  /\ \A t \in Thread : WF_rocketVars(WorkerStep(t))
  /\ WF_rocketVars(MonitorStep) /\ WF_rocketVars(StopStep)

RocketSpec == RocketInit /\ [][RocketNext]_rocketVars

-----------------------------------------------------------------------------
RocketTypeOK ==
  /\ limits \in Limit
  /\ listening \in BOOLEAN
  /\ active_queue \in Seq(Conn \cup {NoConn}) /\ monitor_queue \in Seq(Conn \cup {NoConn})
  /\ thread \in [Thread -> [pc : {"none", "idle", "serving", "dying", "dead"},
                            conn : Conn \cup {NoConn}]]
  /\ threads \subseteq Thread
  /\ check_for_dead_threads \in Int
  /\ monitor \in [active : BOOLEAN, pc : {"collect", "select", "restore", "resize", "end"},
                  readable : SUBSET Conn, restoring : Conn \cup {NoConn}]
  /\ connections \subseteq Conn /\ closed \subseteq accepted /\ accepted \subseteq Conn
  /\ stage \in {"run", "monitor", "queue", "join", "threads", "down"}

(* A connection is in one queue once, or with one worker: no two workers    *)
(* ever serve the same connection.                                          *)
OneHolder ==
  \A c \in Conn :
    Count(active_queue, c) + Count(monitor_queue, c)
      + Cardinality({t \in Thread : thread[t].conn = c}) <= 1

(* The assertion of the monitor: a connection it collects is not among      *)
(* those it has, although workers may have it from Restore on.              *)
CollectedIsNew ==
  monitor.pc = "collect" =>
    \A c \in connections : Count(monitor_queue, c) = 0

(* check_for_dead_threads is the number of None in the active queue and of  *)
(* threads that have taken theirs and are still in the pool.                *)
DeathsAreCounted ==
  check_for_dead_threads =
    Count(active_queue, NoConn)
      + Cardinality({t \in threads : thread[t].pc \in {"dying", "dead"}})

(* In a pool of fixed size, whoever waits for a worker gets one, unless the *)
(* server is stopped.                                                       *)
ConnectionsAreTaken ==
  \A c \in Conn :
    (limits.max = 0 /\ Count(active_queue, c) > 0) ~>
      (Count(active_queue, c) = 0 \/ stage # "run")

(* Rocket.stop comes to its end. *)
StopEnds == stage = "monitor" ~> stage = "down"
=============================================================================
