------------------------------ MODULE MCWeb2py ------------------------------
(* Small instances of the parts of web2py itself for TLC, one part at a     *)
(* time: the scheduler, the web server, cache.disk, and sessions in files   *)
(* and in the database.  A behaviour is one of the part it starts with; the *)
(* variables of the others stay as they are.                                *)
EXTENDS Scheduler, RocketServer, DiskCache, FileSessions, DbSessions, TLC

CONSTANTS
  w1, w2, t1, t2,                        \* of the scheduler
  c1, c2, c3,                            \* of cache.disk
  Parts

VARIABLE part

-----------------------------------------------------------------------------
TwoWorkers == {w1, w2}
TwoTasks == {t1, t2}
Chain == [t \in TwoTasks |-> IF t = t2 THEN {t1} ELSE {}]
OnceAndTwice == [t \in TwoTasks |-> IF t = t1 THEN 1 ELSE 2]
OneRetry == [t \in TwoTasks |-> IF t = t1 THEN 1 ELSE 0]

(* Workers that succeed each other; two workers side by side, with one      *)
(* crash, one stall, one command, or two tasks.                             *)
Succession ==
  [parallel |-> FALSE, queued |-> {t1, t2}, outcomes |-> Outcome,
   crashes |-> 1, stalls |-> 0, commands |-> 0]
Pair ==
  [parallel |-> TRUE, queued |-> {t1}, outcomes |-> {"COMPLETED"},
   crashes |-> 0, stalls |-> 0, commands |-> 0]
JustPair == {Pair}
Live == {Succession, [Pair EXCEPT !.crashes = 1]}
Safe == {[Pair EXCEPT !.stalls = 1], [Pair EXCEPT !.commands = 1],
         [Pair EXCEPT !.queued = TwoTasks]}

Fixed == [min |-> 1, max |-> 0]
Growing == [min |-> 1, max |-> 2]
BothLimits == {Fixed, Growing}

(* Calls of one kind, calls that remove the files in between, and a server  *)
(* that dies.                                                               *)
ThreeCalls == {c1, c2, c3}
CacheUsages ==
  {[calls |-> ThreeCalls, ops |-> {"get"}, warm |-> TRUE, crashes |-> 0],
   [calls |-> ThreeCalls, ops |-> {"increment"}, warm |-> TRUE, crashes |-> 0],
   [calls |-> ThreeCalls, ops |-> {"increment", "clear"}, warm |-> FALSE, crashes |-> 0],
   [calls |-> {c1, c2}, ops |-> {"get", "delete", "clear"}, warm |-> FALSE, crashes |-> 1]}

(* Browsers that do several things at a time, and one that waits; requests  *)
(* that fail, and servers that die.                                         *)
FileVisits ==
  {[ops |-> {"look", "visit", "form", "login", "logout"},
    patient |-> FALSE, fails |-> TRUE, crashes |-> 0],
   [ops |-> {"visit", "logout", "restart", "download"},
    patient |-> FALSE, fails |-> FALSE, crashes |-> 1]}
DbVisits ==
  {[ops |-> {"form", "login", "logout"}, patient |-> TRUE, fails |-> TRUE, crashes |-> 1],
   [ops |-> {"look", "visit", "login", "restart"},
    patient |-> TRUE, fails |-> TRUE, crashes |-> 0]}

AllVisits == FileVisits \cup DbVisits

(* The names of the workers do not matter. *)
Symmetry == Permutations(TwoWorkers)

webVars == <<vars, part, rocketVars, diskVars, fileVars, tableVars>>

-----------------------------------------------------------------------------
(* Where a part stays when another one is run: nothing can happen there.    *)
NoScheduler ==
  /\ env = Pair
  /\ task = [t \in Task |-> Unqueued] /\ row = [w \in Worker |-> NoRow]
  /\ visited = {} /\ mem = [w \in Worker |-> Dead] /\ stopping = Idle
NoServer ==
  /\ limits = Fixed /\ listening = FALSE /\ active_queue = <<>> /\ monitor_queue = <<>>
  /\ thread = [t \in Thread |-> Free] /\ threads = {} /\ check_for_dead_threads = 0
  /\ monitor = [active |-> FALSE, pc |-> "end", readable |-> {}, restoring |-> NoConn]
  /\ connections = {} /\ accepted = {} /\ closed = {} /\ stage = "down"
NoCache ==
  /\ usage = [calls |-> {}, ops |-> {}, warm |-> FALSE, crashes |-> 0]
  /\ clock = 1 /\ file = <<>> /\ name = [n \in Name |-> NoFile]
  /\ call = [c \in Call |-> NotCalled]
NoSessions ==
  /\ visit = [ops |-> {}, patient |-> TRUE, fails |-> FALSE, crashes |-> 0]
  /\ cookie = <<>> /\ req = [r \in Request |-> NotSent]
NoFiles == files = <<>> /\ names = <<>>
NoTable == table = [rows |-> <<>>, last |-> 0] /\ work = table /\ writer = NoRequest

WebInit ==
  /\ part \in Parts
  /\ IF part = "scheduler" THEN Init ELSE NoScheduler
  /\ IF part = "server" THEN RocketInit ELSE NoServer
  /\ IF part = "cache" THEN DiskInit ELSE NoCache
  /\ IF part = "files" THEN FileInit /\ visit \in FileVisits
     ELSE NoFiles /\ (part = "table" \/ NoSessions)
  /\ IF part = "table" THEN DbInit /\ visit \in DbVisits ELSE NoTable

(* Where a part may stop: every worker has ended, the server is down, every *)
(* call of the cache and every request with a session is over.              *)
WebDone ==
  /\ \/ part = "scheduler" /\ \A w \in Worker : mem[w].pc = "dead"
     \/ part = "server" /\ stage = "down"
     \/ part = "cache" /\ \A c \in usage.calls : ~At(c, "idle") /\ ~Calling(c)
     \/ /\ part \in {"files", "table"}
        /\ \A r \in Request : ~IsAt(r, "idle") /\ ~InProgress(r)
  /\ UNCHANGED webVars

PartNext ==
  /\ UNCHANGED part
  /\ IF part = "scheduler" THEN Next ELSE UNCHANGED vars
  /\ IF part = "server" THEN RocketNext ELSE UNCHANGED rocketVars
  /\ IF part = "cache" THEN DiskNext ELSE UNCHANGED diskVars
  /\ IF part = "files" THEN FileNext
     ELSE UNCHANGED <<files, names>> /\ (part = "table" \/ UNCHANGED sessionVars)
  /\ IF part = "table" THEN DbNext ELSE UNCHANGED tableVars

WebNext == PartNext \/ WebDone
WebSpec == WebInit /\ [][WebNext]_webVars
FairWebSpec == WebSpec /\ Fairness /\ RocketFairness
=============================================================================
