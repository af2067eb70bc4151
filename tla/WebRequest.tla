---------------------------- MODULE WebRequest ----------------------------
(* How web2py serves one request over the SQLite database of an            *)
(* application: gluon/main.py wsgibase accepts it, runs the handler of a    *)
(* controller, commits on success or rolls back on an exception, and        *)
(* answers.  The handlers themselves are the actions of the modules that    *)
(* extend this one (Ratings, Cart); they read and write the tables through  *)
(* Seen and Write.                                                          *)
(*                                                                          *)
(* SQLite (Python's sqlite3 driver) gives every request its own connection  *)
(* (pool_size is 0).  A SELECT outside a transaction reads what is          *)
(* committed at that moment, so two SELECTs of one request may see          *)
(* different states.  The first INSERT, UPDATE or DELETE starts the          *)
(* transaction and takes the only write lock of the database, which is kept *)
(* until the commit or the rollback; meanwhile the holder sees its own      *)
(* uncommitted tables and everybody else the committed ones.  A request     *)
(* that waits too long for the lock gets an exception.                      *)
EXTENDS Naturals

CONSTANTS
  Worker,         \* threads of the Rocket pool, one request each at a time
  NoWorker,       \* nobody holds the write lock
  MaxRequests,    \* bound: requests accepted in one behaviour
  CommitMayFail,  \* BOOLEAN: may the commit of a transaction be refused
  MayCrash        \* BOOLEAN: may the server process die

ASSUME WorkerAssumption == NoWorker \notin Worker
ASSUME BoundAssumption == MaxRequests \in Nat
ASSUME FailureAssumption == CommitMayFail \in BOOLEAN /\ MayCrash \in BOOLEAN

VARIABLES
  db,        \* the committed tables, a record with one field per table
  work,      \* the tables as the holder of the write lock sees them
  writer,    \* the holder of the write lock, or NoWorker
  pc,        \* pc[w]: the next step of the request worker w serves
  status,    \* status[w]: the answer about to be sent, "none" before
  accepted   \* requests accepted so far

serverVars == <<db, work, writer, pc, status, accepted>>
tableVars == <<db, work, writer>>

Status == {"none", "ok", "error"}

-----------------------------------------------------------------------------
ServerInit(tables) ==
  /\ db = tables
  /\ work = tables
  /\ writer = NoWorker
  /\ pc = [w \in Worker |-> "idle"]
  /\ status = [w \in Worker |-> "none"]
  /\ accepted = 0

InProgress(w) == pc[w] # "idle"

(* The request is between two statements of its handler. *)
InHandler(w) == pc[w] \notin {"idle", "commit", "answer"}

(* What a SELECT of worker w reads. *)
Seen(w) == IF writer = w THEN work ELSE db

Goto(w, label) ==
  /\ pc' = [pc EXCEPT ![w] = label]
  /\ UNCHANGED <<status, accepted>>

(* A request reaches a free worker, whose handler starts at label. *)
Accept(w, label) ==
  /\ ~InProgress(w)
  /\ accepted < MaxRequests
  /\ accepted' = accepted + 1
  /\ pc' = [pc EXCEPT ![w] = label]
  /\ UNCHANGED <<tableVars, status>>

(* A statement that only reads; the handler goes on at label. *)
Read(w, label) == Goto(w, label) /\ UNCHANGED tableVars

(* Mutant of Write: every statement is committed at once. *)
AutocommitWrite(w, tables, label) ==
  /\ writer \in {NoWorker, w}
  /\ db' = tables
  /\ work' = tables
  /\ UNCHANGED writer
  /\ Goto(w, label)

(* A statement that writes, leaving the tables as given. *)
Write(w, tables, label) ==
  /\ writer \in {NoWorker, w}
  /\ writer' = w
  /\ work' = tables
  /\ UNCHANGED db
  /\ Goto(w, label)

-----------------------------------------------------------------------------
(* The handler has returned; its transaction, if it has one, is committed.  *)
Commit(w) ==
  /\ pc[w] = "commit"
  /\ db' = Seen(w)
  /\ writer' = IF writer = w THEN NoWorker ELSE writer
  /\ pc' = [pc EXCEPT ![w] = "answer"]
  /\ status' = [status EXCEPT ![w] = "ok"]
  /\ UNCHANGED <<work, accepted>>

Rollback(w) ==
  /\ work' = IF writer = w THEN db ELSE work
  /\ writer' = IF writer = w THEN NoWorker ELSE writer
  /\ UNCHANGED <<db, accepted>>

(* The database refuses the commit: a reader kept its lock for longer than  *)
(* the driver waits, or the disk is full.  ConnectionPool.close drops the   *)
(* exception with the connection, and wsgibase answers as if it had         *)
(* succeeded.                                                               *)
CommitFails(w) ==
  /\ CommitMayFail
  /\ pc[w] = "commit"
  /\ writer = w
  /\ Rollback(w)
  /\ pc' = [pc EXCEPT ![w] = "answer"]
  /\ status' = [status EXCEPT ![w] = "ok"]

(* An exception in the handler: rollback, and a ticket with status 500. *)
Fail(w) ==
  /\ Rollback(w)
  /\ pc' = [pc EXCEPT ![w] = "answer"]
  /\ status' = [status EXCEPT ![w] = "error"]

(* "database is locked": a statement of w that writes (its label is one of  *)
(* writes) has waited too long for the lock of another worker, or any       *)
(* statement for a commit in progress.                                      *)
LockTimeout(w, writes) ==
  /\ InHandler(w)
  /\ writer \in Worker \ {w}
  /\ pc[w] \in writes \/ pc[writer] = "commit"
  /\ Fail(w)

(* The answer has left for the browser; the worker is free again. *)
Respond(w) ==
  /\ pc[w] = "answer"
  /\ pc' = [pc EXCEPT ![w] = "idle"]
  /\ status' = [status EXCEPT ![w] = "none"]
  /\ UNCHANGED <<tableVars, accepted>>

(* The server process dies and is started again: what was not committed is  *)
(* gone, and so is every answer not yet sent.                               *)
Crash ==
  /\ MayCrash
  /\ \E w \in Worker : InProgress(w)
  /\ pc' = [w \in Worker |-> "idle"]
  /\ status' = [w \in Worker |-> "none"]
  /\ work' = db
  /\ writer' = NoWorker
  /\ UNCHANGED <<db, accepted>>

(* The bound is reached and every request has been served. *)
Quiescent == accepted = MaxRequests /\ \A w \in Worker : ~InProgress(w)
=============================================================================
