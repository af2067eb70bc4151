----------------------------- MODULE DbSessions -----------------------------
(* Sessions in a table of the application's own database, which is SQLite:  *)
(* connect reads the row without a lock, the session is stored whole before *)
(* the commit, in the transaction of the handler.  The first write of a     *)
(* request takes the only write lock, until its commit or rollback.         *)
EXTENDS Sessions

VARIABLES
  table,  \* the committed rows of web2py_session, and the last id given
  work,   \* the same as the holder of the write lock sees them
  writer  \* the holder of the write lock, or NoRequest

tableVars == <<table, work, writer>>
dbVars == <<sessionVars, tableVars>>

FreshKey(r, n) == <<r, n>>   \* a web2py_uuid
Matches(rows, sid) == sid # NoId /\ sid[1] \in DOMAIN rows /\ rows[sid[1]].unique_key = sid[2]

DbInit ==
  /\ SessionInit
  /\ table = [rows |-> <<>>, last |-> 0]
  /\ work = table
  /\ writer = NoRequest

(* The first write takes the lock; work is table while nobody has it.       *)
CanWrite(r) == writer \in {r, NoRequest}
Write(r, after) == writer' = r /\ work' = after /\ UNCHANGED table

-----------------------------------------------------------------------------
(* connect *)
Connect(r) ==
  LET sid == req[r].sid
  IN /\ IsAt(r, "connect")
     /\ Change(r, IF Matches(table.rows, sid)
                  THEN LET s == table.rows[sid[1]].session_data
                       IN [req[r] EXCEPT !.pc = "handle", !.handle = sid[1],
                                         !.loaded = s, !.session = s]
                  ELSE [req[r] EXCEPT !.pc = "handle", !.sid = NoId, !.new = TRUE])
     /\ UNCHANGED <<visit, cookie, tableVars>>

(* The handler of a form writes when it accepts, that of a login or logout  *)
(* logs the event.                                                          *)
Answered(r, pc) == [req[r] EXCEPT !.pc = pc, !.session = Handled(r), !.accepted = Accepts(r)]

HandleReading(r) ==
  /\ IsAt(r, "handle") /\ req[r].op \in {"look", "visit", "form", "download"} /\ ~Accepts(r)
  /\ Change(r, Answered(r, "store"))
  /\ UNCHANGED <<visit, cookie, tableVars>>

HandleForm(r) ==
  /\ IsAt(r, "handle") /\ Accepts(r) /\ CanWrite(r)
  /\ Change(r, Answered(r, "store"))
  /\ Write(r, work)
  /\ UNCHANGED <<visit, cookie>>

(* Mutant of HandleClear: the row stays. *)
HandleClearNothing(r) ==
  /\ IsAt(r, "handle") /\ req[r].op \in {"logout", "restart"} /\ CanWrite(r)
  /\ Change(r, [Answered(r, "store") EXCEPT !.new = @ \/ req[r].op = "logout",
                                            !.handle = IF req[r].op = "logout" THEN NoHandle ELSE @])
  /\ Write(r, work)
  /\ UNCHANGED <<visit, cookie>>

(* clear deletes the row, whatever its key; renew, that logout calls next,  *)
(* finds no row and makes the session new.                                  *)
HandleClear(r) ==
  /\ IsAt(r, "handle") /\ req[r].op \in {"logout", "restart"} /\ CanWrite(r)
  /\ Change(r, [Answered(r, "store") EXCEPT !.new = @ \/ req[r].op = "logout"])
  /\ Write(r, IF req[r].sid = NoId THEN work
              ELSE [work EXCEPT !.rows = [i \in DOMAIN @ \ {req[r].sid[1]} |-> @[i]]])
  /\ UNCHANGED <<visit, cookie>>

(* renew: a session that is not new gets a new key if its row still has the *)
(* old one; the row is read before the update takes the lock.               *)
HandleLogin(r) ==
  /\ IsAt(r, "handle") /\ req[r].op = "login"
  /\ Change(r, IF req[r].new THEN Answered(r, "log")
               ELSE IF Matches(table.rows, req[r].sid) THEN Answered(r, "rekey")
               ELSE [Answered(r, "log") EXCEPT !.new = TRUE])
  /\ UNCHANGED <<visit, cookie, tableVars>>

Rekey(r) ==
  LET i == req[r].sid[1]
      key == FreshKey(r, 1)
  IN /\ IsAt(r, "rekey") /\ CanWrite(r)
     /\ Change(r, [req[r] EXCEPT !.pc = "log", !.sid = <<i, key>>])
     /\ Write(r, IF i \in DOMAIN work.rows
                 THEN [work EXCEPT !.rows[i].unique_key = key] ELSE work)
     /\ UNCHANGED <<visit, cookie>>

(* log_event *)
LogEvent(r) ==
  /\ IsAt(r, "log") /\ CanWrite(r)
  /\ Change(r, [req[r] EXCEPT !.pc = "store"])
  /\ Write(r, work)
  /\ UNCHANGED <<visit, cookie>>

-----------------------------------------------------------------------------
(* _try_store_in_db: the whole row, or a new one where it is gone.  The     *)
(* cookie is only told of a new row.                                        *)
ToStore(r) == req[r].op # "download" /\ (req[r].new \/ ~Unchanged(r))

WithRow(rows, i, key, s) ==
  [j \in DOMAIN rows \cup {i} |->
     IF j = i THEN [unique_key |-> key, session_data |-> s] ELSE rows[j]]

(* Mutant of Stored: the browser is not told of a new row. *)
StoredUntold(r, base) ==
  LET there == req[r].handle \in DOMAIN base.rows
      i == IF there THEN req[r].handle ELSE base.last + 1
      key == IF req[r].new THEN FreshKey(r, 2) ELSE req[r].sid[2]
  IN [tables |-> [rows |-> WithRow(base.rows, i, key, req[r].session),
                  last |-> IF there THEN base.last ELSE i],
      sid |-> req[r].sid]

Stored(r, base) ==
  LET there == req[r].handle \in DOMAIN base.rows
      i == IF there THEN req[r].handle ELSE base.last + 1
      key == IF req[r].new THEN FreshKey(r, 2) ELSE req[r].sid[2]
  IN [tables |-> [rows |-> WithRow(base.rows, i, key, req[r].session),
                  last |-> IF there THEN base.last ELSE i],
      sid |-> IF there THEN req[r].sid ELSE <<i, key>>]

DbStore(r) ==
  LET stored == Stored(r, work)
  IN /\ IsAt(r, "store") /\ ToStore(r) /\ CanWrite(r)
     /\ Write(r, stored.tables)
     /\ Change(r, [req[r] EXCEPT !.pc = "commit", !.sid = stored.sid])
     /\ UNCHANGED <<visit, cookie>>

DbStoreNothing(r) ==
  /\ IsAt(r, "store") /\ ~ToStore(r)
  /\ Change(r, [req[r] EXCEPT !.pc = "commit"])
  /\ UNCHANGED <<visit, cookie, tableVars>>

Release(r) == writer' = IF writer = r THEN NoRequest ELSE writer

DbCommit(r) ==
  /\ IsAt(r, "commit")
  /\ table' = IF writer = r THEN work ELSE table
  /\ Release(r)
  /\ Change(r, [req[r] EXCEPT !.pc = "done", !.status = "ok", !.committed = TRUE])
  /\ UNCHANGED <<visit, cookie, work>>

(* An exception, one of waiting for the lock too long too, rolls back.      *)
DbFail(r) ==
  /\ visit.fails /\ InProgress(r) /\ req[r].pc \notin {"connect", "done"}
  /\ Release(r)
  /\ work' = IF writer = r THEN table ELSE work
  /\ Change(r, [req[r] EXCEPT !.pc = "done", !.status = "error"])
  /\ UNCHANGED <<visit, cookie, table>>

DbCrash ==
  /\ visit.crashes > 0
  /\ \E r \in Request : InProgress(r)
  /\ visit' = [visit EXCEPT !.crashes = @ - 1]
  /\ req' = [r \in Request |-> IF InProgress(r) THEN [req[r] EXCEPT !.pc = "dead"] ELSE req[r]]
  /\ writer' = NoRequest
  /\ work' = table
  /\ UNCHANGED <<cookie, table>>

DbStep(r) ==
  \/ Connect(r) \/ HandleReading(r) \/ HandleForm(r) \/ HandleClear(r)
  \/ HandleLogin(r) \/ Rekey(r) \/ LogEvent(r)
  \/ DbStore(r) \/ DbStoreNothing(r) \/ DbCommit(r)

DbNext ==
  \/ \E r \in Request :
       \/ /\ \E b \in Browser, op \in visit.ops, key \in Request \cup {NoRequest} :
               Send(r, b, op, key, "connect")
          /\ UNCHANGED tableVars
       \/ DbStep(r) \/ DbFail(r)
       \/ Receive(r) /\ UNCHANGED tableVars
  \/ DbCrash

DbSpec == DbInit /\ [][DbNext]_dbVars

-----------------------------------------------------------------------------
ContentOf(sid) == IF Matches(table.rows, sid) THEN table.rows[sid[1]].session_data ELSE Blank

(* A form a patient browser submits again, after an error or a crash too,   *)
(* is accepted once: its key is used up in the transaction of its handler.  *)
DbAcceptedOnce ==
  visit.patient =>
    \A r, s \in Request :
      /\ req[r].accepted /\ req[r].committed /\ req[s].accepted /\ req[s].committed
      /\ req[r].key = req[s].key
      => r = s

(* No session has the login of a patient browser after its logout.          *)
DbLogoutIsFinal ==
  visit.patient =>
    \A r \in Request, i \in DOMAIN table.rows :
      req[r].op = "logout" /\ req[r].committed /\ req[r].loaded.auth # NoRequest
        => table.rows[i].session_data.auth # req[r].loaded.auth

(* A patient browser is told the id of the session as its request left it,  *)
(* whether the row was updated, given a new key, deleted or made again.     *)
SessionsAreFound ==
  visit.patient =>
    \A r \in Request :
      IsAt(r, "done") /\ req[r].status = "ok" /\ req[r].op # "download"
        => ContentOf(req[r].sid) = req[r].session
=============================================================================
