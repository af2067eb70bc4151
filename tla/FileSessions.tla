---------------------------- MODULE FileSessions ----------------------------
(* Sessions in files: connect opens the file and takes its lock, which is   *)
(* kept until the session is stored, after the database has committed.      *)
(* A file that is unlinked lives on for the requests that have it open.     *)
EXTENDS Sessions

VARIABLES
  files,  \* the content of every session file, also of those unlinked, in order
  names   \* names[sid]: the file of a session id that has one

fileVars == <<sessionVars, files, names>>

Emptied == <<>>

FileInit ==
  /\ SessionInit
  /\ files = <<>>
  /\ names = <<>>

Held(i) == \E r \in Request : req[r].locked /\ req[r].handle = i
Named(i) == \E sid \in DOMAIN names : names[sid] = i
NewId(r, n) == <<r, n>>

(* Without its file: what _close leaves. *)
Closed(record) == [record EXCEPT !.handle = NoHandle, !.locked = FALSE]

-----------------------------------------------------------------------------
(* connect: a session id that names no file is replaced by a new one.       *)
OpenSession(r) ==
  /\ IsAt(r, "connect")
  /\ Change(r, IF req[r].sid \in DOMAIN names
               THEN [req[r] EXCEPT !.pc = "lock", !.handle = names[req[r].sid]]
               ELSE [req[r] EXCEPT !.pc = "handle", !.sid = NewId(r, 1), !.new = TRUE])
  /\ UNCHANGED <<visit, cookie, files, names>>

(* Mutant of Lock: the session is read without waiting for the lock. *)
LoadUnlocked(r) ==
  /\ IsAt(r, "lock")
  /\ Change(r, IF files[req[r].handle] = Emptied
               THEN [req[r] EXCEPT !.pc = "handle", !.sid = NewId(r, 1), !.new = TRUE]
               ELSE LET s == files[req[r].handle][1]
                    IN [req[r] EXCEPT !.pc = "handle", !.loaded = s, !.session = s])
  /\ UNCHANGED <<visit, cookie, files, names>>

(* Where nothing can be loaded the id is also new, and the lock is kept.    *)
Lock(r) ==
  /\ IsAt(r, "lock") /\ ~Held(req[r].handle)
  /\ Change(r, IF files[req[r].handle] = Emptied
               THEN [req[r] EXCEPT !.pc = "handle", !.locked = TRUE,
                                   !.sid = NewId(r, 1), !.new = TRUE]
               ELSE LET s == files[req[r].handle][1]
                    IN [req[r] EXCEPT !.pc = "handle", !.locked = TRUE,
                                      !.loaded = s, !.session = s])
  /\ UNCHANGED <<visit, cookie, files, names>>

(* Mutant of Clears: a logout leaves the file. *)
ClearsOfRestart(r) == req[r].op = "restart"

(* The handlers that call clear, renew and forget; each of the three closes *)
(* the file, clear unlinks it too.                                          *)
Clears(r) == req[r].op \in {"logout", "restart"}
Renews(r) == req[r].op \in {"login", "logout"}

Handle(r) ==
  LET after == [req[r] EXCEPT !.pc = "commit", !.session = Handled(r),
                              !.accepted = Accepts(r)]
  IN /\ IsAt(r, "handle")
     /\ Change(r, IF Renews(r)
                  THEN [Closed(after) EXCEPT !.sid = NewId(r, 2), !.new = TRUE]
                  ELSE IF req[r].op \in {"restart", "download"} THEN Closed(after)
                  ELSE after)
     /\ names' = IF Clears(r) THEN [sid \in DOMAIN names \ {req[r].sid} |-> names[sid]]
                 ELSE names
     /\ UNCHANGED <<visit, cookie, files>>

(* An exception of the handler: the file is closed as it is. *)
FailHandler(r) ==
  /\ visit.fails
  /\ req[r].pc \in {"handle", "commit"}
  /\ Change(r, [Closed(req[r]) EXCEPT !.pc = "done", !.status = "error"])
  /\ UNCHANGED <<visit, cookie, files, names>>

(* The database is committed first. *)
CommitFirst(r) ==
  /\ IsAt(r, "commit")
  /\ Change(r, [req[r] EXCEPT !.pc = "store", !.committed = TRUE])
  /\ UNCHANGED <<visit, cookie, files, names>>

StoredIn(r) == [Closed(req[r]) EXCEPT !.pc = "done", !.status = "ok"]

(* _try_store_in_file: nothing to store, ... *)
StoreNothing(r) ==
  /\ IsAt(r, "store") /\ (Unchanged(r) \/ req[r].op = "download")
  /\ Change(r, StoredIn(r))
  /\ UNCHANGED <<visit, cookie, files, names>>

(* ...a file that is open and locked, ... *)
Overwrite(r) ==
  /\ IsAt(r, "store") /\ ~Unchanged(r) /\ req[r].op # "download"
  /\ ~req[r].new /\ req[r].handle # NoHandle
  /\ files' = [files EXCEPT ![req[r].handle] = <<req[r].session>>]
  /\ Change(r, StoredIn(r))
  /\ UNCHANGED <<visit, cookie, names>>

(* ...or one to open for writing, which empties a file of this name... *)
OpenForStore(r) ==
  LET sid == req[r].sid
      there == sid \in DOMAIN names
      i == IF there THEN names[sid] ELSE Len(files) + 1
  IN /\ IsAt(r, "store") /\ ~Unchanged(r) /\ req[r].op # "download"
     /\ req[r].new \/ req[r].handle = NoHandle
     /\ files' = IF there THEN [files EXCEPT ![i] = Emptied] ELSE Append(files, Emptied)
     /\ names' = [id \in DOMAIN names \cup {sid} |-> IF id = sid THEN i ELSE names[id]]
     /\ Change(r, [Closed(req[r]) EXCEPT !.pc = "write", !.handle = i])
     /\ UNCHANGED <<visit, cookie>>

(* ...before its lock is taken. *)
WriteNew(r) ==
  /\ IsAt(r, "write") /\ ~Held(req[r].handle)
  /\ files' = [files EXCEPT ![req[r].handle] = <<req[r].session>>]
  /\ Change(r, StoredIn(r))
  /\ UNCHANGED <<visit, cookie, names>>

FileStep(r) ==
  \/ OpenSession(r) \/ Lock(r) \/ Handle(r) \/ CommitFirst(r)
  \/ StoreNothing(r) \/ Overwrite(r) \/ OpenForStore(r) \/ WriteNew(r)

FileCrash ==
  /\ visit.crashes > 0
  /\ \E r \in Request : InProgress(r)
  /\ visit' = [visit EXCEPT !.crashes = @ - 1]
  /\ req' = [r \in Request |-> IF InProgress(r) THEN [Closed(req[r]) EXCEPT !.pc = "dead"]
                               ELSE req[r]]
  /\ UNCHANGED <<cookie, files, names>>

FileNext ==
  \/ \E r \in Request :
       \/ /\ \E b \in Browser, op \in visit.ops, key \in Request \cup {NoRequest} :
               Send(r, b, op, key, "connect")
          /\ UNCHANGED <<files, names>>
       \/ FileStep(r) \/ FailHandler(r)
       \/ Receive(r) /\ UNCHANGED <<files, names>>
  \/ FileCrash

FileSpec == FileInit /\ [][FileNext]_fileVars

-----------------------------------------------------------------------------
(* A form that a session has shown is accepted once in this session,        *)
(* however often and however fast it is submitted, unless the server dies   *)
(* between the commit and the store.                                        *)
AcceptedOnce ==
  (\A r \in Request : ~IsAt(r, "dead")) =>
    \A r, s \in Request :
      /\ req[r].accepted /\ req[r].committed /\ req[s].accepted /\ req[s].committed
      /\ req[r].key = req[s].key /\ req[r].sent = req[s].sent
      => r = s

(* Nothing that a request has left in a session is lost when another        *)
(* request that runs at the same time stores it, unless that one clears it  *)
(* under the same session id.                                               *)
SessionsOnlyGrow ==
  [][\A i \in DOMAIN files :
       files[i] # Emptied /\ files'[i] # Emptied /\ "restart" \notin visit.ops
         => files[i][1].seen \subseteq files'[i][1].seen]_fileVars

(* After a logout no session file has its login any more, also when other   *)
(* requests of the browser were waiting for the lock.                       *)
LogoutIsFinal ==
  \A r \in Request, i \in DOMAIN files :
    /\ req[r].op = "logout" /\ r \in req[r].session.seen
    /\ req[r].loaded.auth # NoRequest
    /\ files[i] # Emptied /\ Named(i)
    => files[i][1].auth # req[r].loaded.auth
=============================================================================
