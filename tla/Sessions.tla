------------------------------ MODULE Sessions ------------------------------
(* What a request does to its session (gluon/globals.py, Session), wherever *)
(* sessions are kept: FileSessions and DbSessions say how it is loaded and  *)
(* stored.  Browsers send the session id they were told last, several       *)
(* requests at a time unless they are patient, and are answered in any      *)
(* order.                                                                   *)
EXTENDS Integers, Sequences, FiniteSets

CONSTANTS
  Browser,
  Request, NoRequest,
  Kept,     \* how many keys of a form a session keeps: 10 in the code
  Visits    \* what browsers may do, and what may happen to their requests

ASSUME RequestAssumption == NoRequest \notin Request
ASSUME KeptAssumption == Kept \in Nat \ {0}

VARIABLES
  visit,   \* a member of Visits
  cookie,  \* cookie[b]: the session id browser b sends
  req      \* where each request is, its response object and its session

sessionVars == <<visit, cookie, req>>

(* look reads the session, visit changes it, form shows a form and may      *)
(* answer one shown before, login and logout are those of Auth, restart     *)
(* calls session.clear() and goes on, download calls session.forget().      *)
SessionOp == {"look", "visit", "form", "login", "logout", "restart", "download"}
Visit == [ops : SUBSET SessionOp, patient : BOOLEAN, fails : BOOLEAN, crashes : Nat]
ASSUME VisitsAssumption == Visits \subseteq Visit

(* A session: the login it is from, the keys of the forms it has shown, and *)
(* the requests that have left something else in it.                        *)
Blank == [auth |-> NoRequest, keys |-> <<>>, seen |-> {}]

(* A session id is the request that made it and a number, or nothing. *)
NoId == <<>>
NoHandle == 0

(* Of a request: sid and new are session_id and session_new of its response *)
(* object, handle its session_file or its record, loaded the session as     *)
(* connect has found it and session as it is now.                           *)
NotSent == [pc |-> "idle", browser |-> NoRequest, op |-> "look", key |-> NoRequest,
            sent |-> NoId, sid |-> NoId, new |-> FALSE, handle |-> NoHandle,
            locked |-> FALSE, loaded |-> Blank, session |-> Blank,
            accepted |-> FALSE, committed |-> FALSE, status |-> "none"]

SessionInit ==
  /\ visit \in Visits
  /\ cookie = [b \in Browser |-> NoId]
  /\ req = [r \in Request |-> NotSent]

IsAt(r, pc) == req[r].pc = pc
InProgress(r) == req[r].pc \notin {"idle", "sent", "answered", "dead"}
Change(r, record) == req' = [req EXCEPT ![r] = record]

-----------------------------------------------------------------------------
(* The keys of the forms that browser b shows. *)
Shown(b) == {r \in Request : /\ req[r].browser = b /\ IsAt(r, "answered")
                             /\ req[r].op = "form" /\ req[r].status = "ok"}

Awaiting(b) == \E r \in Request : req[r].browser = b /\ req[r].pc \notin {"answered", "dead"}

Send(r, b, op, key, first) ==
  /\ IsAt(r, "idle")
  /\ visit.patient => ~Awaiting(b)
  /\ key = NoRequest \/ (op = "form" /\ key \in Shown(b))
  /\ Change(r, [NotSent EXCEPT !.pc = first, !.browser = b, !.op = op, !.key = key,
                               !.sent = cookie[b], !.sid = cookie[b]])
  /\ UNCHANGED <<visit, cookie>>

(* The cookie of the answer is that of the response object; there is none   *)
(* after an exception or forget.                                            *)
Receive(r) ==
  /\ IsAt(r, "done")
  /\ Change(r, [req[r] EXCEPT !.pc = "answered"])
  /\ cookie' = IF req[r].status = "ok" /\ req[r].op # "download"
               THEN [cookie EXCEPT ![req[r].browser] = req[r].sid] ELSE cookie
  /\ UNCHANGED visit

-----------------------------------------------------------------------------
(* FORM.accepts *)
Has(keys, k) == \E i \in DOMAIN keys : keys[i] = k
First(keys, k) ==
  CHOOSE i \in DOMAIN keys : keys[i] = k /\ \A j \in 1 .. (i - 1) : keys[j] # k
Without(keys, k) ==
  IF Has(keys, k)
  THEN SubSeq(keys, 1, First(keys, k) - 1) \o SubSeq(keys, First(keys, k) + 1, Len(keys))
  ELSE keys
Last(keys, n) == IF Len(keys) <= n THEN keys ELSE SubSeq(keys, Len(keys) - n + 1, Len(keys))

(* Mutant of KeysAfter: the key is not taken out of the list. *)
KeysAfterKept(keys, posted, new) == Append(Last(keys, Kept - 1), new)

(* session[keyname] after accepts: without the key posted, with a new one. *)
KeysAfter(keys, posted, new) == Append(Last(Without(keys, posted), Kept - 1), new)

(* What the handler of r makes of its session. *)
Handled(r) ==
  LET s == req[r].session
  IN CASE req[r].op = "visit" -> [s EXCEPT !.seen = @ \cup {r}]
       [] req[r].op = "form" -> [s EXCEPT !.keys = KeysAfter(@, req[r].key, r)]
       [] req[r].op = "login" -> [s EXCEPT !.auth = r]
       [] req[r].op \in {"logout", "restart"} -> [Blank EXCEPT !.seen = {r}]
       [] OTHER -> s

Accepts(r) == req[r].op = "form" /\ Has(req[r].session.keys, req[r].key)

(* _unchanged *)
Unchanged(r) == req[r].session = IF req[r].new THEN Blank ELSE req[r].loaded
=============================================================================
