-------------------------- MODULE DbSessionProofs ---------------------------
(* Theorems about DbSessions, for any number of browsers and requests,      *)
(* every mix of what they do, of failures and crashes. The lemmas about     *)
(* Sessions are those of FileSessionProofs.                                 *)
EXTENDS FileSessionProofs, DbSessions

(* The table, and the requests that write it. *)

(* Keys of rows, session ids, rows, and where a request may have written. *)
Key == Request \X {1, 2}
DbId == Nat \X Key
Row == [unique_key : Key, session_data : Session]
Storing == {"rekey", "log", "store", "commit"}
Clearing == {"logout", "restart"}

DbRecord ==
  [pc : {"idle", "connect", "handle"} \cup Storing \cup Lasting,
   browser : Browser \cup {NoRequest}, op : SessionOp, key : Request \cup {NoRequest},
   sent : DbId \cup {NoId}, sid : DbId \cup {NoId}, new : BOOLEAN, handle : Nat,
   locked : BOOLEAN, loaded : Session, session : Session,
   accepted : BOOLEAN, committed : BOOLEAN, status : {"none", "ok", "error"}]

IsTable(t) ==
  /\ t = [rows |-> t.rows, last |-> t.last]
  /\ t.last \in Nat
  /\ DOMAIN t.rows \subseteq 1 .. t.last
  /\ \A i \in DOMAIN t.rows : t.rows[i] \in Row

DbTypes ==
  /\ visit \in Visit
  /\ cookie \in [Browser -> DbId \cup {NoId}]
  /\ req \in [Request -> DbRecord]
  /\ IsTable(table) /\ IsTable(work) /\ table.last <= work.last
  /\ writer \in Request \cup {NoRequest}
  /\ writer = NoRequest => work = table
  /\ \A q \in Request :
       /\ req[q].pc \in {"handle"} \cup Storing /\ ~req[q].new => req[q].sid \in DbId
       /\ IsAt(q, "rekey") => ~req[q].new

(* What a request sees of the table in its own transaction. *)
View(q) == IF writer = q THEN work ELSE table

(* How far request q has come, and what it has made of its session. *)
Progress(q) ==
  LET c == req[q] IN
  /\ c.pc \in {"idle", "connect", "handle"} => c.session = c.loaded /\ ~c.accepted
  /\ c.pc \in {"idle", "connect"} => ~c.new /\ c.loaded = Blank /\ c.handle = NoHandle
  /\ c.pc = "handle" /\ c.new => c.loaded = Blank /\ c.sid = NoId /\ c.handle = NoHandle
  /\ c.pc \in {"rekey", "log"} => c.op = "login"
  /\ c.pc \notin Lasting => ~c.committed
  /\ writer = q => c.pc \in {"log", "store", "commit"}
  /\ c.accepted => Has(c.loaded.keys, c.key)
  /\ c.pc \in Storing =>
       /\ c.op \in Clearing => Cleared(c.session, q) /\ writer = q
       /\ c.session.auth \in {c.loaded.auth, NoRequest, q}
       /\ \A k \in Request : Has(c.session.keys, k) => Has(c.loaded.keys, k) \/ k = q
       /\ c.session.seen \subseteq c.loaded.seen \cup {q}
       /\ Distinct(c.session.keys)
       /\ c.accepted => /\ c.op = "form" /\ ~c.new /\ writer = q
                        /\ ~Has(c.session.keys, c.key) /\ Has(c.session.keys, q)

(* The row of a session id, and what is in it.                              *)
Finds(rows, sid, s) == Matches(rows, sid) /\ rows[sid[1]].session_data = s

(* The row that a request has loaded stays as it is until the request       *)
(* itself deletes it or writes it; what it has stored is there until it is  *)
(* answered.                                                                *)
Holds(c) ==
  \/ c.pc = "handle" /\ ~c.new
  \/ c.pc = "rekey"
  \/ c.pc = "log" /\ ~c.new
  \/ c.pc = "store" /\ ~c.new /\ c.op \notin Clearing
Left(c) == c.op # "download" /\ (c.pc = "commit" \/ (c.pc = "done" /\ c.status = "ok"))
RowIs(c, rows) ==
  /\ Holds(c) => Finds(rows, c.sid, c.loaded) /\ c.handle = c.sid[1]
  /\ c.pc \in {"log", "store"} /\ c.new
     => c.op = "logout" \/ (c.loaded = Blank /\ c.sid = NoId /\ c.handle = NoHandle)
  /\ c.pc = "store" /\ (c.new \/ c.op \in Clearing) => c.handle \notin DOMAIN rows
  /\ Left(c) => Finds(rows, c.sid, c.session)
RowOK(q) == RowIs(req[q], View(q).rows)

(* A browser has one request at a time, and its own keys. *)
Solo ==
  \A q, r \in Request :
    /\ req[q].pc \notin {"idle", "answered", "dead"}
    /\ req[r].pc \notin {"idle", "answered", "dead"}
    /\ req[q].browser = req[r].browser
    => q = r
MadeFor(key, b) == ~IsAt(key[1], "idle") /\ req[key[1]].browser = b
KeysOK ==
  /\ \A b \in Browser : cookie[b] # NoId => MadeFor(cookie[b][2], b)
  /\ \A q \in Request : ~IsAt(q, "idle") /\ req[q].sid # NoId
         => MadeFor(req[q].sid[2], req[q].browser)
  /\ \A i \in DOMAIN table.rows : ~IsAt(table.rows[i].unique_key[1], "idle")
  /\ \A i \in DOMAIN work.rows : ~IsAt(work.rows[i].unique_key[1], "idle")

(* The writer has changed rows of its own browser only. *)
SameRow(i) ==
  /\ i \in DOMAIN table.rows <=> i \in DOMAIN work.rows
  /\ i \in DOMAIN table.rows => table.rows[i] = work.rows[i]
Separate ==
  \A i \in Nat :
    \/ SameRow(i)
    \/ /\ writer # NoRequest
       /\ i \in DOMAIN table.rows => MadeFor(table.rows[i].unique_key, req[writer].browser)
       /\ i \in DOMAIN work.rows => MadeFor(work.rows[i].unique_key, req[writer].browser)

(* Whoever has left traces in a row is over, or has just stored it; the     *)
(* traces of a request are in one row.                                      *)
DbFresh ==
  /\ \A i \in DOMAIN table.rows, q \in Request :
       Traces(table.rows[i].session_data, q) => Finished(q)
  /\ \A i \in DOMAIN work.rows, q \in Request :
       Traces(work.rows[i].session_data, q) => Finished(q) \/ (writer = q /\ IsAt(q, "commit"))
  /\ \A r, q \in Request : Traces(req[r].loaded, q) => Finished(q) /\ q # r
  /\ \A r \in Request : Distinct(req[r].loaded.keys)
  /\ \A i \in DOMAIN table.rows : Distinct(table.rows[i].session_data.keys)
  /\ \A i \in DOMAIN work.rows : Distinct(work.rows[i].session_data.keys)
OneRow(t) ==
  \A i, j \in DOMAIN t.rows, q \in Request :
    Traces(t.rows[i].session_data, q) /\ Traces(t.rows[j].session_data, q) => i = j

(* A key and a login that are nowhere in table t; keys that are used up,    *)
(* and logins that have ended.                                              *)
NoKey(t, k) == \A i \in DOMAIN t.rows : ~Has(t.rows[i].session_data.keys, k)
NoLogin(t, l) == \A i \in DOMAIN t.rows : t.rows[i].session_data.auth # l
DbUsed(r) == req[r].accepted /\ req[r].committed
DbLoggedOut(r) == req[r].op = "logout" /\ req[r].loaded.auth # NoRequest

(* A key that is used up is in no row, and is used up once. *)
KeysGone ==
  /\ \A r \in Request : DbUsed(r) => NoKey(table, req[r].key) /\ NoKey(work, req[r].key)
  /\ \A r \in Request : req[r].accepted /\ IsAt(r, "commit") => NoKey(work, req[r].key)
  /\ \A r, s \in Request : /\ req[r].accepted /\ req[r].pc \in {"store", "commit"}
                           /\ DbUsed(s)
                           => req[r].key # req[s].key
  /\ \A r, s \in Request : DbUsed(r) /\ DbUsed(s) /\ req[r].key = req[s].key => r = s
(* A login that has ended is in no row. *)
LoginsGone ==
  /\ \A r \in Request : DbLoggedOut(r) /\ req[r].committed =>
       NoLogin(table, req[r].loaded.auth) /\ NoLogin(work, req[r].loaded.auth)
  /\ \A r \in Request : DbLoggedOut(r) /\ req[r].pc \in {"store", "commit"} =>
       NoLogin(work, req[r].loaded.auth)

(* What holds where browsers wait for their answers. *)
Patient ==
  /\ \A q \in Request : RowOK(q)
  /\ Solo /\ KeysOK /\ Separate /\ OneRow(table) /\ OneRow(work) /\ KeysGone /\ LoginsGone

DbInv ==
  /\ DbTypes
  /\ \A q \in Request : Progress(q)
  /\ DbFresh
  /\ visit.patient => Patient

(* A session id has the number of a row and its key, which names the        *)
(* request that made it.                                                    *)
LEMMA DbIdFacts ==
  /\ NoId \notin DbId
  /\ \A i \in Nat, r \in Request, n \in {1, 2} :
       <<i, <<r, n>>>> \in DbId /\ <<i, <<r, n>>>>[1] = i /\ <<i, <<r, n>>>>[2] = <<r, n>>
  /\ \A s \in DbId : s[1] \in Nat /\ s[2] \in Key /\ s[2][1] \in Request
  /\ \A k \in Key : k[1] \in Request
  /\ \A r \in Request, n \in {1, 2} : FreshKey(r, n) \in Key /\ FreshKey(r, n)[1] = r
BY DEF DbId, Key, NoId, FreshKey

(* Rows have numbers from 1 on, and their types. *)
LEMMA RowFacts ==
  ASSUME NEW t, IsTable(t)
  PROVE  /\ NoHandle \notin DOMAIN t.rows
         /\ \A i \in DOMAIN t.rows :
              /\ i \in Nat /\ i <= t.last /\ t.rows[i].unique_key \in Key
              /\ t.rows[i].session_data \in Session
BY DEF IsTable, Row, NoHandle

(* A table without a row, and with another key of a row. *)
WithoutRow(t, i) == [t EXCEPT !.rows = [j \in DOMAIN @ \ {i} |-> @[j]]]
WithKey(t, i, key) == [t EXCEPT !.rows[i].unique_key = key]

(* A row deleted leaves the others. *)
LEMMA RowTaken ==
  ASSUME NEW t, IsTable(t), NEW i
  PROVE  /\ IsTable(WithoutRow(t, i)) /\ WithoutRow(t, i).last = t.last
         /\ DOMAIN WithoutRow(t, i).rows = DOMAIN t.rows \ {i}
         /\ \A j \in DOMAIN WithoutRow(t, i).rows : WithoutRow(t, i).rows[j] = t.rows[j]
<1> DEFINE rows == [j \in DOMAIN t.rows \ {i} |-> t.rows[j]]
           u == [t EXCEPT !.rows = rows]
<1>1. /\ DOMAIN rows = DOMAIN t.rows \ {i} /\ \A j \in DOMAIN rows : rows[j] = t.rows[j]
  OBVIOUS
<1> HIDE DEF rows
<1>2. u = [rows |-> rows, last |-> t.last]
  BY DEF IsTable
<1> HIDE DEF u
<1>3. u.rows = rows /\ u.last = t.last
  BY <1>2
<1>4. IsTable(u)
  BY <1>1, <1>2, <1>3 DEF IsTable
<1>5. u = WithoutRow(t, i)
  BY DEF u, rows, WithoutRow
<1> QED BY <1>1, <1>3, <1>4, <1>5

(* A row with another key has the same session. *)
LEMMA RowRekeyed ==
  ASSUME NEW t, IsTable(t), NEW i \in DOMAIN t.rows, NEW key \in Key
  PROVE  LET u == WithKey(t, i, key)
         IN /\ IsTable(u) /\ u.last = t.last /\ DOMAIN u.rows = DOMAIN t.rows
            /\ u.rows[i].unique_key = key /\ u.rows[i].session_data = t.rows[i].session_data
            /\ \A j \in DOMAIN t.rows : j # i => u.rows[j] = t.rows[j]
<1> DEFINE row == [t.rows[i] EXCEPT !.unique_key = key]
           rows == [t.rows EXCEPT ![i] = row]
           u == [t EXCEPT !.rows = rows]
<1>1. row \in Row /\ row.unique_key = key /\ row.session_data = t.rows[i].session_data
  BY DEF IsTable, Row
<1> HIDE DEF row
<1>2. DOMAIN rows = DOMAIN t.rows /\ rows[i] = row
      /\ \A j \in DOMAIN t.rows : j # i => rows[j] = t.rows[j]
  OBVIOUS
<1> HIDE DEF rows
<1>3. u = [rows |-> rows, last |-> t.last]
  BY DEF IsTable
<1> HIDE DEF u
<1>4. u.rows = rows /\ u.last = t.last
  BY <1>3
<1>5. IsTable(u)
  BY <1>1, <1>2, <1>3, <1>4 DEF IsTable
<1>6. u = WithKey(t, i, key)
  BY DEF u, rows, row, WithKey
<1> QED BY <1>1, <1>2, <1>4, <1>5, <1>6

(* A record of the right type is written for one request. *)
LEMMA DbRecordChanged ==
  ASSUME req \in [Request -> DbRecord], NEW r \in Request,
         NEW record \in DbRecord, Change(r, record)
  PROVE  req' \in [Request -> DbRecord] /\ req'[r] = record /\ Others(r)
BY DEF Change, Others

(* The fields of the record that each action leaves. *)
LEMMA DbSendRecord ==
  ASSUME DbTypes, NEW r \in Request, NEW b \in Browser, NEW op \in visit.ops,
         NEW key \in Request \cup {NoRequest}, Send(r, b, op, key, "connect")
  PROVE  /\ req' \in [Request -> DbRecord] /\ Others(r) /\ IsAt(r, "idle")
         /\ LET d == req'[r]
            IN /\ d.pc = "connect" /\ d.browser = b /\ d.op = op /\ d.key = key
               /\ d.sent = cookie[b] /\ d.sid = cookie[b] /\ ~d.new /\ d.handle = NoHandle
               /\ ~d.locked /\ d.loaded = Blank /\ d.session = Blank
               /\ ~d.accepted /\ ~d.committed /\ d.status = "none"
<1> DEFINE d == [NotSent EXCEPT !.pc = "connect", !.browser = b, !.op = op, !.key = key,
                                !.sent = cookie[b], !.sid = cookie[b]]
<1>1. op \in SessionOp /\ cookie[b] \in DbId \cup {NoId}
  BY DEF DbTypes, Visit
<1>2. /\ d \in DbRecord
      /\ d.pc = "connect" /\ d.browser = b /\ d.op = op /\ d.key = key
      /\ d.sent = cookie[b] /\ d.sid = cookie[b] /\ ~d.new /\ d.handle = NoHandle
      /\ ~d.locked /\ d.loaded = Blank /\ d.session = Blank
      /\ ~d.accepted /\ ~d.committed /\ d.status = "none"
  BY <1>1, BlankType DEF NotSent, DbRecord, NoHandle
<1>3. Change(r, d) /\ IsAt(r, "idle") /\ req \in [Request -> DbRecord]
  BY DEF Send, DbTypes
<1> HIDE DEF d
<1> QED BY <1>2, <1>3, DbRecordChanged

(* Further, with the same session. *)
Moves(c, d) ==
  /\ SameRequest(c, d) /\ d.handle = c.handle /\ d.loaded = c.loaded
  /\ d.session = c.session /\ d.accepted = c.accepted

(* Receive: the request is answered and its record stays. *)
LEMMA DbReceiveRecord ==
  ASSUME DbTypes, NEW r \in Request, Receive(r)
  PROVE  /\ req' \in [Request -> DbRecord] /\ Others(r) /\ IsAt(r, "done")
         /\ req'[r].pc = "answered" /\ Moves(req[r], req'[r]) /\ req'[r].sid = req[r].sid
         /\ req'[r].new = req[r].new /\ req'[r].committed = req[r].committed
<1> DEFINE c == req[r]
           d == [c EXCEPT !.pc = "answered"]
<1>1. c \in DbRecord
  BY DEF DbTypes
<1>2. /\ d \in DbRecord /\ d.pc = "answered" /\ Moves(c, d) /\ d.sid = c.sid /\ d.new = c.new
      /\ d.committed = c.committed
  BY <1>1 DEF DbRecord, SameRequest, Moves, Lasting
<1>3. Change(r, d) /\ IsAt(r, "done") /\ req \in [Request -> DbRecord]
  BY DEF Receive, DbTypes
<1> HIDE DEF d
<1> QED BY <1>2, <1>3, DbRecordChanged

(* Connect: the session of the row that the id matches is loaded, or the    *)
(* session is new.                                                          *)
LEMMA ConnectRecord ==
  ASSUME DbTypes, NEW r \in Request, Connect(r)
  PROVE  /\ req' \in [Request -> DbRecord] /\ Others(r) /\ IsAt(r, "connect")
         /\ LET c == req[r]
                d == req'[r]
            IN /\ SameRequest(c, d) /\ d.accepted = c.accepted /\ d.committed = c.committed
               /\ d.pc = "handle"
               /\ \/ /\ Matches(table.rows, c.sid) /\ c.sid \in DbId
                     /\ d.handle = c.sid[1] /\ d.sid = c.sid /\ d.new = c.new
                     /\ d.loaded = table.rows[c.sid[1]].session_data
                     /\ d.session = table.rows[c.sid[1]].session_data
                  \/ /\ d.sid = NoId /\ d.new /\ d.handle = c.handle
                     /\ d.loaded = c.loaded /\ d.session = c.session
<1> DEFINE c == req[r]
           s == table.rows[c.sid[1]].session_data
<1>1. c \in DbRecord /\ req \in [Request -> DbRecord] /\ IsAt(r, "connect")
  BY DEF DbTypes, Connect
<1>2. CASE Matches(table.rows, c.sid)
  <2> DEFINE i == c.sid[1]
             d == [c EXCEPT !.pc = "handle", !.handle = i, !.loaded = s, !.session = s]
  <2>1. c.sid \in DbId /\ i \in Nat /\ s \in Session
    <3>1. c.sid \in DbId
      BY <1>1, <1>2 DEF Matches, DbRecord
    <3>2. i \in DOMAIN table.rows
      BY <1>2 DEF Matches
    <3>3. s \in Session
      BY <3>2, RowFacts DEF DbTypes
    <3> QED BY <3>1, <3>3, DbIdFacts
  <2>2. Change(r, d)
    BY <1>2 DEF Connect
  <2> HIDE DEF s, i
  <2>3. /\ d \in DbRecord
        /\ SameRequest(c, d) /\ d.accepted = c.accepted /\ d.committed = c.committed
        /\ d.pc = "handle" /\ d.handle = i /\ d.sid = c.sid /\ d.new = c.new
        /\ d.loaded = s /\ d.session = s
    BY <1>1, <2>1 DEF DbRecord, SameRequest
  <2> HIDE DEF d
  <2>4. req' \in [Request -> DbRecord] /\ req'[r] = d /\ Others(r)
    BY <1>1, <2>2, <2>3, DbRecordChanged
  <2> QED BY <1>1, <1>2, <2>1, <2>3, <2>4 DEF s, i
<1>3. CASE ~Matches(table.rows, c.sid)
  <2> DEFINE d == [c EXCEPT !.pc = "handle", !.sid = NoId, !.new = TRUE]
  <2>1. /\ d \in DbRecord
        /\ SameRequest(c, d) /\ d.accepted = c.accepted /\ d.committed = c.committed
        /\ d.pc = "handle" /\ d.sid = NoId /\ d.new /\ d.handle = c.handle
        /\ d.loaded = c.loaded /\ d.session = c.session
    BY <1>1 DEF DbRecord, SameRequest
  <2>2. Change(r, d)
    BY <1>3 DEF Connect
  <2> HIDE DEF d
  <2>3. req' \in [Request -> DbRecord] /\ req'[r] = d /\ Others(r)
    BY <1>1, <2>1, <2>2, DbRecordChanged
  <2> QED BY <1>1, <2>1, <2>3
<1> QED BY <1>2, <1>3

(* Any handler leaves what it made of the session. *)
LEMMA AnsweredRecord ==
  ASSUME DbTypes, NEW r \in Request, NEW pc \in {"store", "rekey", "log"}, Handled(r) \in Session
  PROVE  LET c == req[r]
             d == Answered(r, pc)
         IN /\ d \in DbRecord
            /\ SameRequest(c, d) /\ d.sid = c.sid /\ d.new = c.new /\ d.handle = c.handle
            /\ d.loaded = c.loaded /\ d.committed = c.committed
            /\ d.pc = pc /\ d.session = Handled(r) /\ d.accepted = Accepts(r)
<1>1. req[r] \in DbRecord
  BY DEF DbTypes
<1>2. Accepts(r) \in BOOLEAN
  BY DEF Accepts, Has
<1>3. pc \in {"idle", "connect", "handle"} \cup Storing \cup Lasting
  BY DEF Storing
<1> QED BY <1>1, <1>2, <1>3 DEF Answered, DbRecord, SameRequest

(* The answer of a handler that writes nothing, or nothing of its session.  *)
LEMMA HandleRecordDb ==
  ASSUME DbTypes, NEW r \in Request, Handled(r) \in Session,
         HandleReading(r) \/ HandleForm(r) \/ HandleClear(r) \/ HandleLogin(r)
  PROVE  /\ req' \in [Request -> DbRecord] /\ Others(r) /\ IsAt(r, "handle")
         /\ LET c == req[r]
                d == req'[r]
            IN /\ SameRequest(c, d) /\ d.sid = c.sid /\ d.handle = c.handle
               /\ d.loaded = c.loaded /\ d.committed = c.committed
               /\ d.session = Handled(r) /\ d.accepted = Accepts(r)
               /\ \/ /\ HandleReading(r) \/ HandleForm(r)
                     /\ d.pc = "store" /\ d.new = c.new
                  \/ /\ HandleClear(r)
                     /\ d.pc = "store" /\ d.new = (c.new \/ c.op = "logout")
                  \/ /\ HandleLogin(r)
                     /\ IF c.new THEN d.pc = "log" /\ d.new
                        ELSE IF Matches(table.rows, c.sid) THEN d.pc = "rekey" /\ ~d.new
                        ELSE d.pc = "log" /\ d.new
<1> DEFINE c == req[r]
           a(pc) == Answered(r, pc)
<1>1. c \in DbRecord /\ req \in [Request -> DbRecord] /\ IsAt(r, "handle")
  BY DEF DbTypes, HandleReading, HandleForm, HandleClear, HandleLogin
<1>2. ASSUME NEW pc \in {"store", "rekey", "log"}
      PROVE  /\ a(pc) \in DbRecord
             /\ SameRequest(c, a(pc)) /\ a(pc).sid = c.sid /\ a(pc).new = c.new
             /\ a(pc).handle = c.handle
             /\ a(pc).loaded = c.loaded /\ a(pc).committed = c.committed
             /\ a(pc).pc = pc /\ a(pc).session = Handled(r) /\ a(pc).accepted = Accepts(r)
  BY AnsweredRecord
<1> HIDE DEF a
<1>3. CASE HandleReading(r) \/ HandleForm(r)
  <2>1. Change(r, a("store"))
    BY <1>3 DEF HandleReading, HandleForm, a
  <2>2. a("store") \in DbRecord
    BY <1>2
  <2>3. req' \in [Request -> DbRecord] /\ req'[r] = a("store") /\ Others(r)
    BY <1>1, <2>1, <2>2, DbRecordChanged
  <2> QED BY <1>1, <1>2, <1>3, <2>3
<1>4. ASSUME NEW pc \in {"store", "rekey", "log"}, NEW new \in BOOLEAN,
             Change(r, [a(pc) EXCEPT !.new = new])
      PROVE  /\ req' \in [Request -> DbRecord] /\ Others(r)
             /\ LET d == req'[r]
                IN /\ SameRequest(c, d) /\ d.sid = c.sid /\ d.handle = c.handle
                   /\ d.loaded = c.loaded /\ d.committed = c.committed
                   /\ d.session = Handled(r) /\ d.accepted = Accepts(r)
                   /\ d.pc = pc /\ d.new = new
  <2> DEFINE e == a(pc)
             d == [e EXCEPT !.new = new]
  <2>1. /\ e \in DbRecord
        /\ SameRequest(c, e) /\ e.sid = c.sid /\ e.handle = c.handle
        /\ e.loaded = c.loaded /\ e.committed = c.committed
        /\ e.pc = pc /\ e.session = Handled(r) /\ e.accepted = Accepts(r)
    BY <1>2
  <2>2. Change(r, d)
    BY <1>4
  <2> HIDE DEF e
  <2>3. /\ d \in DbRecord
        /\ SameRequest(c, d) /\ d.sid = c.sid /\ d.handle = c.handle
        /\ d.loaded = c.loaded /\ d.committed = c.committed
        /\ d.pc = pc /\ d.session = Handled(r) /\ d.accepted = Accepts(r) /\ d.new = new
    BY <2>1 DEF DbRecord, SameRequest
  <2> HIDE DEF d
  <2> QED BY <1>1, <2>2, <2>3, DbRecordChanged
<1>5. CASE HandleClear(r)
  <2> DEFINE new == a("store").new \/ c.op = "logout"
  <2>1. new \in BOOLEAN /\ new = (c.new \/ c.op = "logout")
    BY <1>1, <1>2 DEF DbRecord
  <2>2. Change(r, [a("store") EXCEPT !.new = new])
    BY <1>5 DEF HandleClear, a
  <2> HIDE DEF new
  <2> QED BY <1>1, <1>4, <1>5, <2>1, <2>2
<1>6. CASE HandleLogin(r)
  <2>1. CASE c.new
    <3>1. Change(r, a("log"))
      BY <1>6, <2>1 DEF HandleLogin, a
    <3>2. a("log") \in DbRecord
      BY <1>2
    <3>3. req' \in [Request -> DbRecord] /\ req'[r] = a("log") /\ Others(r)
      BY <1>1, <3>1, <3>2, DbRecordChanged
    <3> QED BY <1>1, <1>2, <1>6, <2>1, <3>3
  <2>2. CASE ~c.new /\ Matches(table.rows, c.sid)
    <3>1. Change(r, a("rekey"))
      BY <1>6, <2>2 DEF HandleLogin, a
    <3>2. a("rekey") \in DbRecord
      BY <1>2
    <3>3. req' \in [Request -> DbRecord] /\ req'[r] = a("rekey") /\ Others(r)
      BY <1>1, <3>1, <3>2, DbRecordChanged
    <3> QED BY <1>1, <1>2, <1>6, <2>2, <3>3
  <2>3. CASE ~c.new /\ ~Matches(table.rows, c.sid)
    <3>1. Change(r, [a("log") EXCEPT !.new = TRUE])
      BY <1>6, <2>3 DEF HandleLogin, a
    <3> QED BY <1>1, <1>4, <1>6, <2>3, <3>1
  <2> QED BY <2>1, <2>2, <2>3
<1> QED BY <1>3, <1>5, <1>6

(* Rekey: the id has a new key for the same row. *)
LEMMA RekeyRecord ==
  ASSUME DbTypes, NEW r \in Request, Rekey(r)
  PROVE  /\ req' \in [Request -> DbRecord] /\ Others(r) /\ IsAt(r, "rekey")
         /\ req[r].sid \in DbId /\ Moves(req[r], req'[r])
         /\ req'[r].pc = "log" /\ req'[r].sid = <<req[r].sid[1], FreshKey(r, 1)>>
         /\ req'[r].sid \in DbId
         /\ req'[r].new = req[r].new /\ req'[r].committed = req[r].committed
<1> DEFINE c == req[r]
           sid == <<c.sid[1], FreshKey(r, 1)>>
           d == [c EXCEPT !.pc = "log", !.sid = sid]
<1>1. c \in DbRecord /\ req \in [Request -> DbRecord] /\ IsAt(r, "rekey")
  BY DEF DbTypes, Rekey
<1>2. c.sid \in DbId
  BY <1>1 DEF DbTypes, IsAt, Storing
<1>3. sid \in DbId
  BY <1>2, DbIdFacts DEF DbId
<1>4. Change(r, d)
  BY DEF Rekey
<1> HIDE DEF sid
<1>5. d \in DbRecord /\ d.pc = "log" /\ Moves(c, d) /\ d.sid = sid /\ d.new = c.new
      /\ d.committed = c.committed
  BY <1>1, <1>3 DEF DbRecord, SameRequest, Moves, Storing
<1> HIDE DEF d
<1>6. req' \in [Request -> DbRecord] /\ req'[r] = d /\ Others(r)
  BY <1>1, <1>4, <1>5, DbRecordChanged
<1> QED BY <1>1, <1>2, <1>3, <1>5, <1>6 DEF sid

(* LogEvent: only the lock is taken. *)
LEMMA LogRecord ==
  ASSUME DbTypes, NEW r \in Request, LogEvent(r)
  PROVE  /\ req' \in [Request -> DbRecord] /\ Others(r) /\ IsAt(r, "log")
         /\ req'[r].pc = "store" /\ Moves(req[r], req'[r]) /\ req'[r].sid = req[r].sid
         /\ req'[r].new = req[r].new /\ req'[r].committed = req[r].committed
<1> DEFINE c == req[r]
           d == [c EXCEPT !.pc = "store"]
<1>1. c \in DbRecord
  BY DEF DbTypes
<1>2. d \in DbRecord /\ d.pc = "store" /\ Moves(c, d) /\ d.sid = c.sid /\ d.new = c.new
      /\ d.committed = c.committed
  BY <1>1 DEF DbRecord, SameRequest, Moves, Storing
<1>3. Change(r, d) /\ IsAt(r, "log") /\ req \in [Request -> DbRecord]
  BY DEF LogEvent, DbTypes
<1> HIDE DEF d
<1> QED BY <1>2, <1>3, DbRecordChanged

(* DbStoreNothing: the request goes on to its commit. *)
LEMMA StoreNothingRecord ==
  ASSUME DbTypes, NEW r \in Request, DbStoreNothing(r)
  PROVE  /\ req' \in [Request -> DbRecord] /\ Others(r) /\ IsAt(r, "store")
         /\ req'[r].pc = "commit" /\ Moves(req[r], req'[r]) /\ req'[r].sid = req[r].sid
         /\ req'[r].new = req[r].new /\ req'[r].committed = req[r].committed
<1> DEFINE c == req[r]
           d == [c EXCEPT !.pc = "commit"]
<1>1. c \in DbRecord
  BY DEF DbTypes
<1>2. d \in DbRecord /\ d.pc = "commit" /\ Moves(c, d) /\ d.sid = c.sid /\ d.new = c.new
      /\ d.committed = c.committed
  BY <1>1 DEF DbRecord, SameRequest, Moves, Storing
<1>3. Change(r, d) /\ IsAt(r, "store") /\ req \in [Request -> DbRecord]
  BY DEF DbStoreNothing, DbTypes
<1> HIDE DEF d
<1> QED BY <1>2, <1>3, DbRecordChanged

(* DbCommit: the request is done and has committed. *)
LEMMA DbCommitRecord ==
  ASSUME DbTypes, NEW r \in Request, DbCommit(r)
  PROVE  /\ req' \in [Request -> DbRecord] /\ Others(r) /\ IsAt(r, "commit")
         /\ req'[r].pc = "done" /\ Moves(req[r], req'[r]) /\ req'[r].sid = req[r].sid
         /\ req'[r].new = req[r].new /\ req'[r].committed /\ req'[r].status = "ok"
<1> DEFINE c == req[r]
           e == [c EXCEPT !.pc = "done", !.status = "ok"]
           d == [c EXCEPT !.pc = "done", !.status = "ok", !.committed = TRUE]
<1>1. c \in DbRecord
  BY DEF DbTypes
<1>2. d \in DbRecord /\ d.pc = "done" /\ d.sid = c.sid /\ d.new = c.new
      /\ d.committed /\ d.status = "ok"
  BY <1>1 DEF DbRecord, Lasting
<1>3. Moves(c, d)
  BY <1>1 DEF DbRecord, SameRequest, Moves
<1>4. Change(r, d) /\ IsAt(r, "commit") /\ req \in [Request -> DbRecord]
  BY DEF DbCommit, DbTypes
<1> HIDE DEF d
<1> QED BY <1>2, <1>3, <1>4, DbRecordChanged

(* DbFail: the request is done and has committed no more than before. *)
LEMMA DbFailRecord ==
  ASSUME DbTypes, NEW r \in Request, DbFail(r)
  PROVE  /\ req' \in [Request -> DbRecord] /\ Others(r)
         /\ req[r].pc \in {"handle"} \cup Storing
         /\ req'[r].pc = "done" /\ Moves(req[r], req'[r]) /\ req'[r].sid = req[r].sid
         /\ req'[r].new = req[r].new /\ req'[r].committed = req[r].committed
         /\ req'[r].status = "error"
<1> DEFINE c == req[r]
           d == [c EXCEPT !.pc = "done", !.status = "error"]
<1>1. c \in DbRecord
  BY DEF DbTypes
<1>2. d \in DbRecord /\ d.pc = "done" /\ d.sid = c.sid /\ d.new = c.new
      /\ d.committed = c.committed /\ d.status = "error"
  BY <1>1 DEF DbRecord, Lasting
<1>3. Moves(c, d)
  BY <1>1 DEF DbRecord, SameRequest, Moves
<1>4. Change(r, d) /\ req \in [Request -> DbRecord]
  BY DEF DbFail, DbTypes
<1>5. c.pc \in {"handle"} \cup Storing
  BY <1>1 DEF DbFail, InProgress, DbRecord, Lasting
<1> HIDE DEF d
<1> QED BY <1>2, <1>3, <1>4, <1>5, DbRecordChanged

(* A crash ends the requests in progress and leaves the records of the      *)
(* others.                                                                  *)
LEMMA DbCrashRecords ==
  ASSUME DbTypes, DbCrash
  PROVE  /\ req' \in [Request -> DbRecord] /\ visit' \in Visit /\ visit'.patient = visit.patient
         /\ \A q \in Request :
              \/ ~InProgress(q) /\ req'[q] = req[q]
              \/ /\ InProgress(q) /\ req'[q].pc = "dead" /\ Moves(req[q], req'[q])
                 /\ req'[q].sid = req[q].sid /\ req'[q].new = req[q].new
                 /\ req'[q].committed = req[q].committed
<1> DEFINE D(q) == [req[q] EXCEPT !.pc = "dead"]
<1>1. \A q \in Request : req[q] \in DbRecord
  BY DEF DbTypes
<1>2. ASSUME NEW c \in DbRecord
      PROVE  LET d == [c EXCEPT !.pc = "dead"]
             IN /\ d \in DbRecord /\ d.pc = "dead" /\ Moves(c, d) /\ d.sid = c.sid /\ d.new = c.new
                /\ d.committed = c.committed
  BY DEF DbRecord, SameRequest, Moves, Lasting
<1>3. \A q \in Request : /\ D(q) \in DbRecord /\ D(q).pc = "dead" /\ Moves(req[q], D(q))
                         /\ D(q).sid = req[q].sid /\ D(q).new = req[q].new
                         /\ D(q).committed = req[q].committed
  BY <1>1, <1>2
<1>4. req' = [q \in Request |-> IF InProgress(q) THEN D(q) ELSE req[q]]
  BY DEF DbCrash
<1> HIDE DEF D
<1>5. visit' \in Visit /\ visit'.patient = visit.patient
  BY DEF DbCrash, DbTypes, Visit
<1> QED BY <1>1, <1>3, <1>4, <1>5

(* The row that a request stores: its own, or a new one. *)
RowFor(r) == IF req[r].handle \in DOMAIN work.rows THEN req[r].handle ELSE work.last + 1
KeyFor(r) == IF req[r].new THEN FreshKey(r, 2) ELSE req[r].sid[2]

(* DbStore: the row has the session of the request, and the id is that of   *)
(* the row.                                                                 *)
LEMMA DbStoreRecord ==
  ASSUME DbTypes, NEW r \in Request, DbStore(r)
  PROVE  /\ req' \in [Request -> DbRecord] /\ Others(r) /\ IsAt(r, "store")
         /\ LET c == req[r]
                d == req'[r]
                i == RowFor(r)
            IN /\ d.pc = "commit" /\ Moves(c, d) /\ d.new = c.new /\ d.committed = c.committed
               /\ d.sid = IF c.handle \in DOMAIN work.rows THEN c.sid ELSE <<i, KeyFor(r)>>
               /\ i # NoHandle /\ KeyFor(r) \in Key
               /\ IsTable(work') /\ work.last <= work'.last
               /\ DOMAIN work'.rows = DOMAIN work.rows \cup {i}
               /\ work'.rows[i].unique_key = KeyFor(r) /\ work'.rows[i].session_data = c.session
               /\ \A j \in DOMAIN work.rows : j # i => work'.rows[j] = work.rows[j]
<1> DEFINE c == req[r]
           i == RowFor(r)
           key == KeyFor(r)
           there == c.handle \in DOMAIN work.rows
           last == IF there THEN work.last ELSE i
           sid == IF there THEN c.sid ELSE <<i, key>>
           d == [c EXCEPT !.pc = "commit", !.sid = sid]
<1>1. c \in DbRecord /\ req \in [Request -> DbRecord] /\ IsAt(r, "store") /\ IsTable(work)
  BY DEF DbTypes, DbStore
<1>2. key \in Key
  <2>1. ~c.new => c.sid \in DbId
    BY <1>1 DEF DbTypes, IsAt, Storing
  <2> QED BY <2>1, DbIdFacts DEF KeyFor
<1>3. i \in Nat \ {0} /\ last \in Nat /\ i <= last /\ work.last <= last
  BY <1>1 DEF RowFor, IsTable
<1>4. sid \in DbId \cup {NoId}
  BY <1>1, <1>2, <1>3 DEF DbRecord, DbId
<1>5. Change(r, d) /\ work' = [rows |-> WithRow(work.rows, i, key, c.session), last |-> last]
  BY DEF DbStore, Stored, Write, RowFor, KeyFor
<1> HIDE DEF sid, last, key, i
<1>6. /\ IsTable(work') /\ work'.last = last /\ DOMAIN work'.rows = DOMAIN work.rows \cup {i}
      /\ work'.rows[i].unique_key = key /\ work'.rows[i].session_data = c.session
      /\ \A j \in DOMAIN work.rows : j # i => work'.rows[j] = work.rows[j]
  <2>1. c.session \in Session
    BY <1>1 DEF DbRecord
  <2> DEFINE rows == WithRow(work.rows, i, key, c.session)
             row == [unique_key |-> key, session_data |-> c.session]
  <2>2. work' = [rows |-> rows, last |-> last]
    BY <1>5
  <2>3. row \in Row /\ row.unique_key = key /\ row.session_data = c.session
    BY <1>2, <2>1 DEF Row
  <2>4. DOMAIN rows = DOMAIN work.rows \cup {i} /\ rows[i] = row
        /\ \A j \in DOMAIN work.rows : j # i => rows[j] = work.rows[j]
    BY DEF WithRow
  <2> HIDE DEF row, rows
  <2>5. work'.rows = rows /\ work'.last = last
    BY <2>2
  <2>6. \A j \in DOMAIN work.rows : j \in 1 .. last /\ work.rows[j] \in Row
    BY <1>1, <1>3 DEF IsTable
  <2>7. i \in 1 .. last
    BY <1>3
  <2>8. IsTable(work')
    BY <1>3, <2>2, <2>3, <2>4, <2>5, <2>6, <2>7 DEF IsTable
  <2> QED BY <2>3, <2>4, <2>5, <2>8
<1>7. d \in DbRecord /\ d.pc = "commit" /\ Moves(c, d) /\ d.sid = sid /\ d.new = c.new
      /\ d.committed = c.committed
  BY <1>1, <1>4 DEF DbRecord, SameRequest, Moves, Storing
<1> HIDE DEF d
<1>8. req' \in [Request -> DbRecord] /\ req'[r] = d /\ Others(r)
  BY <1>1, <1>5, <1>7, DbRecordChanged
<1> QED BY <1>1, <1>2, <1>3, <1>6, <1>7, <1>8 DEF sid, i, key, NoHandle

-----------------------------------------------------------------------------
(* Steps, and what they leave to the other requests. *)

(* Row j is the same in both tables. *)
SameIn(t, u, j) ==
  /\ j \in DOMAIN t.rows <=> j \in DOMAIN u.rows
  /\ j \in DOMAIN t.rows => t.rows[j] = u.rows[j]

(* What the steps of request r do to the table: nothing, a write of row i,  *)
(* or the end of its transaction.                                           *)
Wrote(r, i) ==
  /\ writer \in {r, NoRequest} /\ writer' = r /\ table' = table
  /\ req[r].pc \in {"handle", "rekey", "log", "store"}
  /\ IsTable(work') /\ work.last <= work'.last
  /\ \A j \in Nat : j # i => SameIn(work, work', j)
  /\ i \in DOMAIN work'.rows =>
       /\ Distinct(work'.rows[i].session_data.keys)
       /\ \A q \in Request : Traces(work'.rows[i].session_data, q) =>
            Finished(q) \/ (q = r /\ req'[r].pc = "commit")
Ended(r) ==
  /\ writer = r /\ writer' = NoRequest
  /\ work' = table' /\ table' \in {table, work}
  /\ IsAt(r, "commit") \/ table' = table
  /\ req'[r].pc \in Lasting
StepBy(r) ==
  /\ req' \in [Request -> DbRecord] /\ Others(r)
  /\ req'[r].pc # "idle" /\ (Finished(r) => req'[r].pc \in Lasting)
  /\ IsAt(r, "idle") \/ req'[r].browser = req[r].browser
  /\ UNCHANGED tableVars \/ (\E i \in Nat : Wrote(r, i)) \/ Ended(r)
  /\ visit' = visit /\ cookie' \in [Browser -> DbId \cup {NoId}]

(* What a patient request writes: a row of its own browser, with what was   *)
(* in it and its own traces.                                                *)
Owns(r, i) ==
  /\ i \in DOMAIN work.rows => MadeFor(work.rows[i].unique_key, req[r].browser)
  /\ i \in DOMAIN work'.rows =>
       LET d == work'.rows[i].session_data
           key == work'.rows[i].unique_key
       IN /\ req'[key[1]].pc # "idle" /\ req'[key[1]].browser = req[r].browser
          /\ \A q \in Request : Traces(d, q) /\ q # r =>
               i \in DOMAIN work.rows /\ Traces(work.rows[i].session_data, q)
          /\ \A k \in Request : Has(d.keys, k) /\ k # r =>
               i \in DOMAIN work.rows /\ Has(work.rows[i].session_data.keys, k)
          /\ d.auth \in Request /\ d.auth # r =>
               i \in DOMAIN work.rows /\ work.rows[i].session_data.auth = d.auth

(* A write of one row leaves the others. *)
LEMMA WrittenRows ==
  ASSUME DbTypes, NEW r \in Request, NEW i \in Nat, Wrote(r, i)
  PROVE  /\ \A j \in DOMAIN work.rows : j # i
                => j \in DOMAIN work'.rows /\ work'.rows[j] = work.rows[j]
         /\ \A j \in DOMAIN work'.rows : j # i
                => j \in DOMAIN work.rows /\ work'.rows[j] = work.rows[j]
<1>1. \A j \in DOMAIN work.rows : j \in Nat
  BY RowFacts DEF DbTypes
<1>2. \A j \in DOMAIN work'.rows : j \in Nat
  BY RowFacts DEF Wrote
<1> QED BY <1>1, <1>2 DEF Wrote, SameIn

(* The state of the others' records and locks. *)
LEMMA OthersState ==
  ASSUME DbTypes, NEW r \in Request, StepBy(r)
  PROVE  /\ \A q \in Request : q # r => req'[q] = req[q] /\ (writer' = q <=> writer = q)
         /\ \A q \in Request : ~IsAt(q, "idle")
                => req'[q].pc # "idle" /\ req'[q].browser = req[q].browser
         /\ \A q \in Request : Finished(q) => req'[q].pc \in Lasting
         /\ \A key \in Key : \A b : MadeFor(key, b)
                => req'[key[1]].pc # "idle" /\ req'[key[1]].browser = b
<1>1. \A q \in Request : q # r => req'[q] = req[q] /\ (writer' = q <=> writer = q)
  BY RequestAssumption DEF StepBy, Others, Wrote, Ended, tableVars, DbTypes
<1>2. \A q \in Request : ~IsAt(q, "idle") => req'[q].pc # "idle" /\ req'[q].browser = req[q].browser
  BY <1>1 DEF StepBy, IsAt
<1>3. \A q \in Request : Finished(q) => req'[q].pc \in Lasting
  BY <1>1 DEF StepBy, Finished
<1>4. \A key \in Key : key[1] \in Request
  BY DbIdFacts
<1> QED BY <1>1, <1>2, <1>3, <1>4 DEF MadeFor

(* A step of one request keeps the types. *)
LEMMA DbTypesKept ==
  ASSUME DbTypes, NEW r \in Request, StepBy(r),
         req'[r].pc \in {"handle"} \cup Storing /\ ~req'[r].new => req'[r].sid \in DbId,
         req'[r].pc = "rekey" => ~req'[r].new
  PROVE  DbTypes'
<1>1. /\ visit' \in Visit /\ cookie' \in [Browser -> DbId \cup {NoId}]
      /\ req' \in [Request -> DbRecord]
  BY DEF StepBy, DbTypes
<1> DEFINE Tables ==
      /\ IsTable(table)' /\ IsTable(work)' /\ table'.last <= work'.last
      /\ writer' \in Request \cup {NoRequest}
      /\ writer' = NoRequest => work' = table'
<1>2. Tables
  <2>1. CASE UNCHANGED tableVars
    BY <2>1 DEF tableVars, DbTypes, IsTable
  <2>2. ASSUME NEW i \in Nat, Wrote(r, i) PROVE Tables
    <3>1. table.last \in Nat /\ work.last \in Nat /\ work'.last \in Nat
      BY <2>2 DEF Wrote, DbTypes, IsTable
    <3>2. table'.last <= work'.last
      BY <2>2, <3>1 DEF Wrote, DbTypes
    <3>3. IsTable(table)' /\ IsTable(work)'
      BY <2>2 DEF Wrote, DbTypes, IsTable
    <3> QED BY <2>2, <3>2, <3>3, RequestAssumption DEF Wrote
  <2>3. CASE Ended(r)
    <3>1. IsTable(table)' /\ IsTable(work)'
      BY <2>3 DEF Ended, DbTypes, IsTable
    <3>2. table'.last <= work'.last
      BY <2>3, <3>1 DEF Ended, IsTable
    <3> QED BY <2>3, <3>1, <3>2 DEF Ended
  <2> QED BY <2>1, <2>2, <2>3 DEF StepBy
<1>3. ASSUME NEW q \in Request
      PROVE  /\ req'[q].pc \in {"handle"} \cup Storing /\ ~req'[q].new => req'[q].sid \in DbId
             /\ req'[q].pc = "rekey" => ~req'[q].new
  BY <1>1, OthersState DEF DbTypes, IsAt
<1> QED BY <1>1, <1>2, <1>3 DEF DbTypes, IsAt

(* It takes no other request further. *)
LEMMA OthersProgress ==
  ASSUME DbTypes, NEW r \in Request, StepBy(r), NEW q \in Request, q # r, Progress(q)
  PROVE  Progress(q)'
<1>1. req'[q] = req[q] /\ (writer' = q <=> writer = q)
  BY OthersState
<1> QED BY <1>1 DEF Progress

(* It leaves traces of requests that are over, or of its own just before it *)
(* commits.                                                                 *)
LEMMA DbFreshKept ==
  ASSUME DbTypes, DbFresh, NEW r \in Request, StepBy(r),
         IsAt(r, "commit") /\ writer = r => req'[r].pc \in Lasting,
         \A q \in Request : Traces(req'[r].loaded, q) => Finished(q) /\ q # r,
         Distinct(req'[r].loaded.keys)
  PROVE  DbFresh'
<1>1. /\ \A x, q \in Request : Traces(req'[x].loaded, q) => req'[q].pc \in Lasting /\ q # x
      /\ \A x \in Request : Distinct(req'[x].loaded.keys)
  BY OthersState DEF DbFresh
<1>2. \A i \in DOMAIN table.rows, q \in Request :
        Traces(table.rows[i].session_data, q) => req'[q].pc \in Lasting
  BY OthersState DEF DbFresh
<1>3. \A i \in DOMAIN work.rows, q \in Request :
        Traces(work.rows[i].session_data, q) =>
          req'[q].pc \in Lasting \/ (writer = q /\ req[q].pc = "commit")
  BY OthersState DEF DbFresh, IsAt
<1>4. /\ \A i \in DOMAIN table.rows : Distinct(table.rows[i].session_data.keys)
      /\ \A i \in DOMAIN work.rows : Distinct(work.rows[i].session_data.keys)
  BY DEF DbFresh
<1> DEFINE Rows ==
      /\ \A i \in DOMAIN table'.rows, q \in Request :
           Traces(table'.rows[i].session_data, q) => req'[q].pc \in Lasting
      /\ \A i \in DOMAIN table'.rows : Distinct(table'.rows[i].session_data.keys)
      /\ \A i \in DOMAIN work'.rows, q \in Request :
           Traces(work'.rows[i].session_data, q) =>
             req'[q].pc \in Lasting \/ (writer' = q /\ req'[q].pc = "commit")
      /\ \A i \in DOMAIN work'.rows : Distinct(work'.rows[i].session_data.keys)
<1>5. Rows
  <2>1. CASE UNCHANGED tableVars
    <3>1. table' = table /\ work' = work /\ writer' = writer
      BY <2>1 DEF tableVars
    <3>2. ASSUME NEW q \in Request, writer = q, req[q].pc = "commit"
          PROVE  req'[q].pc \in Lasting \/ (writer' = q /\ req'[q].pc = "commit")
      <4>1. CASE q = r
        BY <3>1, <3>2, <4>1, RequestAssumption DEF Ended, IsAt
      <4>2. CASE q # r
        BY <3>1, <3>2, <4>2, OthersState
      <4> QED BY <4>1, <4>2
    <3> QED BY <1>2, <1>3, <1>4, <3>1, <3>2
  <2>2. ASSUME NEW i \in Nat, Wrote(r, i) PROVE Rows
    <3>1. table' = table /\ writer' = r /\ req[r].pc # "commit" /\ writer \in {r, NoRequest}
      BY <2>2 DEF Wrote
    <3>2. ASSUME NEW j \in DOMAIN work'.rows
          PROVE  /\ \A q \in Request : Traces(work'.rows[j].session_data, q) =>
                      req'[q].pc \in Lasting \/ (writer' = q /\ req'[q].pc = "commit")
                 /\ Distinct(work'.rows[j].session_data.keys)
      <4>1. CASE j = i
        BY <2>2, <3>1, <4>1, OthersState DEF Wrote
      <4>2. CASE j # i
        <5>1. j \in DOMAIN work.rows /\ work'.rows[j] = work.rows[j]
          BY <2>2, <4>2, WrittenRows
        <5>2. \A q \in Request : ~(writer = q /\ req[q].pc = "commit")
          BY <3>1, RequestAssumption
        <5> QED BY <1>3, <1>4, <5>1, <5>2
      <4> QED BY <4>1, <4>2
    <3> QED BY <1>2, <1>4, <3>1, <3>2
  <2>3. CASE Ended(r)
    <3>1. writer = r /\ work' = table' /\ table' \in {table, work} /\ req'[r].pc \in Lasting
      BY <2>3 DEF Ended
    <3>2. \A i \in DOMAIN work.rows, q \in Request :
            Traces(work.rows[i].session_data, q) => req'[q].pc \in Lasting
      BY <1>3, <3>1
    <3> QED BY <1>2, <1>4, <3>1, <3>2
  <2> QED BY <2>1, <2>2, <2>3 DEF StepBy
<1> QED BY <1>1, <1>5 DEF DbFresh, Finished, IsAt

(* A step of a patient request, and a request whose browser waits for it. *)
OwnStep(r) ==
  UNCHANGED tableVars \/ (\E i \in Nat : Wrote(r, i) /\ Owns(r, i)) \/ Ended(r)
Active(q) == req[q].pc \notin {"idle", "answered", "dead"}

(* The row of a browser's own key is the same for all but its writer. *)
LEMMA OwnRow ==
  ASSUME DbTypes, Solo, Separate, NEW r \in Request, writer = r, Active(r),
         NEW q \in Request, q # r, Active(q),
         NEW i \in DOMAIN table.rows, MadeFor(table.rows[i].unique_key, req[q].browser)
  PROVE  i \in DOMAIN work.rows /\ work.rows[i] = table.rows[i]
<1>1. i \in Nat
  BY RowFacts DEF DbTypes
<1>2. CASE SameRow(i)
  BY <1>2 DEF SameRow
<1>3. CASE ~SameRow(i)
  <2>1. MadeFor(table.rows[i].unique_key, req[r].browser)
    BY <1>1, <1>3 DEF Separate
  <2>2. req[q].browser = req[r].browser
    BY <2>1 DEF MadeFor
  <2> QED BY <2>2 DEF Solo, Active
<1> QED BY <1>2, <1>3

(* A commit leaves the rows of the others as they are. *)
LEMMA RowIsCommitted ==
  ASSUME DbTypes, Solo, Separate, KeysOK, NEW r \in Request, writer = r, Active(r),
         NEW q \in Request, q # r, Progress(q), RowIs(req[q], table.rows)
  PROVE  RowIs(req[q], work.rows)
<1> DEFINE c == req[q]
<1>1. c.pc \in {"handle", "rekey", "log", "store", "commit", "done"} => Active(q)
  BY DEF Active
<1>2. ASSUME NEW s, Active(q), Finds(table.rows, c.sid, s) PROVE Finds(work.rows, c.sid, s)
  <2> DEFINE i == c.sid[1]
  <2>1. /\ c.sid # NoId /\ i \in DOMAIN table.rows
        /\ table.rows[i].unique_key = c.sid[2] /\ table.rows[i].session_data = s
    BY <1>2 DEF Finds, Matches
  <2>2. MadeFor(table.rows[i].unique_key, c.browser)
    BY <1>2, <2>1 DEF KeysOK, Active, IsAt
  <2> HIDE DEF i
  <2>3. i \in DOMAIN work.rows /\ work.rows[i] = table.rows[i]
    BY <1>2, <2>1, <2>2, OwnRow
  <2> QED BY <2>1, <2>3 DEF Finds, Matches, i
<1>3. Holds(c) \/ Left(c) => Active(q)
  BY DEF Holds, Left, Active
<1>4. ASSUME c.pc = "store", c.new \/ c.op \in Clearing PROVE c.handle \notin DOMAIN work.rows
  <2>1. c.op \notin Clearing
    BY <1>4 DEF Progress, Storing
  <2>2. c.handle = NoHandle
    BY <1>4, <2>1 DEF RowIs, Clearing
  <2> QED BY <2>2, RowFacts DEF DbTypes
<1> QED BY <1>2, <1>3, <1>4 DEF RowIs

(* The row that a patient browser uses is not changed by the requests of    *)
(* others.                                                                  *)
LEMMA OthersRowOK ==
  ASSUME DbTypes, Solo, Separate, KeysOK, NEW r \in Request, StepBy(r),
         writer = r => Active(r),
         NEW q \in Request, q # r, Progress(q), RowOK(q)
  PROVE  RowOK(q)'
<1>1. req'[q] = req[q] /\ (writer' = q <=> writer = q)
  BY OthersState
<1>2. CASE View(q)' = View(q)
  BY <1>1, <1>2 DEF RowOK
<1>3. CASE View(q)' # View(q)
  <2>1. View(q) = table /\ View(q)' = work /\ writer = r
    <3>1. CASE UNCHANGED tableVars
      BY <1>3, <3>1 DEF View, tableVars
    <3>2. ASSUME NEW i \in Nat, Wrote(r, i) PROVE FALSE
      BY <1>3, <3>2, RequestAssumption DEF Wrote, View
    <3>3. CASE Ended(r)
      BY <1>3, <3>3, RequestAssumption DEF Ended, View
    <3> QED BY <3>1, <3>2, <3>3 DEF StepBy
  <2>2. RowIs(req[q], work.rows)
    BY <2>1, RowIsCommitted DEF RowOK
  <2> QED BY <1>1, <2>1, <2>2 DEF RowOK
<1> QED BY <1>2, <1>3

(* Only a request that is sent becomes active. *)
LEMMA SoloKept ==
  ASSUME Solo, NEW r \in Request, StepBy(r), Active(r)
  PROVE  Solo'
<1>1. \A q \in Request : q # r => req'[q] = req[q]
  BY DEF StepBy, Others
<1>2. req'[r].browser = req[r].browser
  BY DEF StepBy, Active, IsAt
<1> QED BY <1>1, <1>2 DEF Solo, Active

(* The keys a step gives out are for the browser of its request. *)
LEMMA KeysKept ==
  ASSUME DbTypes, KeysOK, NEW r \in Request, StepBy(r),
         \A b \in Browser : cookie'[b] # cookie[b] /\ cookie'[b] # NoId
             => MadeFor(cookie'[b][2], b),
         req'[r].sid # NoId => LET key == req'[r].sid[2]
                               IN key \in Key /\ (MadeFor(key, req'[r].browser) \/ key[1] = r),
         OwnStep(r)
  PROVE  KeysOK'
<1>1. \A key \in Key : \A b : MadeFor(key, b)
          => req'[key[1]].pc # "idle" /\ req'[key[1]].browser = b
  BY OthersState
<1>2. \A b \in Browser : cookie'[b] # NoId =>
        req'[cookie'[b][2][1]].pc # "idle" /\ req'[cookie'[b][2][1]].browser = b
  <2> SUFFICES ASSUME NEW b \in Browser, cookie'[b] # NoId
               PROVE  req'[cookie'[b][2][1]].pc # "idle" /\ req'[cookie'[b][2][1]].browser = b
    OBVIOUS
  <2>1. MadeFor(cookie'[b][2], b)
    BY DEF KeysOK
  <2>2. cookie'[b] \in DbId
    BY DEF StepBy
  <2>3. cookie'[b][2] \in Key
    BY <2>2, DbIdFacts
  <2> QED BY <1>1, <2>1, <2>3
<1>3. \A q \in Request : req'[q].pc # "idle" /\ req'[q].sid # NoId =>
        req'[req'[q].sid[2][1]].pc # "idle" /\ req'[req'[q].sid[2][1]].browser = req'[q].browser
  <2> SUFFICES ASSUME NEW q \in Request, req'[q].pc # "idle", req'[q].sid # NoId
               PROVE  /\ req'[req'[q].sid[2][1]].pc # "idle"
                      /\ req'[req'[q].sid[2][1]].browser = req'[q].browser
    OBVIOUS
  <2>1. CASE q = r
    <3> DEFINE key == req'[r].sid[2]
    <3>1. key \in Key /\ (MadeFor(key, req'[r].browser) \/ key[1] = r)
      BY <2>1
    <3> HIDE DEF key
    <3>2. req'[key[1]].pc # "idle" /\ req'[key[1]].browser = req'[r].browser
      BY <1>1, <3>1 DEF StepBy
    <3> QED BY <2>1, <3>2 DEF key
  <2>2. CASE q # r
    <3>1. req'[q] = req[q]
      BY <2>2, OthersState
    <3>2. MadeFor(req[q].sid[2], req[q].browser)
      BY <3>1 DEF KeysOK, IsAt
    <3>3. req[q].sid[2] \in Key
      <4>1. req[q] \in DbRecord /\ req[q].sid # NoId
        BY <3>1 DEF DbTypes
      <4>2. req[q].sid \in DbId
        BY <4>1 DEF DbRecord
      <4> QED BY <4>2, DbIdFacts
    <3> QED BY <1>1, <3>1, <3>2, <3>3
  <2> QED BY <2>1, <2>2
<1>4. /\ \A i \in DOMAIN table.rows : req'[table.rows[i].unique_key[1]].pc # "idle"
      /\ \A i \in DOMAIN work.rows : req'[work.rows[i].unique_key[1]].pc # "idle"
  <2>1. /\ \A i \in DOMAIN table.rows : table.rows[i].unique_key[1] \in Request
        /\ \A i \in DOMAIN work.rows : work.rows[i].unique_key[1] \in Request
    BY RowFacts, DbIdFacts DEF DbTypes
  <2> QED BY <2>1, OthersState DEF KeysOK
<1>5. /\ \A i \in DOMAIN table'.rows : req'[table'.rows[i].unique_key[1]].pc # "idle"
      /\ \A i \in DOMAIN work'.rows : req'[work'.rows[i].unique_key[1]].pc # "idle"
  <2>1. CASE UNCHANGED tableVars
    BY <1>4, <2>1 DEF tableVars
  <2>2. CASE \E i \in Nat : Wrote(r, i) /\ Owns(r, i)
    <3>1. PICK i \in Nat : Wrote(r, i) /\ Owns(r, i)
      BY <2>2
    <3>2. Owns(r, i) /\ table' = table
      BY <3>1 DEF Wrote
    <3>3. ASSUME NEW j \in DOMAIN work'.rows PROVE req'[work'.rows[j].unique_key[1]].pc # "idle"
      <4>1. CASE j = i
        BY <3>2, <4>1 DEF Owns
      <4>2. CASE j # i
        BY <1>4, <3>1, <4>2, WrittenRows
      <4> QED BY <4>1, <4>2
    <3> QED BY <1>4, <3>2, <3>3
  <2>3. CASE Ended(r)
    BY <1>4, <2>3 DEF Ended
  <2> QED BY <2>1, <2>2, <2>3 DEF OwnStep
<1> QED BY <1>2, <1>3, <1>5 DEF KeysOK, MadeFor, IsAt

(* The writer changes rows of its own browser only. *)
LEMMA SeparateKept ==
  ASSUME DbTypes, KeysOK, Separate, NEW r \in Request, StepBy(r),
         \A q \in Request : writer = q => ~IsAt(q, "idle"),
         OwnStep(r)
  PROVE  Separate'
<1>1. \A key \in Key : \A b : MadeFor(key, b)
          => req'[key[1]].pc # "idle" /\ req'[key[1]].browser = b
  BY OthersState
<1>2. /\ \A i \in DOMAIN table.rows : table.rows[i].unique_key \in Key
      /\ \A i \in DOMAIN work.rows : work.rows[i].unique_key \in Key
  BY RowFacts DEF DbTypes
<1>3. \A q \in Request : writer = q => req'[q].browser = req[q].browser
  BY OthersState
<1>4. CASE UNCHANGED tableVars
  <2>1. writer' = writer /\ table' = table /\ work' = work
    BY <1>4 DEF tableVars
  <2>2. writer # NoRequest => req'[writer].browser = req[writer].browser
    BY <1>3 DEF DbTypes
  <2>3. ASSUME NEW i \in Nat, ~SameRow(i)
        PROVE  /\ writer # NoRequest
               /\ i \in DOMAIN table.rows =>
                    LET k == table.rows[i].unique_key[1]
                    IN req'[k].pc # "idle" /\ req'[k].browser = req'[writer].browser
               /\ i \in DOMAIN work.rows =>
                    LET k == work.rows[i].unique_key[1]
                    IN req'[k].pc # "idle" /\ req'[k].browser = req'[writer].browser
    BY <1>1, <1>2, <2>2, <2>3 DEF Separate
  <2> QED BY <2>1, <2>3 DEF Separate, SameRow, MadeFor, IsAt
<1>5. ASSUME NEW i \in Nat, Wrote(r, i), Owns(r, i) PROVE Separate'
  <2>1. /\ table' = table /\ writer' = r /\ writer \in {r, NoRequest} /\ r # NoRequest
        /\ req'[r].browser = req[r].browser /\ Owns(r, i)
    BY <1>5, RequestAssumption DEF Wrote, StepBy, IsAt
  <2> DEFINE Mine(k) == req'[k].pc # "idle" /\ req'[k].browser = req[r].browser
  <2>2. ASSUME NEW j \in Nat, ~(SameRow(j)')
        PROVE  /\ j \in DOMAIN table.rows => Mine(table.rows[j].unique_key[1])
               /\ j \in DOMAIN work'.rows => Mine(work'.rows[j].unique_key[1])
    <3>1. CASE j = i
      <4>1. j \in DOMAIN work'.rows => Mine(work'.rows[j].unique_key[1])
        BY <2>1, <3>1 DEF Owns
      <4>2. ASSUME j \in DOMAIN table.rows PROVE Mine(table.rows[j].unique_key[1])
        <5>1. MadeFor(table.rows[j].unique_key, req[r].browser)
          BY <2>1, <3>1, <4>2 DEF Separate, SameRow, Owns
        <5> QED BY <1>1, <1>2, <4>2, <5>1
      <4> QED BY <4>1, <4>2
    <3>2. CASE j # i
      <4>1. SameIn(work, work', j)
        BY <1>5, <3>2 DEF Wrote
      <4>2. ~SameRow(j)
        BY <2>1, <2>2, <4>1 DEF SameRow, SameIn
      <4>3. /\ writer = r
            /\ j \in DOMAIN table.rows => MadeFor(table.rows[j].unique_key, req[r].browser)
            /\ j \in DOMAIN work.rows => MadeFor(work.rows[j].unique_key, req[r].browser)
        BY <2>1, <4>2 DEF Separate
      <4> QED BY <1>1, <1>2, <4>1, <4>3 DEF SameIn
    <3> QED BY <3>1, <3>2
  <2> QED BY <2>1, <2>2 DEF Separate, MadeFor, IsAt
<1>6. CASE Ended(r)
  BY <1>6 DEF Ended, Separate, SameRow
<1> QED BY <1>4, <1>5, <1>6 DEF OwnStep

(* The traces of r are only in the row it has stored, and it leaves the     *)
(* traces of the others where they were.                                    *)
LEMMA OneRowKept ==
  ASSUME DbTypes, DbFresh, OneRow(table), OneRow(work), NEW r \in Request, StepBy(r),
         OwnStep(r)
  PROVE  OneRow(table)' /\ OneRow(work)'
<1>1. CASE UNCHANGED tableVars
  BY <1>1 DEF tableVars, OneRow
<1>2. ASSUME NEW i \in Nat, Wrote(r, i), Owns(r, i) PROVE OneRow(table)' /\ OneRow(work)'
  <2>1. Owns(r, i) /\ table' = table /\ req[r].pc \in {"handle", "rekey", "log", "store"}
    BY <1>2 DEF Wrote
  <2>2. \A j \in DOMAIN work.rows : ~Traces(work.rows[j].session_data, r)
    BY <2>1 DEF DbFresh, Finished, Lasting, IsAt
  <2>3. \A j \in DOMAIN work'.rows : j # i => j \in DOMAIN work.rows /\ work'.rows[j] = work.rows[j]
    BY <1>2, WrittenRows
  <2>4. \A q \in Request : i \in DOMAIN work'.rows /\ Traces(work'.rows[i].session_data, q) /\ q # r
          => i \in DOMAIN work.rows /\ Traces(work.rows[i].session_data, q)
    BY <2>1 DEF Owns
  <2>5. ASSUME NEW j \in DOMAIN work'.rows, NEW k \in DOMAIN work'.rows, NEW q \in Request,
               Traces(work'.rows[j].session_data, q), Traces(work'.rows[k].session_data, q)
        PROVE  j = k
    <3>1. CASE q = r
      BY <2>2, <2>3, <2>5, <3>1
    <3>2. CASE q # r
      <4>1. /\ j \in DOMAIN work.rows /\ Traces(work.rows[j].session_data, q)
            /\ k \in DOMAIN work.rows /\ Traces(work.rows[k].session_data, q)
        BY <2>3, <2>4, <2>5, <3>2
      <4> QED BY <4>1 DEF OneRow
    <3> QED BY <3>1, <3>2
  <2> QED BY <2>1, <2>5 DEF OneRow
<1>3. CASE Ended(r)
  BY <1>3 DEF Ended, OneRow
<1> QED BY <1>1, <1>2, <1>3 DEF OwnStep

(* A key or a login of a request that is over does not come back. *)
LEMMA GoneForGood ==
  ASSUME DbTypes, NEW r \in Request, StepBy(r), ~Finished(r) \/ UNCHANGED tableVars,
         OwnStep(r),
         NEW k \in Request, Finished(k)
  PROVE  /\ NoKey(table, k) /\ NoKey(work, k) => NoKey(table, k)' /\ NoKey(work, k)'
         /\ NoLogin(table, k) /\ NoLogin(work, k) => NoLogin(table, k)' /\ NoLogin(work, k)'
         /\ ~Ended(r) => /\ NoKey(work, k) => NoKey(work, k)'
                         /\ NoLogin(work, k) => NoLogin(work, k)'
<1>1. CASE UNCHANGED tableVars
  BY <1>1 DEF tableVars, NoKey, NoLogin
<1>2. ASSUME NEW i \in Nat, Wrote(r, i), Owns(r, i)
      PROVE  /\ table' = table
             /\ NoKey(work, k) => NoKey(work, k)'
             /\ NoLogin(work, k) => NoLogin(work, k)'
  <2>1. Owns(r, i) /\ table' = table /\ k # r
    BY <1>2 DEF Wrote, Finished, Lasting
  <2>2. \A j \in DOMAIN work'.rows : j # i => j \in DOMAIN work.rows /\ work'.rows[j] = work.rows[j]
    BY <1>2, WrittenRows
  <2>3. i \in DOMAIN work'.rows =>
          /\ Has(work'.rows[i].session_data.keys, k) =>
               i \in DOMAIN work.rows /\ Has(work.rows[i].session_data.keys, k)
          /\ work'.rows[i].session_data.auth = k =>
               i \in DOMAIN work.rows /\ work.rows[i].session_data.auth = k
    BY <2>1 DEF Owns
  <2> QED BY <2>1, <2>2, <2>3 DEF NoKey, NoLogin
<1>3. CASE Ended(r)
  BY <1>3 DEF Ended, NoKey, NoLogin
<1> QED BY <1>1, <1>2, <1>3 DEF OwnStep, NoKey, NoLogin

(* The key that a request accepts was shown by one that is over. *)
LEMMA UsedKeyFinished ==
  ASSUME DbTypes, DbFresh, NEW r \in Request, Progress(r), req[r].accepted
  PROVE  req[r].key \in Request /\ Finished(req[r].key) /\ Traces(req[r].loaded, req[r].key)
<1>1. Has(req[r].loaded.keys, req[r].key)
  BY DEF Progress
<1>2. req[r].loaded.keys \in Seq(Request)
  BY DEF DbTypes, DbRecord, Session
<1>3. req[r].key \in Request
  BY <1>1, <1>2, ElementOfSeq DEF Has
<1> QED BY <1>1, <1>3 DEF Traces, DbFresh

(* A key that is used up stays so, and no second request uses it up. *)
LEMMA KeysGoneKept ==
  ASSUME DbTypes, DbFresh, KeysGone, \A q \in Request : Progress(q),
         NEW r \in Request, StepBy(r), Progress(r)', ~Finished(r) \/ UNCHANGED tableVars,
         OwnStep(r),
         DbUsed(r)' => /\ req'[r].key = req[r].key /\ req[r].accepted
                       /\ \/ req[r].committed
                          \/ IsAt(r, "commit") /\ writer = r /\ table' = work /\ work' = work,
         req'[r].accepted /\ req'[r].pc = "commit" => NoKey(work', req'[r].key),
         req'[r].accepted /\ req'[r].pc \in {"store", "commit"} =>
           \A s \in Request : DbUsed(s) => req'[r].key # req[s].key
  PROVE  KeysGone'
<1>1. \A q \in Request : q # r => req'[q] = req[q] /\ (writer' = q <=> writer = q)
  BY OthersState
<1>2. \A q \in Request : req[q].accepted /\ req[q].pc \in {"store", "commit"} => writer = q
  BY DEF Progress, Storing
<1>3. \A q \in Request : req'[q].accepted /\ req'[q].committed =>
        NoKey(table', req'[q].key) /\ NoKey(work', req'[q].key)
  <2> SUFFICES ASSUME NEW q \in Request, req'[q].accepted, req'[q].committed
               PROVE  NoKey(table', req'[q].key) /\ NoKey(work', req'[q].key)
    OBVIOUS
  <2> DEFINE k == req[q].key
  <2>1. req[q].accepted /\ req'[q].key = k
    BY <1>1 DEF DbUsed
  <2>2. CASE req[q].committed
    <3>1. k \in Request /\ Finished(k) /\ NoKey(table, k) /\ NoKey(work, k)
      BY <2>1, <2>2, UsedKeyFinished DEF KeysGone, DbUsed
    <3> HIDE DEF k
    <3>2. PICK l : l = k
      OBVIOUS
    <3>3. l \in Request /\ Finished(l) /\ NoKey(table, l) /\ NoKey(work, l)
      BY <3>1, <3>2
    <3>4. NoKey(table, l)' /\ NoKey(work, l)'
      BY <3>3, GoneForGood
    <3> QED BY <2>1, <3>2, <3>4 DEF NoKey
  <2>3. CASE ~req[q].committed
    <3>1. q = r /\ IsAt(r, "commit") /\ table' = work /\ work' = work
      BY <1>1, <2>3 DEF DbUsed
    <3>2. NoKey(work, k)
      BY <2>1, <3>1 DEF KeysGone
    <3> QED BY <2>1, <3>1, <3>2
  <2> QED BY <2>2, <2>3
<1>4. \A q \in Request : req'[q].accepted /\ req'[q].pc = "commit" => NoKey(work', req'[q].key)
  <2> SUFFICES ASSUME NEW q \in Request, q # r, req[q].accepted, req[q].pc = "commit"
               PROVE  NoKey(work', req[q].key)
    BY <1>1
  <2>1. writer = q /\ writer' = q /\ NoKey(work, req[q].key)
    BY <1>1, <1>2 DEF KeysGone, IsAt
  <2>2. UNCHANGED tableVars
    BY <2>1, RequestAssumption DEF StepBy, Wrote, Ended
  <2> QED BY <2>1, <2>2 DEF tableVars
<1>5. \A q, s \in Request : /\ req'[q].accepted /\ req'[q].pc \in {"store", "commit"}
                             /\ req'[s].accepted /\ req'[s].committed
                             => req'[q].key # req'[s].key
  <2> SUFFICES ASSUME NEW q \in Request, NEW s \in Request,
                      req'[q].accepted, req'[q].pc \in {"store", "commit"},
                      req'[s].accepted, req'[s].committed
               PROVE  req'[q].key # req'[s].key
    OBVIOUS
  <2>1. q # s
    <3>1. req'[r].committed => req'[r].pc \in Lasting
      BY DEF Progress
    <3>2. q # r => req[q].pc \notin Lasting /\ ~req[q].committed
      BY <1>1 DEF Progress, Lasting
    <3> QED BY <1>1, <3>1, <3>2 DEF Lasting
  <2>2. CASE q # r /\ s # r
    BY <1>1, <2>2 DEF KeysGone, DbUsed
  <2>3. CASE q = r /\ s # r
    BY <1>1, <2>3 DEF DbUsed
  <2>4. CASE q # r /\ s = r
    <3>1. writer = q /\ req[q].accepted /\ req[q].pc \in {"store", "commit"}
      BY <1>1, <1>2, <2>4
    <3>2. req'[r].key = req[r].key /\ DbUsed(r)
      BY <2>4, <3>1 DEF DbUsed
    <3> QED BY <1>1, <2>4, <3>1, <3>2 DEF KeysGone
  <2> QED BY <2>1, <2>2, <2>3, <2>4
<1>6. \A q, s \in Request : /\ req'[q].accepted /\ req'[q].committed
                             /\ req'[s].accepted /\ req'[s].committed
                             /\ req'[q].key = req'[s].key
                             => q = s
  <2>1. ASSUME NEW s \in Request, s # r, req[s].accepted, req[s].committed,
               req'[r].accepted, req'[r].committed
        PROVE  req[r].key # req[s].key
    BY <2>1 DEF KeysGone, DbUsed, IsAt
  <2>2. req'[r].accepted /\ req'[r].committed => req'[r].key = req[r].key
    BY DEF DbUsed
  <2> QED BY <1>1, <2>1, <2>2 DEF KeysGone, DbUsed
<1> QED BY <1>3, <1>4, <1>5, <1>6 DEF KeysGone, DbUsed, IsAt, NoKey

(* A login that has ended stays so. *)
LEMMA LoginsGoneKept ==
  ASSUME DbTypes, DbFresh, LoginsGone, \A q \in Request : Progress(q),
         NEW r \in Request, StepBy(r), ~Finished(r) \/ UNCHANGED tableVars,
         OwnStep(r),
         DbLoggedOut(r)' /\ req'[r].committed =>
           /\ req'[r].loaded = req[r].loaded /\ req'[r].op = req[r].op
           /\ req[r].committed \/ (IsAt(r, "commit") /\ table' = work /\ work' = work),
         DbLoggedOut(r)' /\ req'[r].pc \in {"store", "commit"}
             => NoLogin(work', req'[r].loaded.auth)
  PROVE  LoginsGone'
<1>1. \A q \in Request : q # r => req'[q] = req[q] /\ (writer' = q <=> writer = q)
  BY OthersState
<1>2. \A q \in Request : req[q].op = "logout" /\ req[q].pc \in {"store", "commit"} => writer = q
  BY DEF Progress, Storing, Clearing
<1>3. ASSUME NEW q \in Request, req'[q].op = "logout", req'[q].loaded.auth # NoRequest,
             req'[q].committed
      PROVE  NoLogin(table', req'[q].loaded.auth) /\ NoLogin(work', req'[q].loaded.auth)
  <2> DEFINE k == req[q].loaded.auth
  <2>1. req[q].op = "logout" /\ req'[q].loaded = req[q].loaded /\ k # NoRequest
    BY <1>1, <1>3 DEF DbLoggedOut
  <2>2. CASE req[q].committed
    <3>1. k \in Request
      BY <2>1 DEF DbTypes, DbRecord, Session
    <3>2. Finished(k) /\ NoLogin(table, k) /\ NoLogin(work, k)
      BY <2>1, <2>2, <3>1 DEF LoginsGone, DbLoggedOut, DbFresh, Traces
    <3> HIDE DEF k
    <3>3. PICK l : l = k
      OBVIOUS
    <3>4. l \in Request /\ Finished(l) /\ NoLogin(table, l) /\ NoLogin(work, l)
      BY <3>1, <3>2, <3>3
    <3>5. NoLogin(table, l)' /\ NoLogin(work, l)'
      BY <3>4, GoneForGood
    <3>6. NoLogin(table', l) /\ NoLogin(work', l)
      BY <3>5 DEF NoLogin
    <3> QED BY <2>1, <3>3, <3>6 DEF k
  <2>3. CASE ~req[q].committed
    <3>1. q = r /\ IsAt(r, "commit") /\ table' = work /\ work' = work
      BY <1>1, <1>3, <2>3 DEF DbLoggedOut
    <3>2. NoLogin(work, k)
      BY <2>1, <3>1 DEF LoginsGone, DbLoggedOut, IsAt
    <3> QED BY <2>1, <3>1, <3>2
  <2> QED BY <2>2, <2>3
<1>4. ASSUME NEW q \in Request, req'[q].op = "logout", req'[q].loaded.auth # NoRequest,
             req'[q].pc \in {"store", "commit"}
      PROVE  NoLogin(work', req'[q].loaded.auth)
  <2>1. CASE q = r
    BY <1>4, <2>1 DEF DbLoggedOut
  <2>2. CASE q # r
    <3>1. writer = q /\ writer' = q /\ NoLogin(work, req[q].loaded.auth) /\ req'[q] = req[q]
      BY <1>1, <1>2, <1>4, <2>2 DEF LoginsGone, DbLoggedOut
    <3>2. UNCHANGED tableVars
      BY <2>2, <3>1, RequestAssumption DEF StepBy, Wrote, Ended
    <3> QED BY <3>1, <3>2 DEF tableVars
  <2> QED BY <2>1, <2>2
<1> QED BY <1>3, <1>4 DEF LoginsGone, DbLoggedOut, NoLogin

-----------------------------------------------------------------------------
(* Every action. *)

(* What is to be shown of a step of request r: for every browser... *)
StepFacts(r) ==
  /\ StepBy(r)
  /\ req'[r].pc \in {"handle"} \cup Storing /\ ~req'[r].new => req'[r].sid \in DbId
  /\ req'[r].pc = "rekey" => ~req'[r].new
  /\ Progress(r)'
  /\ IsAt(r, "commit") /\ writer = r => req'[r].pc \in Lasting
  /\ \A q \in Request : Traces(req'[r].loaded, q) => Finished(q) /\ q # r
  /\ Distinct(req'[r].loaded.keys)
(* ...and where browsers are patient. *)
PatientFacts(r) ==
  /\ RowOK(r)' /\ Solo' /\ OwnStep(r)
  /\ \A b \in Browser : cookie'[b] # cookie[b] /\ cookie'[b] # NoId => MadeFor(cookie'[b][2], b)
  /\ req'[r].sid # NoId => LET key == req'[r].sid[2]
                           IN key \in Key /\ (MadeFor(key, req'[r].browser) \/ key[1] = r)
  /\ DbUsed(r)' =>
       /\ req'[r].key = req[r].key /\ req[r].accepted
       /\ req[r].committed \/ (IsAt(r, "commit") /\ writer = r /\ table' = work /\ work' = work)
  /\ req'[r].accepted /\ req'[r].pc = "commit" => NoKey(work', req'[r].key)
  /\ req'[r].accepted /\ req'[r].pc \in {"store", "commit"} =>
       \A s \in Request : DbUsed(s) => req'[r].key # req[s].key
  /\ DbLoggedOut(r)' /\ req'[r].committed =>
       /\ req'[r].loaded = req[r].loaded /\ req'[r].op = req[r].op
       /\ req[r].committed \/ (IsAt(r, "commit") /\ table' = work /\ work' = work)
  /\ DbLoggedOut(r)' /\ req'[r].pc \in {"store", "commit"} => NoLogin(work', req'[r].loaded.auth)

(* Such a step keeps the invariant. *)
LEMMA StepKeepsInv ==
  ASSUME DbInv, NEW r \in Request, StepFacts(r), visit.patient => PatientFacts(r)
  PROVE  DbInv'
<1>1. DbTypes' 
  BY DbTypesKept DEF DbInv, StepFacts
<1>2. ASSUME NEW q \in Request PROVE Progress(q)'
  BY OthersProgress DEF DbInv, StepFacts
<1>3. DbFresh'
  BY DbFreshKept DEF DbInv, StepFacts
<1>4. ASSUME visit.patient PROVE Patient'
  <2>1. PatientFacts(r) /\ Patient /\ StepBy(r) /\ OwnStep(r) /\ DbTypes /\ DbFresh
        /\ Progress(r)' /\ \A q \in Request : Progress(q)
    BY <1>4 DEF DbInv, StepFacts, PatientFacts
  <2>2. \A q \in Request : writer = q => Active(q) /\ ~IsAt(q, "idle")
    BY <2>1 DEF Progress, Active, IsAt
  <2>3. ~Finished(r) \/ UNCHANGED tableVars
    <3>1. writer = r => ~Finished(r)
      BY <2>1 DEF Progress, Finished, Lasting
    <3> QED BY <2>1, <3>1 DEF StepBy, Wrote, Ended, Finished, Lasting
  <2>4. ASSUME NEW q \in Request PROVE RowOK(q)'
    <3>1. CASE q = r
      BY <2>1, <3>1 DEF PatientFacts
    <3>2. CASE q # r
      BY <2>1, <2>2, <3>2, OthersRowOK DEF Patient
    <3> QED BY <3>1, <3>2
  <2>5. Solo'
    BY <2>1 DEF PatientFacts
  <2>6. KeysOK'
    BY <2>1, KeysKept DEF Patient, PatientFacts
  <2>7. Separate'
    BY <2>1, <2>2, SeparateKept DEF Patient
  <2>8. OneRow(table)' /\ OneRow(work)'
    BY <2>1, OneRowKept DEF Patient
  <2>9. KeysGone'
    BY <2>1, <2>3, KeysGoneKept DEF Patient, PatientFacts
  <2>10. LoginsGone'
    BY <2>1, <2>3, LoginsGoneKept DEF Patient, PatientFacts
  <2> QED BY <2>4, <2>5, <2>6, <2>7, <2>8, <2>9, <2>10 DEF Patient
<1>5. visit' = visit
  BY DEF StepFacts, StepBy
<1> QED BY <1>1, <1>2, <1>3, <1>4, <1>5 DEF DbInv

(* The invariant holds at the start. *)
LEMMA DbInitInv == DbInit => DbInv
<1> SUFFICES ASSUME DbInit PROVE DbInv
  OBVIOUS
<1>1. visit \in Visit /\ cookie \in [Browser -> DbId \cup {NoId}]
  BY VisitsAssumption DEF DbInit, SessionInit
<1>2. /\ \A q \in Request : req[q] = NotSent
      /\ req \in [Request -> DbRecord]
  <2>1. NotSent \in DbRecord
    BY BlankType DEF NotSent, DbRecord, NoHandle, SessionOp
  <2> QED BY <2>1 DEF DbInit, SessionInit
<1>3. /\ table = [rows |-> <<>>, last |-> 0] /\ work = table /\ writer = NoRequest
      /\ table.rows = <<>> /\ table.last = 0 /\ DOMAIN table.rows = {}
  BY DEF DbInit
<1>4. \A q \in Request : writer # q
  BY <1>3, RequestAssumption
<1>5. /\ NotSent.pc = "idle" /\ NotSent.session = Blank /\ NotSent.loaded = Blank
      /\ ~NotSent.accepted /\ ~NotSent.committed /\ ~NotSent.new /\ NotSent.handle = NoHandle
      /\ NotSent.sid = NoId /\ NotSent.op = "look"
  BY DEF NotSent
<1>6. DbTypes
  <2>1. IsTable(table)
    BY <1>3 DEF IsTable
  <2> QED BY <1>1, <1>2, <1>3, <1>5, <2>1 DEF DbTypes, Storing, IsAt
<1>7. ASSUME NEW q \in Request PROVE Progress(q)
  BY <1>2, <1>4, <1>5 DEF Progress, Storing, Lasting
<1>8. DbFresh
  <2>1. \A q \in Request : ~Traces(Blank, q)
    BY BlankType, RequestAssumption DEF Traces
  <2> QED BY <1>2, <1>3, <1>5, <2>1, BlankType DEF DbFresh
<1>9. Patient
  <2>1. \A q \in Request : RowOK(q)
    BY <1>2, <1>5 DEF RowOK, RowIs, Holds, Left
  <2>2. Solo
    BY <1>2, <1>5 DEF Solo
  <2>3. KeysOK
    BY <1>2, <1>3, <1>5 DEF KeysOK, IsAt, DbInit, SessionInit
  <2>4. Separate /\ OneRow(table) /\ OneRow(work)
    BY <1>3 DEF Separate, SameRow, OneRow
  <2>5. KeysGone /\ LoginsGone
    BY <1>2, <1>5 DEF KeysGone, LoginsGone, DbUsed, DbLoggedOut, IsAt
  <2> QED BY <2>1, <2>2, <2>3, <2>4, <2>5 DEF Patient
<1> QED BY <1>6, <1>7, <1>8, <1>9 DEF DbInv

(* A patient browser sends a request when it has no other, with the id it   *)
(* was told.                                                                *)
LEMMA SendInv ==
  ASSUME DbInv, NEW r \in Request, NEW b \in Browser, NEW op \in visit.ops,
         NEW key \in Request \cup {NoRequest}, Send(r, b, op, key, "connect"),
         UNCHANGED tableVars
  PROVE  DbInv'
<1> DEFINE d == req'[r]
<1>1. /\ req' \in [Request -> DbRecord] /\ Others(r) /\ req[r].pc = "idle"
      /\ d.pc = "connect" /\ d.browser = b
      /\ d.sid = cookie[b] /\ ~d.new /\ d.handle = NoHandle
      /\ d.loaded = Blank /\ d.session = Blank /\ ~d.accepted /\ ~d.committed
  BY DbSendRecord DEF DbInv, IsAt
<1>2. /\ visit' = visit /\ cookie' = cookie
      /\ writer' = writer /\ table' = table /\ work' = work
      /\ visit.patient => ~Awaiting(b)
  BY DEF Send, tableVars
<1>3. StepBy(r)
  BY <1>1, <1>2 DEF StepBy, Finished, Lasting, IsAt, DbInv, DbTypes
<1>4. writer # r
  BY <1>1 DEF DbInv, Progress
<1> HIDE DEF d
<1>5. Progress(r)'
  BY <1>1, <1>2, <1>4, RequestAssumption DEF Progress, Storing, Lasting, d
<1>6. StepFacts(r)
  <2>1. \A q \in Request : ~Traces(Blank, q)
    BY BlankType, RequestAssumption DEF Traces
  <2> QED BY <1>1, <1>3, <1>5, <2>1, BlankType DEF StepFacts, Storing, IsAt, d
<1>7. ASSUME visit.patient PROVE PatientFacts(r)
  <2>1. RowOK(r)'
    BY <1>1 DEF RowOK, RowIs, Holds, Left, d
  <2>2. Solo'
    <3>1. \A q \in Request : q # r => req'[q] = req[q]
      BY <1>1 DEF Others
    <3>2. \A q \in Request : Active(q) => req[q].browser # b
      BY <1>2, <1>7 DEF Awaiting, Active
    <3>3. Solo
      BY <1>7 DEF DbInv, Patient
    <3> QED BY <1>1, <3>1, <3>2, <3>3 DEF Solo, Active, d
  <2>3. d.sid # NoId => d.sid[2] \in Key /\ MadeFor(d.sid[2], d.browser)
    <3>1. KeysOK /\ cookie[b] \in DbId \cup {NoId}
      BY <1>7 DEF DbInv, Patient, DbTypes
    <3> QED BY <1>1, <3>1, DbIdFacts DEF KeysOK
  <2> QED BY <1>1, <1>2, <2>1, <2>2, <2>3 DEF PatientFacts, OwnStep, tableVars, DbUsed, d
<1> QED BY <1>6, <1>7, StepKeepsInv

(* The id that the browser is told has a key that was made for it. *)
LEMMA ReceiveInv ==
  ASSUME DbInv, NEW r \in Request, Receive(r), UNCHANGED tableVars
  PROVE  DbInv'
<1> DEFINE c == req[r]
           d == req'[r]
<1>1. /\ req' \in [Request -> DbRecord] /\ Others(r) /\ c.pc = "done" /\ d.pc = "answered"
      /\ Moves(c, d) /\ d.sid = c.sid /\ d.new = c.new /\ d.committed = c.committed
  BY DbReceiveRecord DEF DbInv, IsAt
<1>2. /\ visit' = visit /\ writer' = writer /\ table' = table /\ work' = work
      /\ cookie' = IF c.status = "ok" /\ c.op # "download"
                   THEN [cookie EXCEPT ![c.browser] = c.sid] ELSE cookie
  BY DEF Receive, tableVars
<1>3. c \in DbRecord /\ cookie \in [Browser -> DbId \cup {NoId}] /\ Progress(r) /\ DbFresh
  BY DEF DbInv, DbTypes
<1> HIDE DEF c, d
<1>4. /\ cookie' \in [Browser -> DbId \cup {NoId}]
      /\ \A b \in Browser : cookie'[b] # cookie[b] => b = c.browser /\ cookie'[b] = c.sid
  BY <1>2, <1>3 DEF DbRecord
<1>5. StepBy(r)
  BY <1>1, <1>2, <1>4 DEF StepBy, Lasting, Moves, SameRequest, c, d
<1>6. writer # r
  BY <1>1, <1>3 DEF Progress, c
<1>7. Progress(r)'
  BY <1>1, <1>2, <1>3, <1>6 DEF Progress, Storing, Lasting, Moves, SameRequest, c, d
<1>8. StepFacts(r)
  BY <1>1, <1>3, <1>5, <1>7 DEF StepFacts, DbFresh, Moves, Lasting, Storing, IsAt, c, d
<1>9. ASSUME visit.patient PROVE PatientFacts(r)
  <2>1. RowOK(r)'
    BY <1>1 DEF RowOK, RowIs, Holds, Left, d
  <2>2. Solo /\ KeysOK
    BY <1>9 DEF DbInv, Patient
  <2>3. Solo'
    BY <1>1, <1>5, <2>2, SoloKept DEF Active, c
  <2>4. c.sid # NoId => c.sid[2] \in Key /\ MadeFor(c.sid[2], c.browser)
    <3>1. c.sid # NoId => c.sid \in DbId
      BY <1>3 DEF DbRecord
    <3> QED BY <1>1, <2>2, <3>1, DbIdFacts DEF KeysOK, IsAt, c
  <2>5. DbUsed(r)' => d.key = c.key /\ c.accepted /\ c.committed
    BY <1>1 DEF DbUsed, Moves, SameRequest, d
  <2>6. DbLoggedOut(r)' /\ d.committed => d.loaded = c.loaded /\ d.op = c.op /\ c.committed
    BY <1>1 DEF Moves, SameRequest, d
  <2>7. d.browser = c.browser
    BY <1>1 DEF Moves, SameRequest
  <2> QED BY <1>1, <1>2, <1>4, <2>1, <2>3, <2>4, <2>5, <2>6, <2>7
          DEF PatientFacts, OwnStep, tableVars, c, d
<1> QED BY <1>8, <1>9, StepKeepsInv

(* The row that is loaded is the one the browser was told of. *)
LEMMA ConnectInv ==
  ASSUME DbInv, NEW r \in Request, Connect(r)
  PROVE  DbInv'
<1> DEFINE c == req[r]
           d == req'[r]
<1>1. /\ req' \in [Request -> DbRecord] /\ Others(r) /\ c.pc = "connect"
      /\ SameRequest(c, d) /\ d.accepted = c.accepted /\ d.committed = c.committed
      /\ d.pc = "handle"
      /\ \/ /\ Matches(table.rows, c.sid) /\ c.sid \in DbId
            /\ d.handle = c.sid[1] /\ d.sid = c.sid /\ d.new = c.new
            /\ d.loaded = table.rows[c.sid[1]].session_data
            /\ d.session = table.rows[c.sid[1]].session_data
         \/ /\ d.sid = NoId /\ d.new /\ d.handle = c.handle
            /\ d.loaded = c.loaded /\ d.session = c.session
  BY ConnectRecord DEF DbInv, IsAt
<1>2. visit' = visit /\ cookie' = cookie /\ writer' = writer /\ table' = table /\ work' = work
  BY DEF Connect, tableVars
<1>3. c \in DbRecord /\ cookie \in [Browser -> DbId \cup {NoId}] /\ Progress(r) /\ DbFresh
  BY DEF DbInv, DbTypes
<1> HIDE DEF c, d
<1>4. StepBy(r)
  BY <1>1, <1>2, <1>3 DEF StepBy, Lasting, Finished, SameRequest, tableVars, c, d
<1>5. writer # r /\ ~c.accepted /\ ~c.committed /\ ~c.new
      /\ c.loaded = Blank /\ c.session = Blank /\ c.handle = NoHandle
  BY <1>1, <1>3 DEF Progress, Lasting, c
<1>6. /\ \A q \in Request : Traces(d.loaded, q) => Finished(q) /\ q # r
      /\ Distinct(d.loaded.keys) /\ d.session = d.loaded
  <2>1. CASE Matches(table.rows, c.sid) /\ d.loaded = table.rows[c.sid[1]].session_data
             /\ d.session = table.rows[c.sid[1]].session_data
    <3>1. c.sid[1] \in DOMAIN table.rows
      BY <2>1 DEF Matches
    <3>2. ~Finished(r)
      BY <1>1 DEF Finished, Lasting, c
    <3> QED BY <1>3, <2>1, <3>1, <3>2 DEF DbFresh
  <2>2. CASE d.loaded = Blank /\ d.session = Blank
    BY <2>2, BlankType, RequestAssumption DEF Traces
  <2> QED BY <1>1, <1>5, <2>1, <2>2
<1>7. d.new => d.loaded = Blank /\ d.sid = NoId /\ d.handle = NoHandle
  BY <1>1, <1>5
<1>8. Progress(r)'
  BY <1>1, <1>2, <1>5, <1>6, <1>7 DEF Progress, Storing, Lasting, d
<1>9. StepFacts(r)
  BY <1>1, <1>4, <1>5, <1>6, <1>8 DEF StepFacts, Storing, IsAt, c, d
<1>10. ASSUME visit.patient PROVE PatientFacts(r)
  <2>1. Solo /\ KeysOK
    BY <1>10 DEF DbInv, Patient
  <2>2. RowOK(r)'
    <3>1. View(r)' = table
      BY <1>2, <1>5 DEF View
    <3>2. ~d.new => Finds(table.rows, d.sid, d.loaded) /\ d.handle = d.sid[1]
      BY <1>1, <1>5 DEF Finds
    <3>3. RowIs(d, table.rows)
      BY <1>1, <3>2 DEF RowIs, Holds, Left
    <3> QED BY <3>1, <3>3 DEF RowOK, d
  <2>3. Solo'
    BY <1>1, <1>4, <2>1, SoloKept DEF Active, c
  <2>4. d.sid # NoId => d.sid[2] \in Key /\ MadeFor(d.sid[2], d.browser)
    <3>1. d.sid # NoId => d.sid = c.sid /\ c.sid \in DbId
      BY <1>1
    <3>2. d.browser = c.browser
      BY <1>1 DEF SameRequest
    <3> QED BY <1>1, <2>1, <3>1, <3>2, DbIdFacts DEF KeysOK, IsAt, c
  <2> QED BY <1>1, <1>2, <1>5, <2>2, <2>3, <2>4 DEF PatientFacts, OwnStep, tableVars, DbUsed, c, d
<1> QED BY <1>9, <1>10, StepKeepsInv

(* The session after the handler, see HandledBecomes. *)
LEMMA HandledDb ==
  ASSUME DbInv, NEW r \in Request, IsAt(r, "handle")
  PROVE  LET c == req[r]
         IN /\ c.session = c.loaded /\ Becomes(r, c.op, c.key, c.loaded, Handled(r))
            /\ Handled(r) \in Session
            /\ Accepts(r) => c.op = "form" /\ Has(c.loaded.keys, c.key) /\ ~c.new /\ c.key # r
            /\ writer # r /\ ~c.accepted /\ ~c.committed /\ ~Finished(r)
<1> DEFINE c == req[r]
<1>1. c \in DbRecord /\ Progress(r) /\ DbFresh /\ c.pc = "handle"
  BY DEF DbInv, DbTypes, IsAt
<1>2. c.session = c.loaded /\ writer # r /\ ~c.accepted /\ ~c.committed /\ ~Finished(r)
  BY <1>1 DEF Progress, Finished, Lasting
<1>3. ~Has(c.loaded.keys, r) /\ Distinct(c.loaded.keys)
  BY <1>1 DEF DbFresh, Traces
<1>4. c.op \in SessionOp /\ c.loaded \in Session
  BY <1>1 DEF DbRecord
<1>5. Becomes(r, c.op, c.key, c.loaded, Handled(r))
  BY <1>2, <1>3, <1>4, HandledBecomes
<1>6. Accepts(r) => c.op = "form" /\ Has(c.loaded.keys, c.key) /\ ~c.new /\ c.key # r
  <2>1. c.new => c.loaded = Blank
    BY <1>1 DEF Progress
  <2> QED BY <1>2, <1>3, <2>1, BlankType DEF Accepts
<1> QED BY <1>2, <1>5, <1>6 DEF Becomes

(* The record after the handler is what Progress says of it. *)
LEMMA HandledProgress ==
  ASSUME DbInv, NEW r \in Request, IsAt(r, "handle"), writer' \in Request \cup {NoRequest},
         LET c == req[r]
             d == req'[r]
         IN /\ SameRequest(c, d) /\ d.loaded = c.loaded /\ d.committed = c.committed
            /\ d.session = Handled(r) /\ d.accepted = Accepts(r)
            /\ d.pc \in {"store", "rekey", "log"}
            /\ d.pc \in {"rekey", "log"} => c.op = "login"
            /\ c.op \in Clearing => writer' = r
            /\ Accepts(r) => writer' = r /\ ~d.new
            /\ writer' = r => d.pc # "rekey"
  PROVE  Progress(r)'
<1> DEFINE c == req[r]
           d == req'[r]
           h == Handled(r)
<1>1. /\ Becomes(r, c.op, c.key, c.loaded, h) /\ ~c.committed
      /\ Accepts(r) => c.op = "form" /\ Has(c.loaded.keys, c.key) /\ c.key # r
  BY HandledDb
<1>2. /\ d.op = c.op /\ d.key = c.key /\ d.loaded = c.loaded /\ ~d.committed
      /\ d.session = h /\ d.accepted = Accepts(r)
      /\ d.pc \in {"store", "rekey", "log"}
      /\ d.pc \in {"rekey", "log"} => c.op = "login"
      /\ c.op \in Clearing => writer' = r
      /\ Accepts(r) => writer' = r /\ ~d.new
      /\ writer' = r => d.pc # "rekey"
  BY <1>1 DEF SameRequest
<1> HIDE DEF c, d, h
<1>3. /\ c.op \in Clearing => Cleared(h, r)
      /\ h.auth \in {c.loaded.auth, NoRequest, r}
      /\ \A k \in Request : Has(h.keys, k) => Has(c.loaded.keys, k) \/ k = r
      /\ h.seen \subseteq c.loaded.seen \cup {r} /\ Distinct(h.keys)
      /\ Accepts(r) => ~Has(h.keys, c.key) /\ Has(h.keys, r)
  BY <1>1 DEF Becomes, Clearing
<1> QED BY <1>1, <1>2, <1>3 DEF Progress, Storing, Lasting, d

(* A request whose handler is done, and what its browser's row is then. *)
LEMMA HandleFacts ==
  ASSUME DbInv, NEW r \in Request,
         HandleReading(r) \/ HandleForm(r) \/ HandleClear(r) \/ HandleLogin(r),
         UNCHANGED tableVars \/ (\E i \in Nat : Wrote(r, i)),
         HandleClear(r) \/ HandleForm(r) => writer' = r,
         HandleLogin(r) \/ HandleReading(r) => writer' = writer
  PROVE  /\ StepFacts(r) /\ IsAt(r, "handle")
         /\ LET c == req[r]
                d == req'[r]
            IN /\ SameRequest(c, d) /\ d.sid = c.sid /\ d.handle = c.handle
               /\ d.loaded = c.loaded /\ d.committed = c.committed
               /\ d.session = Handled(r) /\ d.accepted = Accepts(r)
               /\ \/ /\ HandleReading(r) \/ HandleForm(r)
                     /\ d.pc = "store" /\ d.new = c.new
                  \/ /\ HandleClear(r)
                     /\ d.pc = "store" /\ d.new = (c.new \/ c.op = "logout")
                  \/ /\ HandleLogin(r)
                     /\ IF c.new THEN d.pc = "log" /\ d.new
                        ELSE IF Matches(table.rows, c.sid) THEN d.pc = "rekey" /\ ~d.new
                        ELSE d.pc = "log" /\ d.new
<1> DEFINE c == req[r]
           d == req'[r]
<1>1. IsAt(r, "handle") /\ visit' = visit /\ cookie' = cookie
  BY DEF HandleReading, HandleForm, HandleClear, HandleLogin
<1>2. Handled(r) \in Session /\ c \in DbRecord /\ DbTypes /\ DbFresh /\ writer # r /\ ~Finished(r)
      /\ (Accepts(r) => c.op = "form" /\ ~c.new)
  BY <1>1, HandledDb DEF DbInv, DbTypes
<1> DEFINE Record ==
      /\ SameRequest(c, d) /\ d.sid = c.sid /\ d.handle = c.handle
      /\ d.loaded = c.loaded /\ d.committed = c.committed
      /\ d.session = Handled(r) /\ d.accepted = Accepts(r)
      /\ \/ /\ HandleReading(r) \/ HandleForm(r)
            /\ d.pc = "store" /\ d.new = c.new
         \/ /\ HandleClear(r)
            /\ d.pc = "store" /\ d.new = (c.new \/ c.op = "logout")
         \/ /\ HandleLogin(r)
            /\ IF c.new THEN d.pc = "log" /\ d.new
               ELSE IF Matches(table.rows, c.sid) THEN d.pc = "rekey" /\ ~d.new
               ELSE d.pc = "log" /\ d.new
<1>3. req' \in [Request -> DbRecord] /\ Others(r) /\ Record
  BY <1>2, HandleRecordDb
<1>4. StepBy(r)
  BY <1>1, <1>2, <1>3 DEF StepBy, SameRequest, DbTypes
<1>5. d.pc = "rekey" => ~d.new
  BY <1>3
<1>6. c.op \in SessionOp /\ (HandleLogin(r) => c.op = "login") /\ (HandleForm(r) => c.op = "form")
      /\ (HandleReading(r) => c.op \notin Clearing /\ ~Accepts(r))
      /\ (HandleClear(r) => c.op \in Clearing)
  BY <1>2 DEF DbRecord, HandleLogin, HandleForm, HandleReading, HandleClear, Accepts, Clearing
<1>7. Progress(r)'
  <2>1. c.op \in Clearing => writer' = r
    BY <1>3, <1>6 DEF Clearing
  <2>2. Accepts(r) => writer' = r /\ ~d.new
    BY <1>2, <1>3, <1>6 DEF Clearing
  <2>3. writer' = r => d.pc # "rekey"
    BY <1>2, <1>3
  <2>4. d.pc \in {"store", "rekey", "log"} /\ (d.pc \in {"rekey", "log"} => c.op = "login")
    BY <1>3, <1>6
  <2>5. writer' \in Request \cup {NoRequest}
    BY <1>2 DEF DbTypes, Wrote, tableVars
  <2> QED BY <1>1, <1>3, <2>1, <2>2, <2>3, <2>4, <2>5, HandledProgress
<1>8. ~d.new => d.sid \in DbId
  BY <1>1, <1>2, <1>3 DEF DbTypes, IsAt
<1>9. StepFacts(r)
  BY <1>1, <1>2, <1>3, <1>4, <1>5, <1>7, <1>8 DEF StepFacts, DbFresh, IsAt
<1> QED BY <1>1, <1>3, <1>9

(* A request that moves on with the id it has, and has committed nothing.   *)
LEMMA OngoingPatient ==
  ASSUME DbInv, visit.patient, NEW r \in Request, StepFacts(r), Active(r),
         req'[r].browser = req[r].browser,
         req'[r].sid = req[r].sid \/ (req'[r].sid \in DbId /\ req'[r].sid[2][1] = r)
           \/ (req'[r].sid \in DbId /\ req[r].sid # NoId /\ req'[r].sid[2] = req[r].sid[2]),
         cookie' = cookie, ~req'[r].committed,
         RowOK(r)', OwnStep(r),
         req'[r].accepted /\ req'[r].pc = "commit" => NoKey(work', req'[r].key),
         req'[r].accepted /\ req'[r].pc \in {"store", "commit"} =>
           \A s \in Request : DbUsed(s) => req'[r].key # req[s].key,
         DbLoggedOut(r)' /\ req'[r].pc \in {"store", "commit"}
             => NoLogin(work', req'[r].loaded.auth)
  PROVE  PatientFacts(r)
<1> DEFINE c == req[r]
           d == req'[r]
<1>1. Solo /\ KeysOK /\ StepBy(r) /\ c \in DbRecord
  BY DEF DbInv, Patient, StepFacts, DbTypes
<1>2. Solo'
  BY <1>1, SoloKept
<1>3. d.sid # NoId => d.sid[2] \in Key /\ (MadeFor(d.sid[2], d.browser) \/ d.sid[2][1] = r)
  <2>1. c.sid # NoId => c.sid \in DbId /\ MadeFor(c.sid[2], c.browser)
    BY <1>1 DEF KeysOK, Active, IsAt, DbRecord
  <2> QED BY <2>1, DbIdFacts
<1> QED BY <1>2, <1>3 DEF PatientFacts, DbUsed

(* A handler that only reads. *)
LEMMA HandleReadingInv ==
  ASSUME DbInv, NEW r \in Request, HandleReading(r)
  PROVE  DbInv'
<1> DEFINE c == req[r]
           d == req'[r]
<1>1. /\ c.op \notin Clearing /\ ~Accepts(r) /\ writer' = writer /\ table' = table /\ work' = work
      /\ cookie' = cookie /\ UNCHANGED tableVars
  BY DEF HandleReading, tableVars, Clearing
<1>2. /\ StepFacts(r) /\ c.pc = "handle" /\ SameRequest(c, d) /\ d.sid = c.sid
      /\ d.handle = c.handle
      /\ d.loaded = c.loaded /\ d.committed = c.committed /\ ~d.accepted
      /\ d.pc = "store" /\ d.new = c.new
  <2>1. ~HandleClear(r) /\ ~HandleLogin(r) /\ ~HandleForm(r)
    BY DEF HandleReading, HandleClear, HandleLogin, HandleForm
  <2> QED BY <1>1, <2>1, HandleFacts DEF IsAt
<1>3. writer # r /\ ~c.committed /\ Progress(r) /\ DbTypes
  BY <1>2, HandledDb DEF DbInv, IsAt
<1> HIDE DEF c, d
<1>4. ASSUME visit.patient PROVE PatientFacts(r)
  <2>1. RowIs(c, table.rows)
    BY <1>3, <1>4 DEF DbInv, Patient, RowOK, View, c
  <2>2. c.new => c.loaded = Blank /\ c.sid = NoId /\ c.handle = NoHandle
    BY <1>2, <1>3 DEF Progress, c
  <2>3. NoHandle \notin DOMAIN table.rows
    BY <1>3, RowFacts DEF DbTypes
  <2>4. RowIs(d, table.rows)
    BY <1>1, <1>2, <2>1, <2>2, <2>3 DEF RowIs, Holds, Left, SameRequest
  <2>5. RowOK(r)'
    BY <1>1, <1>3, <2>4 DEF RowOK, View, d
  <2>6. ~(DbLoggedOut(r)')
    BY <1>1, <1>2 DEF DbLoggedOut, Clearing, SameRequest, d
  <2> QED BY <1>1, <1>2, <1>3, <1>4, <2>5, <2>6, OngoingPatient
      DEF Active, OwnStep, SameRequest, c, d
<1> QED BY <1>2, <1>4, StepKeepsInv

(* The handler of a form that is accepted: the key was in the row, and is   *)
(* not used up before.                                                      *)
LEMMA HandleFormInv ==
  ASSUME DbInv, NEW r \in Request, HandleForm(r)
  PROVE  DbInv'
<1> DEFINE c == req[r]
           d == req'[r]
<1>1. /\ Accepts(r) /\ c.op = "form" /\ writer' = r /\ table' = table /\ work' = work
      /\ c.pc = "handle"
      /\ writer \in {r, NoRequest} /\ cookie' = cookie
  BY DEF HandleForm, Accepts, Write, CanWrite, IsAt
<1>2. writer # r /\ ~c.committed /\ ~c.new /\ Has(c.loaded.keys, c.key)
      /\ Progress(r) /\ DbTypes /\ ~Finished(r)
  BY <1>1, HandledDb DEF DbInv, IsAt
<1>3. work = table /\ NoHandle \notin DOMAIN work.rows
  BY <1>1, <1>2, RowFacts DEF DbTypes
<1>4. Wrote(r, NoHandle) /\ NoHandle \in Nat
  BY <1>1, <1>3, <1>2 DEF Wrote, NoHandle, SameIn, DbTypes, IsTable
<1>5. /\ StepFacts(r) /\ SameRequest(c, d) /\ d.sid = c.sid /\ d.handle = c.handle
      /\ d.loaded = c.loaded /\ d.committed = c.committed
      /\ d.pc = "store" /\ d.new = c.new
  <2>1. ~HandleClear(r) /\ ~HandleLogin(r)
    BY DEF HandleForm, HandleClear, HandleLogin, Accepts
  <2>2. ~HandleReading(r)
    BY DEF HandleForm, HandleReading
  <2> QED BY <1>1, <1>4, <2>1, <2>2, HandleFacts DEF IsAt
<1> HIDE DEF c, d
<1>6. ASSUME visit.patient PROVE PatientFacts(r)
  <2>1. RowIs(c, table.rows) /\ KeysGone
    BY <1>2, <1>6 DEF DbInv, Patient, RowOK, View, c
  <2>2. RowIs(d, table.rows)
    BY <1>1, <1>2, <1>5, <2>1 DEF RowIs, Holds, Left, SameRequest, Clearing
  <2>3. RowOK(r)'
    BY <1>1, <1>3, <2>2 DEF RowOK, View, d
  <2>4. OwnStep(r)
    BY <1>1, <1>3, <1>4 DEF OwnStep, Owns
  <2>5. \A s \in Request : DbUsed(s) => d.key # req[s].key
    <3>1. Finds(table.rows, c.sid, c.loaded)
      BY <1>1, <1>2, <2>1 DEF RowIs, Holds
    <3>2. ~NoKey(table, c.key)
      BY <1>2, <3>1 DEF Finds, Matches, NoKey
    <3> QED BY <1>5, <2>1, <3>2 DEF KeysGone, SameRequest
  <2>6. ~(DbLoggedOut(r)')
    BY <1>1, <1>5 DEF DbLoggedOut, SameRequest, d
  <2> QED BY <1>1, <1>2, <1>5, <1>6, <2>3, <2>4, <2>5, <2>6, OngoingPatient
      DEF Active, SameRequest, c, d
<1> QED BY <1>5, <1>6, StepKeepsInv

(* The handler of a login: the row with the old key is still there, or the  *)
(* session is new.                                                          *)
LEMMA HandleLoginInv ==
  ASSUME DbInv, NEW r \in Request, HandleLogin(r)
  PROVE  DbInv'
<1> DEFINE c == req[r]
           d == req'[r]
<1>1. /\ c.op = "login" /\ writer' = writer /\ table' = table /\ work' = work /\ c.pc = "handle"
      /\ cookie' = cookie /\ UNCHANGED tableVars
  BY DEF HandleLogin, tableVars, IsAt
<1>2. /\ StepFacts(r) /\ SameRequest(c, d) /\ d.sid = c.sid /\ d.handle = c.handle
      /\ d.loaded = c.loaded /\ d.committed = c.committed /\ d.accepted = Accepts(r)
      /\ IF c.new THEN d.pc = "log" /\ d.new
         ELSE IF Matches(table.rows, c.sid) THEN d.pc = "rekey" /\ ~d.new
         ELSE d.pc = "log" /\ d.new
  <2>1. ~HandleClear(r) /\ ~HandleReading(r) /\ ~HandleForm(r)
    BY DEF HandleForm, HandleClear, HandleLogin, HandleReading, Accepts
  <2> QED BY <1>1, <2>1, HandleFacts DEF IsAt
<1>3. writer # r /\ ~c.committed /\ ~Accepts(r) /\ Progress(r) /\ DbTypes
  BY <1>1, HandledDb DEF DbInv, IsAt
<1> HIDE DEF c, d
<1>4. ASSUME visit.patient PROVE PatientFacts(r)
  <2>1. RowIs(c, table.rows)
    BY <1>3, <1>4 DEF DbInv, Patient, RowOK, View, c
  <2>2. c.new => c.loaded = Blank /\ c.sid = NoId /\ c.handle = NoHandle
    BY <1>1, <1>3 DEF Progress, c
  <2>3. ~c.new => Finds(table.rows, c.sid, c.loaded) /\ c.handle = c.sid[1] /\ d.pc = "rekey"
    BY <1>1, <1>2, <2>1 DEF RowIs, Holds, Finds
  <2>4. RowIs(d, table.rows)
    BY <1>1, <1>2, <2>2, <2>3 DEF RowIs, Holds, Left, SameRequest, Clearing
  <2>5. RowOK(r)'
    BY <1>1, <1>3, <2>4 DEF RowOK, View, d
  <2>6. ~(DbLoggedOut(r)') /\ ~d.accepted
    BY <1>1, <1>2, <1>3 DEF DbLoggedOut, SameRequest, d
  <2> QED BY <1>1, <1>2, <1>3, <1>4, <2>5, <2>6, OngoingPatient
      DEF Active, OwnStep, SameRequest, c, d
<1> QED BY <1>2, <1>4, StepKeepsInv

(* The handler that calls clear: the row it deletes is that of its browser, *)
(* and nobody else uses it.                                                 *)
LEMMA HandleClearInv ==
  ASSUME DbInv, NEW r \in Request, HandleClear(r)
  PROVE  DbInv'
<1> DEFINE c == req[r]
           d == req'[r]
           i == IF c.sid = NoId THEN NoHandle ELSE c.sid[1]
<1>1. /\ c.op \in Clearing /\ writer' = r /\ table' = table /\ c.pc = "handle"
      /\ writer \in {r, NoRequest} /\ cookie' = cookie
      /\ work' = IF c.sid = NoId THEN work
                 ELSE [work EXCEPT !.rows = [j \in DOMAIN @ \ {c.sid[1]} |-> @[j]]]
  BY DEF HandleClear, Write, CanWrite, IsAt, Clearing
<1>2. writer # r /\ ~c.committed /\ ~Accepts(r) /\ Progress(r) /\ DbTypes /\ ~Finished(r)
      /\ c \in DbRecord
  BY <1>1, HandledDb DEF DbInv, IsAt, Clearing, DbTypes
<1>3. work = table /\ NoHandle \notin DOMAIN work.rows /\ IsTable(work)
  BY <1>1, <1>2, RowFacts DEF DbTypes
<1>4. i \in Nat
  BY <1>2, DbIdFacts DEF DbRecord, NoHandle
<1>5. /\ IsTable(work') /\ work'.last = work.last /\ DOMAIN work'.rows = DOMAIN work.rows \ {i}
      /\ \A j \in DOMAIN work'.rows : work'.rows[j] = work.rows[j]
  <2>1. CASE c.sid = NoId
    BY <1>1, <1>3, <2>1
  <2>2. CASE c.sid # NoId
    <3>1. work' = WithoutRow(work, i)
      BY <1>1, <2>2 DEF WithoutRow
    <3> HIDE DEF i
    <3> QED BY <1>3, <3>1, RowTaken
  <2> QED BY <2>1, <2>2
<1> HIDE DEF i
<1>6. Wrote(r, i)
  <2>1. work.last <= work'.last
    BY <1>3, <1>5 DEF IsTable
  <2> QED BY <1>1, <1>5, <2>1 DEF Wrote, SameIn
<1>7. /\ StepFacts(r) /\ SameRequest(c, d) /\ d.sid = c.sid /\ d.handle = c.handle
      /\ d.loaded = c.loaded /\ d.committed = c.committed /\ d.accepted = Accepts(r)
      /\ d.pc = "store" /\ d.new = (c.new \/ c.op = "logout")
  <2>1. ~HandleLogin(r) /\ ~HandleReading(r) /\ ~HandleForm(r)
    BY DEF HandleForm, HandleClear, HandleLogin, HandleReading, Accepts
  <2> QED BY <1>1, <1>4, <1>6, <2>1, HandleFacts DEF IsAt
<1> HIDE DEF c, d
<1>8. ASSUME visit.patient PROVE PatientFacts(r)
  <2>1. RowIs(c, work.rows) /\ KeysOK /\ OneRow(work)
    BY <1>2, <1>3, <1>8 DEF DbInv, Patient, RowOK, View, c
  <2>2. c.new => c.loaded = Blank /\ c.sid = NoId /\ c.handle = NoHandle
    BY <1>1, <1>2 DEF Progress, c
  <2>3. ~c.new => Finds(work.rows, c.sid, c.loaded) /\ c.handle = c.sid[1] /\ c.sid # NoId
    BY <1>1, <2>1 DEF RowIs, Holds, Finds, Matches
  <2>4. c.handle \notin DOMAIN work'.rows
    BY <1>3, <1>5, <2>2, <2>3 DEF i
  <2>5. RowIs(d, work'.rows)
    BY <1>1, <1>7, <2>2, <2>4 DEF RowIs, Holds, Left, SameRequest, Clearing
  <2>6. RowOK(r)'
    BY <1>1, <2>5 DEF RowOK, View, d
  <2>7. OwnStep(r)
    <3>1. i \in DOMAIN work.rows => MadeFor(work.rows[i].unique_key, c.browser)
      <4>1. CASE c.new
        BY <1>3, <2>2, <4>1 DEF i
      <4>2. CASE ~c.new
        <5>1. work.rows[i].unique_key = c.sid[2]
          BY <2>3, <4>2 DEF Finds, Matches, i
        <5>2. MadeFor(c.sid[2], c.browser)
          BY <1>1, <2>1, <2>3, <4>2 DEF KeysOK, IsAt, c
        <5> QED BY <5>1, <5>2
      <4> QED BY <4>1, <4>2
    <3>2. Owns(r, i)
      BY <1>5, <3>1 DEF Owns, c
    <3> QED BY <1>4, <1>6, <3>2 DEF OwnStep
  <2>8. DbLoggedOut(r)' => NoLogin(work', d.loaded.auth)
    <3> SUFFICES ASSUME c.loaded.auth # NoRequest PROVE NoLogin(work', c.loaded.auth)
      BY <1>7 DEF DbLoggedOut, SameRequest, c, d
    <3> DEFINE l == c.loaded.auth
    <3>1. ~c.new /\ l \in Request
      BY <1>2, <2>2, BlankType DEF DbRecord, Session
    <3>2. i \in DOMAIN work.rows /\ work.rows[i].session_data = c.loaded
      BY <2>3, <3>1 DEF Finds, Matches, i
    <3>3. Traces(work.rows[i].session_data, l)
      BY <3>2 DEF Traces
    <3> HIDE DEF l
    <3>4. ASSUME NEW j \in DOMAIN work.rows, work.rows[j].session_data.auth = l PROVE j = i
      <4>1. Traces(work.rows[j].session_data, l)
        BY <3>4 DEF Traces
      <4> QED BY <2>1, <3>1, <3>2, <3>3, <4>1 DEF OneRow
    <3>5. NoLogin(work', l)
      BY <1>5, <3>4 DEF NoLogin
    <3> QED BY <3>5 DEF l
  <2> QED BY <1>1, <1>2, <1>7, <1>8, <2>6, <2>7, <2>8, OngoingPatient DEF Active, SameRequest, c, d
<1> QED BY <1>7, <1>8, StepKeepsInv

(* A request that moves on with its session. *)
LEMMA MovesFacts ==
  ASSUME DbInv, NEW r \in Request, StepBy(r), Moves(req[r], req'[r]),
         ~Finished(r), req'[r].new = req[r].new, ~req[r].new => req'[r].sid \in DbId,
         req'[r].committed = req[r].committed, req'[r].pc # "rekey", Progress(r)',
         IsAt(r, "commit") /\ writer = r => req'[r].pc \in Lasting
  PROVE  StepFacts(r)
<1>1. DbFresh
  BY DEF DbInv
<1> QED BY <1>1 DEF StepFacts, DbFresh, Moves

(* The row gets its new key in the transaction of the login, which has the  *)
(* only write lock from here on.                                            *)
LEMMA RekeyInv ==
  ASSUME DbInv, NEW r \in Request, Rekey(r)
  PROVE  DbInv'
<1> DEFINE c == req[r]
           d == req'[r]
           i == c.sid[1]
           key == FreshKey(r, 1)
<1>1. /\ c.pc = "rekey" /\ writer \in {r, NoRequest} /\ writer' = r /\ table' = table
      /\ visit' = visit /\ cookie' = cookie
      /\ work' = IF i \in DOMAIN work.rows THEN [work EXCEPT !.rows[i].unique_key = key] ELSE work
  BY DEF Rekey, IsAt, CanWrite, Write
<1>2. DbTypes /\ DbFresh /\ Progress(r) /\ writer # r /\ ~c.new /\ c \in DbRecord /\ ~Finished(r)
  BY <1>1 DEF DbInv, DbTypes, Progress, IsAt, Finished, Lasting
<1>3. /\ req' \in [Request -> DbRecord] /\ Others(r) /\ c.sid \in DbId /\ Moves(c, d)
      /\ d.pc = "log" /\ d.sid = <<i, key>> /\ d.sid \in DbId
      /\ d.new = c.new /\ d.committed = c.committed
  BY <1>2, RekeyRecord
<1>4. work = table /\ IsTable(work) /\ i \in Nat /\ key \in Key /\ key[1] = r
  BY <1>1, <1>2, <1>3, DbIdFacts DEF DbTypes
<1> HIDE DEF i, key, c, d
<1>5. /\ IsTable(work') /\ work'.last = work.last /\ DOMAIN work'.rows = DOMAIN work.rows
      /\ i \in DOMAIN work.rows =>
           work'.rows[i].unique_key = key /\ work'.rows[i].session_data = work.rows[i].session_data
      /\ \A j \in DOMAIN work.rows : j # i => work'.rows[j] = work.rows[j]
  <2>1. CASE i \notin DOMAIN work.rows
    BY <1>1, <1>4, <2>1
  <2>2. CASE i \in DOMAIN work.rows
    <3>1. work' = WithKey(work, i, key)
      BY <1>1, <2>2 DEF WithKey
    <3> QED BY <1>4, <2>2, <3>1, RowRekeyed
  <2> QED BY <2>1, <2>2
<1>6. Wrote(r, i)
  <2>1. work.last <= work'.last
    BY <1>4, <1>5 DEF IsTable
  <2>2. i \in DOMAIN work'.rows => Distinct(work'.rows[i].session_data.keys)
    BY <1>2, <1>5 DEF DbFresh
  <2>3. i \in DOMAIN work'.rows => \A q \in Request :
          Traces(work'.rows[i].session_data, q) => Finished(q)
    BY <1>2, <1>4, <1>5 DEF DbFresh
  <2> QED BY <1>1, <1>5, <2>1, <2>2, <2>3 DEF Wrote, SameIn, c
<1>7. StepBy(r)
  BY <1>1, <1>2, <1>3, <1>4, <1>6 DEF StepBy, Moves, SameRequest, DbTypes, c, d
<1>8. Progress(r)'
  BY <1>1, <1>2, <1>3 DEF Progress, Storing, Lasting, Moves, SameRequest, c, d
<1>9. StepFacts(r)
  BY <1>1, <1>2, <1>3, <1>7, <1>8, MovesFacts DEF IsAt, c, d
<1>10. ASSUME visit.patient PROVE PatientFacts(r)
  <2>1. RowIs(c, work.rows) /\ KeysOK
    BY <1>2, <1>4, <1>10 DEF DbInv, Patient, RowOK, View, c
  <2>2. Finds(work.rows, c.sid, c.loaded) /\ c.handle = i
    BY <1>1, <2>1 DEF RowIs, Holds, i
  <2>3. i \in DOMAIN work.rows /\ work.rows[i].session_data = c.loaded
        /\ work.rows[i].unique_key = c.sid[2] /\ c.sid # NoId
    BY <2>2 DEF Finds, Matches, i
  <2>4. d.sid[1] = i /\ d.sid[2] = key /\ d.sid # NoId
    BY <1>3, DbIdFacts
  <2>5. RowIs(d, work'.rows)
    <3>1. Finds(work'.rows, d.sid, d.loaded) /\ d.handle = d.sid[1]
      BY <1>3, <1>5, <2>2, <2>3, <2>4 DEF Finds, Matches, Moves
    <3> QED BY <1>2, <1>3, <3>1 DEF RowIs, Holds, Left
  <2>6. RowOK(r)'
    BY <1>1, <2>5 DEF RowOK, View, d
  <2>7. Owns(r, i)
    <3>1. MadeFor(work.rows[i].unique_key, c.browser)
      BY <1>1, <2>1, <2>3 DEF KeysOK, IsAt, c
    <3>2. req'[key[1]].pc # "idle" /\ req'[key[1]].browser = c.browser
      BY <1>3, <1>4 DEF Moves, SameRequest, d
    <3> QED BY <1>5, <2>3, <3>1, <3>2 DEF Owns, c
  <2> QED BY <1>1, <1>2, <1>3, <1>4, <1>6, <1>9, <1>10, <2>4, <2>6, <2>7, OngoingPatient
          DEF Active, OwnStep, Moves, SameRequest, Progress, Lasting, c, d
<1> QED BY <1>9, <1>10, StepKeepsInv

(* The event of a login is logged. *)
LEMMA LogEventInv ==
  ASSUME DbInv, NEW r \in Request, LogEvent(r)
  PROVE  DbInv'
<1> DEFINE c == req[r]
           d == req'[r]
<1>1. /\ c.pc = "log" /\ writer \in {r, NoRequest} /\ writer' = r /\ table' = table
      /\ visit' = visit /\ cookie' = cookie /\ work' = work
  BY DEF LogEvent, IsAt, CanWrite, Write
<1>2. DbTypes /\ DbFresh /\ Progress(r) /\ c \in DbRecord /\ ~Finished(r) /\ c.op = "login"
      /\ ~c.committed /\ ~c.accepted
  BY <1>1 DEF DbInv, DbTypes, Progress, Finished, Lasting, Storing
<1>3. /\ req' \in [Request -> DbRecord] /\ Others(r) /\ Moves(c, d)
      /\ d.pc = "store" /\ d.sid = c.sid
      /\ d.new = c.new /\ d.committed = c.committed
  BY <1>2, LogRecord
<1>4. IsTable(work) /\ NoHandle \notin DOMAIN work.rows /\ NoHandle \in Nat
  BY <1>2, RowFacts DEF DbTypes, NoHandle
<1> HIDE DEF c, d
<1>5. Wrote(r, NoHandle)
  <2>1. work.last <= work'.last
    BY <1>1, <1>4 DEF IsTable
  <2> QED BY <1>1, <1>4, <2>1 DEF Wrote, SameIn, c
<1>6. StepBy(r)
  BY <1>1, <1>2, <1>3, <1>4, <1>5 DEF StepBy, Moves, SameRequest, DbTypes, c, d
<1>7. Progress(r)'
  BY <1>1, <1>2, <1>3 DEF Progress, Storing, Lasting, Moves, SameRequest, c, d
<1>8. ~c.new => d.sid \in DbId
  BY <1>1, <1>2, <1>3 DEF DbTypes, Storing, c
<1>9. StepFacts(r)
  BY <1>1, <1>2, <1>3, <1>6, <1>7, <1>8, MovesFacts DEF IsAt, c, d
<1>10. ASSUME visit.patient PROVE PatientFacts(r)
  <2>1. RowIs(c, work.rows)
    <3>1. View(r) = work
      BY <1>1, <1>2, RequestAssumption DEF View, DbTypes
    <3> QED BY <1>10, <3>1 DEF DbInv, Patient, RowOK, c
  <2>2. RowIs(d, work.rows)
    BY <1>1, <1>2, <1>3, <1>4, <2>1 DEF RowIs, Holds, Left, Moves, SameRequest, Clearing
  <2>3. RowOK(r)'
    BY <1>1, <2>2 DEF RowOK, View, d
  <2>4. Owns(r, NoHandle)
    BY <1>1, <1>4 DEF Owns
  <2>5. ~(DbLoggedOut(r)') /\ ~d.accepted
    BY <1>2, <1>3 DEF DbLoggedOut, Moves, SameRequest, d
  <2> QED BY <1>1, <1>2, <1>3, <1>4, <1>5, <1>9, <1>10, <2>3, <2>4, <2>5, OngoingPatient
          DEF Active, OwnStep, Moves, SameRequest, c, d
<1> QED BY <1>9, <1>10, StepKeepsInv

(* A session that is not stored is in its row already. *)
LEMMA StoreNothingInv ==
  ASSUME DbInv, NEW r \in Request, DbStoreNothing(r)
  PROVE  DbInv'
<1> DEFINE c == req[r]
           d == req'[r]
<1>1. /\ c.pc = "store" /\ UNCHANGED tableVars /\ writer' = writer /\ table' = table
      /\ visit' = visit /\ cookie' = cookie /\ work' = work
      /\ c.op # "download" => ~c.new /\ c.session = c.loaded
  BY DEF DbStoreNothing, IsAt, tableVars, ToStore, Unchanged
<1>2. DbTypes /\ DbFresh /\ Progress(r) /\ c \in DbRecord /\ ~Finished(r) /\ ~c.committed
  BY <1>1 DEF DbInv, DbTypes, Progress, Finished, Lasting
<1>3. /\ req' \in [Request -> DbRecord] /\ Others(r) /\ Moves(c, d)
      /\ d.pc = "commit" /\ d.sid = c.sid
      /\ d.new = c.new /\ d.committed = c.committed
  BY <1>2, StoreNothingRecord
<1> HIDE DEF c, d
<1>4. StepBy(r)
  BY <1>1, <1>2, <1>3 DEF StepBy, Moves, SameRequest, DbTypes, c, d
<1>5. Progress(r)'
  BY <1>1, <1>2, <1>3 DEF Progress, Storing, Lasting, Moves, SameRequest, c, d
<1>6. ~c.new => d.sid \in DbId
  BY <1>1, <1>2, <1>3 DEF DbTypes, Storing, c
<1>7. StepFacts(r)
  BY <1>1, <1>2, <1>3, <1>4, <1>5, <1>6, MovesFacts DEF IsAt, c, d
(* A session that is the same as it was loaded was not cleared, and no form *)
(* was accepted.                                                            *)
<1>8. c.op # "download" => c.op \notin Clearing
  <2>1. ASSUME Cleared(c.session, r) PROVE c.session # c.loaded
    <3>1. Traces(c.session, r)
      BY <2>1, ClearedType DEF Traces
    <3> QED BY <1>2, <3>1 DEF DbFresh, c
  <2> QED BY <1>1, <1>2, <2>1 DEF Progress, Storing, c
<1>9. ~c.accepted
  <2>1. c.accepted => Has(c.loaded.keys, c.key) /\ ~Has(c.session.keys, c.key) /\ c.op = "form"
    BY <1>1, <1>2 DEF Progress, Storing, c
  <2> QED BY <1>1, <2>1
<1>10. ASSUME visit.patient PROVE PatientFacts(r)
  <2>1. RowIs(c, View(r).rows)
    BY <1>10 DEF DbInv, Patient, RowOK, c
  <2>2. RowIs(d, View(r).rows)
    BY <1>1, <1>3, <1>8, <2>1 DEF RowIs, Holds, Left, Moves, SameRequest
  <2>3. RowOK(r)'
    BY <1>1, <2>2 DEF RowOK, View, d
  <2>4. ~(DbLoggedOut(r)') /\ ~d.accepted
    BY <1>3, <1>8, <1>9 DEF DbLoggedOut, Moves, SameRequest, Clearing, d
  <2> QED BY <1>1, <1>2, <1>3, <1>7, <1>10, <2>3, <2>4, OngoingPatient
          DEF Active, OwnStep, Moves, SameRequest, c, d
<1> QED BY <1>7, <1>10, StepKeepsInv

(* The session is stored whole: the row has no key that its request has     *)
(* accepted, and no login that it has ended.                                *)
LEMMA DbStoreInv ==
  ASSUME DbInv, NEW r \in Request, DbStore(r)
  PROVE  DbInv'
<1> DEFINE c == req[r]
           d == req'[r]
           i == RowFor(r)
           key == KeyFor(r)
<1>1. /\ c.pc = "store" /\ writer \in {r, NoRequest} /\ writer' = r /\ table' = table
      /\ visit' = visit /\ cookie' = cookie /\ c.op # "download"
  BY DEF DbStore, IsAt, CanWrite, Write, ToStore
<1>2. DbTypes /\ DbFresh /\ Progress(r) /\ c \in DbRecord /\ ~Finished(r) /\ ~c.committed
  BY <1>1 DEF DbInv, DbTypes, Progress, Finished, Lasting
<1>3. /\ req' \in [Request -> DbRecord] /\ Others(r)
      /\ d.pc = "commit" /\ Moves(c, d) /\ d.new = c.new /\ d.committed = c.committed
      /\ d.sid = IF c.handle \in DOMAIN work.rows THEN c.sid ELSE <<i, key>>
      /\ i # NoHandle /\ key \in Key
      /\ IsTable(work') /\ work.last <= work'.last
      /\ DOMAIN work'.rows = DOMAIN work.rows \cup {i}
      /\ work'.rows[i].unique_key = key /\ work'.rows[i].session_data = c.session
      /\ \A j \in DOMAIN work.rows : j # i => work'.rows[j] = work.rows[j]
  BY <1>2, DbStoreRecord
<1>4. i \in Nat /\ (c.handle \in DOMAIN work.rows => i = c.handle)
      /\ (c.handle \notin DOMAIN work.rows => i \notin DOMAIN work.rows)
      /\ IsTable(work) /\ key = IF c.new THEN FreshKey(r, 2) ELSE c.sid[2]
  <2>1. IsTable(work) /\ work.last \in Nat
    BY <1>2 DEF DbTypes, IsTable
  <2>2. work.last + 1 \in Nat /\ work.last + 1 \notin DOMAIN work.rows
    BY <2>1 DEF IsTable
  <2> QED BY <2>1, <2>2, RowFacts DEF RowFor, KeyFor
<1> HIDE DEF i, key, c, d
<1>5. \A q \in Request : Traces(c.session, q) => Traces(c.loaded, q) \/ q = r
  BY <1>1, <1>2, RequestAssumption DEF Progress, Storing, Traces, c
<1>6. Wrote(r, i)
  <2>1. Distinct(c.session.keys)
    BY <1>1, <1>2 DEF Progress, Storing, c
  <2>2. \A q \in Request : Traces(c.session, q) => Finished(q) \/ q = r
    BY <1>2, <1>5 DEF DbFresh, c
  <2>3. \A j \in Nat : j # i => SameIn(work, work', j)
    BY <1>3 DEF SameIn
  <2> QED BY <1>1, <1>3, <2>1, <2>2, <2>3 DEF Wrote, c, d
<1>7. StepBy(r)
  BY <1>1, <1>2, <1>3, <1>4, <1>6 DEF StepBy, Moves, SameRequest, DbTypes, c, d
<1>8. Progress(r)'
  BY <1>1, <1>2, <1>3 DEF Progress, Storing, Lasting, Moves, SameRequest, c, d
<1>9. /\ ~c.new => c.sid \in DbId
      /\ ~c.new => d.sid \in DbId
      /\ c.handle \notin DOMAIN work.rows => d.sid \in DbId /\ d.sid[2] = key /\ d.sid[1] = i
  <2>1. ~c.new => c.sid \in DbId
    BY <1>1, <1>2 DEF DbTypes, Storing, c
  <2>2. <<i, key>> \in DbId /\ <<i, key>>[1] = i /\ <<i, key>>[2] = key
    BY <1>3, <1>4 DEF DbId
  <2> QED BY <1>3, <2>1, <2>2
<1>10. StepFacts(r)
  <2>1. ~(IsAt(r, "commit"))
    BY <1>1 DEF IsAt, c
  <2> QED BY <1>1, <1>2, <1>3, <1>7, <1>8, <1>9, <2>1, MovesFacts DEF c, d
<1>11. ASSUME visit.patient PROVE PatientFacts(r)
  <2>1. RowIs(c, work.rows) /\ KeysOK /\ OneRow(work) /\ KeysGone /\ LoginsGone
    <3>1. View(r) = work
      BY <1>1, <1>2, RequestAssumption DEF View, DbTypes
    <3> QED BY <1>11, <3>1 DEF DbInv, Patient, RowOK, c
  (* Either its own row is there, or there is none, and nothing of others. *)
  <2>2. \/ /\ Finds(work.rows, c.sid, c.loaded) /\ c.handle = c.sid[1] /\ ~c.new
           /\ c.op \notin Clearing /\ c.handle \in DOMAIN work.rows /\ c.sid # NoId
        \/ /\ c.handle \notin DOMAIN work.rows
           /\ \A q \in Request : Traces(c.session, q) => q = r
           /\ ~c.accepted
    <3>1. CASE ~c.new /\ c.op \notin Clearing
      BY <1>1, <2>1, <3>1 DEF RowIs, Holds, Finds, Matches
    <3>2. CASE c.op \in Clearing
      <4>1. c.handle \notin DOMAIN work.rows
        BY <1>1, <2>1, <3>2 DEF RowIs
      <4>2. Cleared(c.session, r) /\ ~c.accepted
        BY <1>1, <1>2, <3>2 DEF Progress, Storing, Clearing, c
      <4>3. \A q \in Request : Traces(c.session, q) => q = r
        BY <4>2, ClearedType, RequestAssumption DEF Traces
      <4> QED BY <4>1, <4>2, <4>3
    <3>3. CASE c.new /\ c.op \notin Clearing
      <4>1. c.handle \notin DOMAIN work.rows /\ c.loaded = Blank
        BY <1>1, <2>1, <3>3 DEF RowIs, Clearing
      <4>2. ~c.accepted
        BY <1>1, <1>2, <3>3 DEF Progress, Storing, c
      <4>3. \A q \in Request : Traces(c.session, q) => q = r
        BY <1>5, <4>1, BlankType, RequestAssumption DEF Traces
      <4> QED BY <4>1, <4>2, <4>3
    <3> QED BY <3>1, <3>2, <3>3
  <2>3. c.sid # NoId => c.sid \in DbId /\ MadeFor(c.sid[2], c.browser)
    BY <1>1, <1>2, <2>1 DEF KeysOK, DbRecord, IsAt, c
  <2>4. RowIs(d, work'.rows)
    <3>1. Finds(work'.rows, d.sid, d.session)
      <4>1. CASE c.handle \in DOMAIN work.rows
        <5>1. c.handle = c.sid[1] /\ ~c.new /\ c.sid # NoId /\ d.sid = c.sid /\ i = c.handle
          BY <1>3, <1>4, <2>2, <4>1
        <5> QED BY <1>3, <1>4, <5>1 DEF Finds, Matches, Moves
      <4>2. CASE c.handle \notin DOMAIN work.rows
        <5>1. d.sid # NoId
          BY <1>9, <4>2, DbIdFacts
        <5> QED BY <1>3, <1>9, <4>2, <5>1 DEF Finds, Matches, Moves
      <4> QED BY <4>1, <4>2
    <3> QED BY <1>3, <3>1 DEF RowIs, Holds, Left
  <2>5. RowOK(r)'
    BY <1>1, <2>4 DEF RowOK, View, d
  <2>6. Owns(r, i)
    <3>1. i \in DOMAIN work.rows =>
            /\ work.rows[i].session_data = c.loaded /\ MadeFor(work.rows[i].unique_key, c.browser)
            /\ i = c.sid[1]
      BY <1>4, <2>2, <2>3 DEF Finds, Matches
    <3>2. req'[key[1]].pc # "idle" /\ req'[key[1]].browser = c.browser
      <4>1. CASE c.new
        BY <1>3, <1>4, <4>1, DbIdFacts DEF Moves, SameRequest, d
      <4>2. CASE ~c.new
        <5>1. MadeFor(key, c.browser)
          BY <1>4, <1>9, <2>3, <4>2, DbIdFacts
        <5> QED BY <1>2, <1>3, <1>7, <5>1, OthersState
      <4> QED BY <4>1, <4>2
    <3>3. \A q \in Request : Traces(c.session, q) /\ q # r =>
            i \in DOMAIN work.rows /\ Traces(work.rows[i].session_data, q)
      BY <1>4, <1>5, <2>2, <3>1
    <3>4. \A k \in Request : Has(c.session.keys, k) /\ k # r =>
            i \in DOMAIN work.rows /\ Has(work.rows[i].session_data.keys, k)
      <4>1. \A k \in Request : Has(c.session.keys, k) => Has(c.loaded.keys, k) \/ k = r
        BY <1>1, <1>2 DEF Progress, Storing, c
      <4> QED BY <1>4, <2>2, <3>1, <4>1 DEF Traces
    <3>5. c.session.auth \in Request /\ c.session.auth # r =>
            i \in DOMAIN work.rows /\ work.rows[i].session_data.auth = c.session.auth
      <4>1. c.session.auth \in {c.loaded.auth, NoRequest, r}
        BY <1>1, <1>2 DEF Progress, Storing, c
      <4> QED BY <1>4, <2>2, <3>1, <4>1, RequestAssumption DEF Traces
    <3> QED BY <1>3, <3>1, <3>2, <3>3, <3>4, <3>5 DEF Owns, c
  <2>7. c.accepted => NoKey(work', c.key)
    <3> SUFFICES ASSUME c.accepted PROVE NoKey(work', c.key)
      OBVIOUS
    <3> DEFINE k == c.key
    <3>1. k \in Request /\ Traces(c.loaded, k) /\ Has(c.loaded.keys, k)
          /\ ~Has(c.session.keys, k)
      BY <1>1, <1>2, UsedKeyFinished DEF Progress, Storing, c
    <3>2. i \in DOMAIN work.rows /\ work.rows[i].session_data = c.loaded
      BY <1>4, <2>2 DEF Finds, Matches
    <3> HIDE DEF k
    <3>3. ASSUME NEW j \in DOMAIN work.rows, Has(work.rows[j].session_data.keys, k) PROVE j = i
      <4>1. Traces(work.rows[j].session_data, k)
        BY <3>3 DEF Traces
      <4> QED BY <2>1, <3>1, <3>2, <4>1 DEF OneRow
    <3>4. NoKey(work', k)
      BY <1>3, <3>1, <3>3 DEF NoKey
    <3> QED BY <3>4 DEF k
  <2>8. c.accepted => \A s \in Request : DbUsed(s) => c.key # req[s].key
    BY <1>1, <2>1 DEF KeysGone, c
  <2>9. DbLoggedOut(r)' => NoLogin(work', c.loaded.auth)
    <3> SUFFICES ASSUME c.op = "logout", c.loaded.auth # NoRequest
                     PROVE NoLogin(work', c.loaded.auth)
      BY <1>3 DEF DbLoggedOut, Moves, SameRequest, c, d
    <3>1. NoLogin(work, c.loaded.auth)
      BY <1>1, <2>1 DEF LoginsGone, DbLoggedOut, c
    <3>2. c.session.auth = NoRequest
      BY <1>1, <1>2, ClearedType DEF Progress, Storing, Clearing, c
    <3> QED BY <1>3, <3>1, <3>2 DEF NoLogin
  <2>10. d.browser = c.browser /\ d.accepted = c.accepted /\ d.key = c.key /\ d.loaded = c.loaded
    BY <1>3 DEF Moves, SameRequest
  <2>11. \/ d.sid = c.sid \/ (d.sid \in DbId /\ d.sid[2][1] = r)
         \/ (d.sid \in DbId /\ c.sid # NoId /\ d.sid[2] = c.sid[2])
    BY <1>3, <1>4, <1>9, DbIdFacts
  <2>12. Active(r) /\ OwnStep(r) /\ ~d.committed
    BY <1>1, <1>2, <1>3, <1>4, <1>6, <2>6 DEF Active, OwnStep, c
  <2> QED BY <1>1, <1>10, <1>11, <2>5, <2>7, <2>8, <2>9, <2>10, <2>11, <2>12, OngoingPatient
          DEF c, d
<1> QED BY <1>10, <1>11, StepKeepsInv

(* The row is committed with the writes of the handler: whoever has used a  *)
(* key up or ended a login is seen to have by every request from now on.    *)
LEMMA DbCommitInv ==
  ASSUME DbInv, NEW r \in Request, DbCommit(r)
  PROVE  DbInv'
<1> DEFINE c == req[r]
           d == req'[r]
<1>1. /\ c.pc = "commit" /\ visit' = visit /\ cookie' = cookie /\ work' = work
      /\ table' = IF writer = r THEN work ELSE table
      /\ writer' = IF writer = r THEN NoRequest ELSE writer
  BY DEF DbCommit, Release, IsAt
<1>2. DbTypes /\ DbFresh /\ Progress(r) /\ c \in DbRecord /\ ~Finished(r)
  BY <1>1 DEF DbInv, DbTypes, Finished, Lasting
<1>3. /\ req' \in [Request -> DbRecord] /\ Others(r)
      /\ d.pc = "done" /\ Moves(c, d) /\ d.sid = c.sid
      /\ d.new = c.new /\ d.committed /\ d.status = "ok"
  BY <1>2, DbCommitRecord
<1> HIDE DEF c, d
<1>4. OwnStep(r) /\ (UNCHANGED tableVars \/ Ended(r))
  BY <1>1, <1>3 DEF OwnStep, Ended, tableVars, Lasting, IsAt, c, d
<1>5. StepBy(r)
  BY <1>1, <1>2, <1>3, <1>4 DEF StepBy, Moves, SameRequest, DbTypes, c, d
<1>6. writer' # r
  BY <1>1, RequestAssumption
<1>7. Progress(r)'
  BY <1>1, <1>2, <1>3, <1>6 DEF Progress, Storing, Lasting, Moves, SameRequest, c, d
<1>8. StepFacts(r)
  BY <1>2, <1>3, <1>5, <1>7 DEF StepFacts, Storing, Lasting, DbFresh, Moves, c, d
<1>9. ASSUME visit.patient PROVE PatientFacts(r)
  <2>1. RowIs(c, View(r).rows) /\ KeysOK /\ Solo
    BY <1>9 DEF DbInv, Patient, RowOK, c
  <2>2. View(r)' = View(r)
    BY <1>1, <1>6 DEF View
  <2>3. RowIs(d, View(r).rows)
    BY <1>1, <1>3, <2>1 DEF RowIs, Holds, Left, Moves, SameRequest
  <2>4. RowOK(r)'
    BY <2>2, <2>3 DEF RowOK, d
  <2>5. Solo'
    BY <1>1, <1>5, <2>1, SoloKept DEF Active, c
  <2>6. c.sid # NoId => c.sid[2] \in Key /\ MadeFor(c.sid[2], c.browser)
    <3>1. c.sid # NoId => c.sid \in DbId
      BY <1>2 DEF DbRecord
    <3> QED BY <1>1, <2>1, <3>1, DbIdFacts DEF KeysOK, IsAt, c
  <2>7. c.accepted \/ c.op = "logout" => writer = r /\ table' = work
    BY <1>1, <1>2 DEF Progress, Storing, Clearing, c
  <2>8. DbUsed(r)' => d.key = c.key /\ c.accepted /\ writer = r /\ table' = work
    BY <1>3, <2>7 DEF DbUsed, Moves, SameRequest, d
  <2>9. DbLoggedOut(r)' => d.loaded = c.loaded /\ d.op = c.op /\ table' = work
    BY <1>3, <2>7 DEF DbLoggedOut, Moves, SameRequest, d
  <2>10. d.browser = c.browser
    BY <1>3 DEF Moves, SameRequest
  <2> QED BY <1>1, <1>3, <1>4, <2>4, <2>5, <2>6, <2>8, <2>9, <2>10 DEF PatientFacts, IsAt, c, d
<1> QED BY <1>8, <1>9, StepKeepsInv

(* A rollback takes back the writes of the handler and the row, together. *)
LEMMA DbFailInv ==
  ASSUME DbInv, NEW r \in Request, DbFail(r)
  PROVE  DbInv'
<1> DEFINE c == req[r]
           d == req'[r]
<1>1. /\ visit' = visit /\ cookie' = cookie /\ table' = table
      /\ work' = IF writer = r THEN table ELSE work
      /\ writer' = IF writer = r THEN NoRequest ELSE writer
  BY DEF DbFail, Release
<1>2. DbTypes /\ DbFresh /\ Progress(r) /\ c \in DbRecord
  BY DEF DbInv, DbTypes
<1>3. /\ req' \in [Request -> DbRecord] /\ Others(r) /\ c.pc \in {"handle"} \cup Storing
      /\ d.pc = "done" /\ Moves(c, d) /\ d.sid = c.sid
      /\ d.new = c.new /\ d.committed = c.committed /\ d.status = "error"
  BY <1>2, DbFailRecord
<1>4. ~Finished(r) /\ ~d.committed /\ Active(r) /\ c.pc # "idle"
  BY <1>2, <1>3 DEF Finished, Lasting, Storing, Active, Progress, c
<1> HIDE DEF c, d
<1>5. OwnStep(r) /\ (UNCHANGED tableVars \/ Ended(r))
  BY <1>1, <1>3 DEF OwnStep, Ended, tableVars, Lasting, d
<1>6. StepBy(r)
  BY <1>1, <1>2, <1>3, <1>4, <1>5 DEF StepBy, Moves, SameRequest, DbTypes, c, d
<1>7. writer' # r
  BY <1>1, RequestAssumption
<1>8. Progress(r)'
  BY <1>2, <1>3, <1>7 DEF Progress, Storing, Lasting, Moves, SameRequest, c, d
<1>9. StepFacts(r)
  BY <1>2, <1>3, <1>6, <1>8 DEF StepFacts, Storing, Lasting, DbFresh, Moves, c, d
<1>10. ASSUME visit.patient PROVE PatientFacts(r)
  <2>1. RowOK(r)'
    BY <1>3 DEF RowOK, RowIs, Holds, Left, d
  <2> QED BY <1>1, <1>3, <1>4, <1>5, <1>9, <1>10, <2>1, OngoingPatient DEF Moves, SameRequest, c, d
<1> QED BY <1>9, <1>10, StepKeepsInv

(* After a crash nobody is active, and only the committed rows are there.   *)
LEMMA DbCrashInv ==
  ASSUME DbInv, DbCrash
  PROVE  DbInv'
<1>1. /\ req' \in [Request -> DbRecord] /\ visit' \in Visit /\ visit'.patient = visit.patient
      /\ \A q \in Request :
           \/ ~InProgress(q) /\ req'[q] = req[q]
           \/ /\ InProgress(q) /\ req'[q].pc = "dead" /\ Moves(req[q], req'[q])
              /\ req'[q].sid = req[q].sid /\ req'[q].new = req[q].new
              /\ req'[q].committed = req[q].committed
  BY DbCrashRecords DEF DbInv
<1>2. cookie' = cookie /\ table' = table /\ work' = table /\ writer' = NoRequest
  BY DEF DbCrash
<1>3. DbTypes /\ DbFresh /\ \A q \in Request : Progress(q)
  BY DEF DbInv
<1>4. \A q \in Request :
        /\ req'[q].pc \in {"idle", "answered", "dead"}
        /\ req'[q].pc = "idle" => req'[q] = req[q]
        /\ req'[q].pc # "idle" => req[q].pc # "idle"
        /\ Finished(q) => req'[q].pc \in Lasting
  <2> TAKE q \in Request
  <2>1. req[q] \in DbRecord
    BY <1>3 DEF DbTypes
  <2>2. ~InProgress(q) => req[q].pc \in {"idle", "answered", "dead"}
    BY <2>1 DEF InProgress, DbRecord, Storing, Lasting
  <2> QED BY <1>1, <2>2 DEF Finished, Lasting, InProgress
<1>5. \A q \in Request : Moves(req[q], req'[q]) /\ req'[q].sid = req[q].sid
        /\ req'[q].new = req[q].new /\ req'[q].committed = req[q].committed
  BY <1>1 DEF Moves, SameRequest
<1>6. DbTypes'
  <2>1. IsTable(table)' /\ IsTable(work)' /\ table'.last <= work'.last
    BY <1>2, <1>3 DEF DbTypes, IsTable
  <2>2. \A q \in Request : req'[q].pc \notin {"handle"} \cup Storing
    BY <1>4 DEF Storing
  <2> QED BY <1>1, <1>2, <1>3, <2>1, <2>2 DEF DbTypes, IsAt, Storing
<1>7. ASSUME NEW q \in Request PROVE Progress(q)'
  <2>1. writer' # q /\ Progress(q) /\ req'[q].pc \in {"idle", "answered", "dead"}
    BY <1>2, <1>3, <1>4, RequestAssumption
  <2> QED BY <1>4, <1>5, <2>1 DEF Progress, Moves, SameRequest, Storing, Lasting
<1>8. DbFresh'
  <2>1. /\ \A i \in DOMAIN table.rows, q \in Request :
             Traces(table.rows[i].session_data, q) => req'[q].pc \in Lasting
        /\ \A x, q \in Request : Traces(req'[x].loaded, q) => req'[q].pc \in Lasting /\ q # x
        /\ \A x \in Request : Distinct(req'[x].loaded.keys)
    BY <1>3, <1>4, <1>5 DEF DbFresh, Moves
  <2> QED BY <1>2, <1>3, <2>1 DEF DbFresh, Finished
<1>9. ASSUME visit.patient PROVE Patient'
  <2>1. Patient
    BY <1>9 DEF DbInv
  <2>2. \A q \in Request : RowOK(q)'
    BY <1>4 DEF RowOK, RowIs, Holds, Left
  <2>3. Solo'
    BY <1>4 DEF Solo
  <2>4. \A key \in Key : \A b : MadeFor(key, b)
            => req'[key[1]].pc # "idle" /\ req'[key[1]].browser = b
    <3>1. \A q \in Request : req[q].pc # "idle" => req'[q].pc # "idle"
      BY <1>4
    <3> QED BY <1>5, <3>1, DbIdFacts DEF MadeFor, IsAt, Moves, SameRequest
  <2>5. KeysOK'
    <3>1. \A b \in Browser : cookie[b] # NoId =>
            req'[cookie[b][2][1]].pc # "idle" /\ req'[cookie[b][2][1]].browser = b
      <4>1. \A b \in Browser : cookie[b] # NoId => cookie[b][2] \in Key
        BY <1>3, DbIdFacts DEF DbTypes
      <4> QED BY <2>1, <2>4, <4>1 DEF Patient, KeysOK
    <3>2. \A q \in Request : req'[q].pc # "idle" /\ req'[q].sid # NoId =>
            LET k == req'[q].sid[2][1] IN req'[k].pc # "idle" /\ req'[k].browser = req'[q].browser
      <4> TAKE q \in Request
      <4>1. HAVE req'[q].pc # "idle" /\ req'[q].sid # NoId
      <4>2. req[q].pc # "idle" /\ req'[q].sid = req[q].sid /\ req'[q].browser = req[q].browser
        BY <1>4, <1>5, <4>1 DEF Moves, SameRequest
      <4>3. MadeFor(req[q].sid[2], req[q].browser)
        BY <2>1, <4>1, <4>2 DEF Patient, KeysOK, IsAt
      <4>4. req[q].sid \in DbId
        <5>1. req[q] \in DbRecord
          BY <1>3 DEF DbTypes
        <5> QED BY <4>1, <4>2, <5>1 DEF DbRecord
      <4> QED BY <2>4, <4>2, <4>3, <4>4, DbIdFacts
    <3>3. \A i \in DOMAIN table.rows : req'[table.rows[i].unique_key[1]].pc # "idle"
      <4>1. \A i \in DOMAIN table.rows : table.rows[i].unique_key[1] \in Request
        BY <1>3, RowFacts, DbIdFacts DEF DbTypes
      <4> QED BY <1>4, <2>1, <4>1 DEF Patient, KeysOK, IsAt
    <3> QED BY <1>2, <3>1, <3>2, <3>3 DEF KeysOK, MadeFor, IsAt
  <2>6. Separate' /\ OneRow(table)' /\ OneRow(work)'
    BY <1>2, <2>1 DEF Patient, Separate, SameRow, OneRow
  <2>7. KeysGone'
    <3>1. \A q \in Request : (DbUsed(q)' <=> DbUsed(q)) /\ req'[q].key = req[q].key
      BY <1>5 DEF DbUsed, Moves, SameRequest
    <3> QED BY <1>2, <1>4, <2>1, <3>1 DEF Patient, KeysGone, NoKey, DbUsed, IsAt
  <2>8. LoginsGone'
    <3>1. \A q \in Request : /\ req'[q].op = req[q].op /\ req'[q].loaded = req[q].loaded
                             /\ req'[q].committed = req[q].committed
      BY <1>5 DEF Moves, SameRequest
    <3> QED BY <1>2, <1>4, <2>1, <3>1 DEF Patient, LoginsGone, NoLogin, DbLoggedOut
  <2> QED BY <2>2, <2>3, <2>5, <2>6, <2>7, <2>8 DEF Patient
<1> QED BY <1>1, <1>6, <1>7, <1>8, <1>9 DEF DbInv

(* Every step keeps the invariant. *)
LEMMA DbInvKept == DbInv /\ [DbNext]_dbVars => DbInv'
<1> SUFFICES ASSUME DbInv, [DbNext]_dbVars PROVE DbInv'
  OBVIOUS
<1>1. ASSUME NEW r \in Request, NEW b \in Browser, NEW op \in visit.ops,
             NEW key \in Request \cup {NoRequest}, Send(r, b, op, key, "connect"),
                 UNCHANGED tableVars
      PROVE  DbInv'
  BY <1>1, SendInv
<1>2. ASSUME NEW r \in Request, DbStep(r) PROVE DbInv'
  BY <1>2, ConnectInv, HandleReadingInv, HandleFormInv, HandleClearInv, HandleLoginInv, RekeyInv,
     LogEventInv, DbStoreInv, StoreNothingInv, DbCommitInv DEF DbStep
<1>3. ASSUME NEW r \in Request, DbFail(r) PROVE DbInv'
  BY <1>3, DbFailInv
<1>4. ASSUME NEW r \in Request, Receive(r), UNCHANGED tableVars PROVE DbInv'
  BY <1>4, ReceiveInv
<1>5. CASE DbCrash
  BY <1>5, DbCrashInv
<1>6. CASE UNCHANGED dbVars
  BY <1>6 DEF dbVars, sessionVars, tableVars, DbInv, DbTypes, IsTable, Progress, DbFresh, Finished,
     Patient, RowOK, View, Solo, KeysOK, MadeFor, Separate, SameRow, OneRow, KeysGone, LoginsGone,
     DbUsed, DbLoggedOut, NoKey, NoLogin, IsAt
<1> QED BY <1>1, <1>2, <1>3, <1>4, <1>5, <1>6 DEF DbNext

(* The table of sessions is consistent in every behaviour: a request that   *)
(* has loaded a row finds it unchanged until it stores it, since nobody but *)
(* its patient browser has its key; the keys and logins in the rows are     *)
(* those of requests that are over; those used up or ended are in no row.   *)
THEOREM TableIsKept == DbSpec => []DbInv
<1> QED BY DbInitInv, DbInvKept, PTL DEF DbSpec

(* An answered request has left its session under the id it tells its       *)
(* browser.                                                                 *)
LEMMA InvFinds == DbInv => SessionsAreFound
<1> SUFFICES ASSUME DbInv, visit.patient, NEW r \in Request,
                    IsAt(r, "done"), req[r].status = "ok", req[r].op # "download"
             PROVE  ContentOf(req[r].sid) = req[r].session
  BY DEF SessionsAreFound
<1>1. RowIs(req[r], View(r).rows) /\ writer # r
  BY DEF DbInv, Patient, RowOK, Progress, IsAt
<1>2. Finds(table.rows, req[r].sid, req[r].session)
  BY <1>1 DEF RowIs, Left, View, IsAt
<1> QED BY <1>2 DEF ContentOf, Finds

(* A patient browser is told the id under which the session of its request  *)
(* is, whether its row was updated, given a new key, deleted or made again. *)
THEOREM SessionsFound == DbSpec => []SessionsAreFound
<1> QED BY TableIsKept, InvFinds, PTL

(* A key that is used up was used up by one request. *)
LEMMA InvAcceptedOnce == DbInv => DbAcceptedOnce
BY DEF DbInv, Patient, KeysGone, DbUsed, DbAcceptedOnce

(* A form that a patient browser submits again is accepted once, also after *)
(* errors and crashes: the key is used up in the transaction of its         *)
(* handler.                                                                 *)
THEOREM TableAcceptsOnce == DbSpec => []DbAcceptedOnce
<1> QED BY TableIsKept, InvAcceptedOnce, PTL

(* A login that has ended is in no committed row. *)
LEMMA InvLogout == DbInv => DbLogoutIsFinal
BY DEF DbInv, Patient, LoginsGone, DbLoggedOut, NoLogin, DbLogoutIsFinal

(* After its logout no session has the login of a patient browser. *)
THEOREM TableForgetsLogins == DbSpec => []DbLogoutIsFinal
<1> QED BY TableIsKept, InvLogout, PTL
=============================================================================
