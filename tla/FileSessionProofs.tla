------------------------- MODULE FileSessionProofs --------------------------
(* Theorems about FileSessions, for any number of browsers and requests,    *)
(* every mix of what they do, of failures and crashes, and patient and      *)
(* impatient browsers alike.                                                *)
EXTENDS FileSessions, SequenceTheorems, TLAPS

(* Facts about Sessions, for the sessions in a table too. *)

(* No key is twice in the list. *)
Distinct(keys) == \A i, j \in DOMAIN keys : keys[i] = keys[j] => i = j

(* What is left of a sequence after its first n elements. *)
LEMMA RestOfSequence ==
  ASSUME NEW S, NEW s \in Seq(S), NEW n \in 0 .. Len(s)
  PROVE  LET t == SubSeq(s, n + 1, Len(s))
         IN /\ t \in Seq(S) /\ Len(t) = Len(s) - n
            /\ \A i \in 1 .. (Len(s) - n) : t[i] = s[n + i]
<1> DEFINE t == SubSeq(s, n + 1, Len(s))
<1>1. Len(s) \in Nat /\ n + 1 \in Int /\ Len(s) \in Int /\ \A i \in (n + 1) .. Len(s) : s[i] \in S
  BY LenProperties, ElementOfSeq
<1>2. /\ t \in Seq(S) /\ Len(t) = IF n + 1 <= Len(s) THEN Len(s) - (n + 1) + 1 ELSE 0
      /\ \A i \in 1 .. (Len(s) - (n + 1) + 1) : t[i] = s[(n + 1) + i - 1]
  BY <1>1, SubSeqProperties
<1> HIDE DEF t
<1>3. Len(t) = Len(s) - n /\ Len(s) - (n + 1) + 1 = Len(s) - n
  BY <1>1, <1>2
<1>4. \A i \in 1 .. (Len(s) - n) : (n + 1) + i - 1 = n + i
  OBVIOUS
<1>5. \A i \in 1 .. (Len(s) - n) : t[i] = s[n + i]
  BY <1>2, <1>3, <1>4
<1> QED BY <1>2, <1>3, <1>5 DEF t

(* A key that is taken out of a list of different keys is gone, and nothing *)
(* else is.                                                                 *)
LEMMA WithoutKey ==
  ASSUME NEW keys \in Seq(Request), Distinct(keys), NEW k
  PROVE  /\ Without(keys, k) \in Seq(Request)
         /\ Distinct(Without(keys, k))
         /\ ~Has(Without(keys, k), k)
         /\ \A j : Has(Without(keys, k), j) => Has(keys, j)
<1>1. CASE ~Has(keys, k)
  BY <1>1 DEF Without
<1>2. CASE Has(keys, k)
  <2> DEFINE f == First(keys, k)
             a == SubSeq(keys, 1, f - 1)
             b == SubSeq(keys, f + 1, Len(keys))
  <2>1. f \in DOMAIN keys /\ keys[f] = k
    <3>1. PICK i \in DOMAIN keys : keys[i] = k
      BY <1>2 DEF Has
    <3>2. \A j \in 1 .. (i - 1) : keys[j] # k
      BY <3>1 DEF Distinct
    <3> QED BY <3>1, <3>2 DEF First
  <2>2. f \in 1 .. Len(keys) /\ Len(keys) \in Nat /\ DOMAIN keys = 1 .. Len(keys)
    BY <2>1
  <2>3. Without(keys, k) = a \o b
    BY <1>2 DEF Without
  <2> HIDE DEF f
  <2>4. /\ a \in Seq(Request) /\ Len(a) = f - 1
        /\ \A i \in 1 .. (f - 1) : a[i] = keys[i]
    BY <2>2, SubSeqProperties
  <2>5. /\ b \in Seq(Request) /\ Len(b) = Len(keys) - f
        /\ \A i \in 1 .. (Len(keys) - f) : b[i] = keys[f + i]
    <3>1. f \in 0 .. Len(keys)
      BY <2>2
    <3> QED BY <3>1, RestOfSequence
  <2> HIDE DEF a, b
  <2>6. /\ a \o b \in Seq(Request) /\ Len(a \o b) = Len(keys) - 1
        /\ \A i \in 1 .. (Len(keys) - 1) : (a \o b)[i] = IF i < f THEN keys[i] ELSE keys[i + 1]
    <3>1. /\ a \o b \in Seq(Request) /\ Len(a \o b) = Len(a) + Len(b)
          /\ \A i \in 1 .. (Len(a) + Len(b)) :
               (a \o b)[i] = IF i <= Len(a) THEN a[i] ELSE b[i - Len(a)]
      BY <2>4, <2>5, ConcatProperties
    <3>2. Len(a) + Len(b) = Len(keys) - 1
      BY <2>2, <2>4, <2>5
    <3>3. ASSUME NEW i \in 1 .. (Len(keys) - 1)
          PROVE  (a \o b)[i] = IF i < f THEN keys[i] ELSE keys[i + 1]
      <4>1. CASE i < f
        BY <2>2, <2>4, <3>1, <3>2, <4>1
      <4>2. CASE ~(i < f)
        <5>1. i - (f - 1) \in 1 .. (Len(keys) - f) /\ f + (i - (f - 1)) = i + 1
          BY <2>2, <4>2
        <5>2. (a \o b)[i] = b[i - (f - 1)]
          BY <2>2, <2>4, <3>1, <3>2, <4>2
        <5> QED BY <2>5, <4>2, <5>1, <5>2
      <4> QED BY <4>1, <4>2
    <3> QED BY <3>1, <3>2, <3>3
  <2> DEFINE w == a \o b
  <2> HIDE DEF w
  <2>7. /\ w \in Seq(Request) /\ DOMAIN w = 1 .. (Len(keys) - 1)
        /\ \A i \in DOMAIN w : w[i] = IF i < f THEN keys[i] ELSE keys[i + 1]
    <3>1. w \in Seq(Request) /\ Len(w) = Len(keys) - 1
      BY <2>6 DEF w
    <3>2. DOMAIN w = 1 .. Len(w)
      BY <3>1, LenProperties
    <3>3. \A i \in 1 .. (Len(keys) - 1) : w[i] = IF i < f THEN keys[i] ELSE keys[i + 1]
      BY <2>6 DEF w
    <3> QED BY <3>1, <3>2, <3>3
  <2>8. Distinct(w)
    BY <2>2, <2>7 DEF Distinct
  <2>9. \A i \in DOMAIN w : w[i] # k
    BY <2>1, <2>2, <2>7 DEF Distinct
  <2>10. \A i \in DOMAIN w : \E j \in DOMAIN keys : w[i] = keys[j]
    BY <2>2, <2>7
  <2>11. w = Without(keys, k)
    BY <2>3 DEF w
  <2> QED BY <2>7, <2>8, <2>9, <2>10, <2>11 DEF Has
<1> QED BY <1>1, <1>2

(* The last of a list of different keys. *)
LEMMA LastKeys ==
  ASSUME NEW keys \in Seq(Request), Distinct(keys), NEW n \in Nat
  PROVE  /\ Last(keys, n) \in Seq(Request)
         /\ Distinct(Last(keys, n))
         /\ \A j : Has(Last(keys, n), j) => Has(keys, j)
<1>1. CASE Len(keys) <= n
  BY <1>1 DEF Last
<1>2. CASE ~(Len(keys) <= n)
  <2> DEFINE m == Len(keys) - n
             a == SubSeq(keys, m + 1, Len(keys))
  <2>1. m \in Nat /\ m >= 1 /\ Len(keys) \in Nat /\ DOMAIN keys = 1 .. Len(keys)
    BY <1>2
  <2>2. Last(keys, n) = a
    BY <1>2 DEF Last
  <2>3. /\ a \in Seq(Request) /\ DOMAIN a = 1 .. (Len(keys) - m)
        /\ \A i \in 1 .. (Len(keys) - m) : a[i] = keys[m + i]
    <3>1. m \in 0 .. Len(keys)
      BY <2>1
    <3> HIDE DEF m
    <3>2. /\ a \in Seq(Request) /\ Len(a) = Len(keys) - m
          /\ \A i \in 1 .. (Len(keys) - m) : a[i] = keys[m + i]
      BY <3>1, RestOfSequence
    <3> QED BY <3>2
  <2> HIDE DEF a, m
  <2>4. Distinct(a)
    <3>1. \A i \in DOMAIN a : m + i \in DOMAIN keys /\ a[i] = keys[m + i]
      BY <2>1, <2>3
    <3>2. \A i, j \in DOMAIN a : m + i = m + j => i = j
      BY <2>1, <2>3
    <3> QED BY <3>1, <3>2 DEF Distinct
  <2>5. \A i \in DOMAIN a : \E j \in DOMAIN keys : a[i] = keys[j]
    <3>1. \A i \in DOMAIN a : m + i \in DOMAIN keys /\ a[i] = keys[m + i]
      BY <2>1, <2>3
    <3> QED BY <3>1
  <2> QED BY <2>2, <2>3, <2>4, <2>5 DEF Has
<1> QED BY <1>1, <1>2

(* The keys after a form that is shown by r: the key that was posted is     *)
(* gone, the new one is there, and the others were there before.            *)
LEMMA KeysAfterForm ==
  ASSUME NEW keys \in Seq(Request), Distinct(keys), NEW k, NEW r \in Request, ~Has(keys, r)
  PROVE  /\ KeysAfter(keys, k, r) \in Seq(Request)
         /\ Distinct(KeysAfter(keys, k, r))
         /\ Has(KeysAfter(keys, k, r), r)
         /\ k # r => ~Has(KeysAfter(keys, k, r), k)
         /\ \A j : Has(KeysAfter(keys, k, r), j) => j = r \/ Has(keys, j)
<1> DEFINE a == Last(Without(keys, k), Kept - 1)
           b == Append(a, r)
<1>1. /\ a \in Seq(Request) /\ Distinct(a) /\ ~Has(a, k)
      /\ \A j : Has(a, j) => Has(keys, j)
  <2> DEFINE w == Without(keys, k)
  <2>1. /\ w \in Seq(Request) /\ Distinct(w) /\ ~Has(w, k)
        /\ \A j : Has(w, j) => Has(keys, j)
    BY WithoutKey
  <2>2. Kept - 1 \in Nat
    BY KeptAssumption
  <2> HIDE DEF w
  <2>3. /\ Last(w, Kept - 1) \in Seq(Request) /\ Distinct(Last(w, Kept - 1))
        /\ \A j : Has(Last(w, Kept - 1), j) => Has(w, j)
    BY <2>1, <2>2, LastKeys
  <2> QED BY <2>1, <2>3 DEF w
<1>2. KeysAfter(keys, k, r) = b
  BY DEF KeysAfter
<1> HIDE DEF a
<1>3. /\ b \in Seq(Request) /\ DOMAIN b = 1 .. (Len(a) + 1) /\ b[Len(a) + 1] = r
      /\ \A i \in 1 .. Len(a) : b[i] = a[i]
      /\ Len(a) \in Nat /\ DOMAIN a = 1 .. Len(a)
  BY <1>1, AppendProperties
<1>4. \A i \in DOMAIN a : a[i] # r
  BY <1>1 DEF Has
<1> HIDE DEF b
<1>5. Distinct(b)
  BY <1>1, <1>3, <1>4 DEF Distinct
<1>6. \A i \in DOMAIN b : b[i] = r \/ \E j \in DOMAIN a : b[i] = a[j]
  BY <1>3
<1>7. Has(b, r)
  BY <1>3 DEF Has
<1>8. \A j : Has(b, j) => j = r \/ Has(a, j)
  BY <1>6 DEF Has
<1> QED BY <1>1, <1>2, <1>3, <1>5, <1>7, <1>8

(* A session as it is stored, and one that clear() and a note of request r  *)
(* have left.                                                               *)
Session == [auth : Request \cup {NoRequest}, keys : Seq(Request), seen : SUBSET Request]
Cleared(s, r) == s = [Blank EXCEPT !.seen = {r}]

(* A new session has no login, no keys and nothing else. *)
LEMMA BlankType ==
  /\ Blank \in Session /\ Blank.auth = NoRequest /\ Blank.seen = {}
  /\ Distinct(Blank.keys) /\ \A k : ~Has(Blank.keys, k)
<1>1. Blank \in Session /\ Blank.auth = NoRequest /\ Blank.seen = {} /\ Blank.keys = <<>>
  BY EmptySeq DEF Blank, Session
<1>2. DOMAIN Blank.keys = {}
  BY <1>1
<1> QED BY <1>1, <1>2 DEF Distinct, Has

(* Nor has a session that was cleared, but for what the request that        *)
(* cleared it has left.                                                     *)
LEMMA ClearedType ==
  ASSUME NEW r \in Request, NEW s, Cleared(s, r)
  PROVE  /\ s \in Session /\ s.auth = NoRequest /\ s.seen = {r}
         /\ Distinct(s.keys) /\ \A k : ~Has(s.keys, k)
<1>1. s.auth = NoRequest /\ s.seen = {r} /\ s.keys = Blank.keys /\ s \in Session
  BY BlankType DEF Cleared, Session, Blank
<1> QED BY <1>1, BlankType

(* What a handler makes of a session s that does not have a key of it yet.  *)
Becomes(r, op, key, s, h) ==
  /\ h \in Session /\ Distinct(h.keys)
  /\ op = "login" => h.auth = r
  /\ op # "login" => h.auth \in {s.auth, NoRequest}
  /\ op \in {"logout", "restart"} => Cleared(h, r)
  /\ op \notin {"logout", "restart"} => s.seen \subseteq h.seen
  /\ h.seen \subseteq s.seen \cup {r}
  /\ op \in {"visit", "logout", "restart"} => r \in h.seen
  /\ \A k : Has(h.keys, k) => Has(s.keys, k) \/ k = r
  /\ op = "form" => Has(h.keys, r) /\ (key # r => ~Has(h.keys, key))
  /\ op \in {"look", "download"} => h = s

(* Every handler does that to a session that has no key of its request yet. *)
LEMMA HandledBecomes ==
  ASSUME NEW r \in Request, req[r].op \in SessionOp, req[r].session \in Session,
         Distinct(req[r].session.keys), ~Has(req[r].session.keys, r)
  PROVE  Becomes(r, req[r].op, req[r].key, req[r].session, Handled(r))
<1> DEFINE s == req[r].session
           h == Handled(r)
           op == req[r].op
<1>1. CASE op = "visit"
  <2>1. h = [s EXCEPT !.seen = @ \cup {r}]
    BY <1>1 DEF Handled
  <2>2. /\ h \in Session /\ h.auth = s.auth /\ h.keys = s.keys /\ h.seen = s.seen \cup {r}
    BY <2>1 DEF Session
  <2> QED BY <1>1, <2>2 DEF Becomes
<1>2. CASE op = "form"
  <2> DEFINE k == KeysAfter(s.keys, req[r].key, r)
  <2>1. h = [s EXCEPT !.keys = k]
    BY <1>2 DEF Handled
  <2>2. /\ k \in Seq(Request) /\ Distinct(k) /\ Has(k, r)
        /\ req[r].key # r => ~Has(k, req[r].key)
        /\ \A j : Has(k, j) => j = r \/ Has(s.keys, j)
    <3>1. s.keys \in Seq(Request)
      BY DEF Session
    <3> QED BY <3>1, KeysAfterForm
  <2> HIDE DEF k
  <2>3. /\ h \in Session /\ h.auth = s.auth /\ h.keys = k /\ h.seen = s.seen
    BY <2>1, <2>2 DEF Session
  <2> QED BY <1>2, <2>2, <2>3 DEF Becomes
<1>3. CASE op = "login"
  <2>1. h = [s EXCEPT !.auth = r]
    BY <1>3 DEF Handled
  <2>2. /\ h \in Session /\ h.auth = r /\ h.keys = s.keys /\ h.seen = s.seen
    BY <2>1 DEF Session
  <2> QED BY <1>3, <2>2 DEF Becomes
<1>4. CASE op \in {"logout", "restart"}
  <2>1. Cleared(h, r)
    BY <1>4 DEF Handled, Cleared
  <2>2. h \in Session /\ h.auth = NoRequest /\ h.seen = {r} /\ Distinct(h.keys)
        /\ \A k : ~Has(h.keys, k)
    BY <2>1, ClearedType
  <2> QED BY <1>4, <2>1, <2>2 DEF Becomes
<1>5. CASE op \in {"look", "download"}
  <2>1. h = s
    BY <1>5 DEF Handled
  <2> QED BY <1>5, <2>1 DEF Becomes
<1> QED BY <1>1, <1>2, <1>3, <1>4, <1>5 DEF SessionOp

(* A request that is over, and what request q leaves in a session s. *)
Lasting == {"done", "answered", "dead"}
Finished(q) == req[q].pc \in Lasting
Traces(s, q) == q = s.auth \/ Has(s.keys, q) \/ q \in s.seen

(* What a request has asked for, it asks for to the end. *)
SameRequest(c, d) ==
  d.browser = c.browser /\ d.op = c.op /\ d.key = c.key /\ d.sent = c.sent
(* Only the record of r changes. *)
Others(r) == \A q \in Request : q # r => req'[q] = req[q]

-----------------------------------------------------------------------------
(* What is in the files, and who has them open. *)

(* Session ids, where a request may have its file open, and what a file has *)
(* in it.                                                                   *)
Id == Request \X {1, 2}
Opened == {"lock", "handle", "commit", "store"}
Content == {Emptied} \cup {<<s>> : s \in Session}

RequestRecord ==
  [pc : {"idle", "connect", "write"} \cup Opened \cup Lasting,
   browser : Browser \cup {NoRequest}, op : SessionOp, key : Request \cup {NoRequest},
   sent : Id \cup {NoId}, sid : Id \cup {NoId}, new : BOOLEAN, handle : Nat,
   locked : BOOLEAN, loaded : Session, session : Session,
   accepted : BOOLEAN, committed : BOOLEAN, status : {"none", "ok", "error"}]

FileTypes ==
  /\ visit \in Visit
  /\ cookie \in [Browser -> Id \cup {NoId}]
  /\ req \in [Request -> RequestRecord]
  /\ files \in Seq(Content)
  /\ DOMAIN names \subseteq Id
  /\ \A sid \in DOMAIN names : names[sid] \in DOMAIN files

(* How far request q has come, and what that says of its record. *)
Way(q) ==
  LET c == req[q] IN
  /\ c.pc \in {"idle", "connect", "lock"} =>
       ~c.new /\ c.loaded = Blank /\ c.session = Blank /\ ~c.accepted /\ ~c.committed
  /\ c.pc = "handle" => /\ c.session = c.loaded /\ ~c.accepted /\ ~c.committed
                        /\ (c.new => c.loaded = Blank) /\ (~c.new => c.locked)
  /\ c.pc = "commit" => ~c.committed
  /\ ~c.new => c.sid = c.sent
  /\ c.new => c.sid \in {<<q, 1>>, <<q, 2>>}
  /\ c.locked => c.pc \in {"handle", "commit", "store"} /\ c.handle # NoHandle
  /\ c.handle # NoHandle => /\ c.handle \in DOMAIN files
                            /\ c.pc \in Opened \cup {"write"}
                            /\ c.pc \in Opened => c.sent \in Id
                            /\ c.pc \in Opened \ {"lock"} => c.locked
  /\ c.pc \in {"lock", "write"} => c.handle # NoHandle
  /\ c.committed => c.pc \in {"store", "write"} \cup Lasting
  /\ c.accepted => Has(c.loaded.keys, c.key)
  /\ c.pc = "write" => c.op # "download"

(* What it has made of its session. *)
Made(q) ==
  LET c == req[q] IN
  c.pc \in {"commit", "store", "write"} =>
    /\ c.op = "login" => c.new /\ c.sid = <<q, 2>> /\ c.session.auth = q
    /\ c.op \in {"logout", "restart"} => Cleared(c.session, q)
    /\ c.op = "logout" => c.new
    /\ ~c.new => c.sent \in Id
    /\ ~c.new /\ (c.handle = NoHandle \/ c.pc = "write") => c.op \in {"restart", "download"}
    /\ c.new /\ c.op # "login" => c.session.auth = NoRequest
    /\ c.session.auth \in {c.loaded.auth, NoRequest, q}
    /\ c.session.auth = q => c.op = "login"
    /\ \A k \in Request : Has(c.session.keys, k) => Has(c.loaded.keys, k) \/ k = q
    /\ c.op \notin {"logout", "restart"} => c.loaded.seen \subseteq c.session.seen
    /\ c.session.seen \subseteq c.loaded.seen \cup {q}
    /\ Distinct(c.session.keys)
    /\ c.accepted => /\ c.op = "form" /\ ~c.new /\ c.pc # "write"
                     /\ ~Has(c.session.keys, c.key) /\ Has(c.session.keys, q)

(* Whoever has the lock of a file knows what is in it. *)
Mutex ==
  \A q, r \in Request :
    req[q].locked /\ req[r].locked /\ req[q].handle = req[r].handle => q = r
LoadedOK ==
  \A q \in Request : req[q].locked /\ ~req[q].new =>
    files[req[q].handle] \in {Emptied, <<req[q].loaded>>}

(* Files have one name, ids are made before they are names and told after. *)
NamesOK ==
  /\ \A s, t \in DOMAIN names : names[s] = names[t] => s = t
  /\ \A s \in DOMAIN names : req[s[1]].pc \in Lasting \cup {"write"}
KnownOK ==
  /\ \A b \in Browser : cookie[b] \in Id => IsAt(cookie[b][1], "answered")
  /\ \A q \in Request : req[q].sent \in Id => IsAt(req[q].sent[1], "answered")
HandleOK ==
  /\ \A q \in Request : req[q].pc \in Opened =>
       \A s \in DOMAIN names : names[s] = req[q].handle => s = req[q].sent
  /\ \A q \in Request : IsAt(q, "write") /\ req[q].new =>
       /\ req[q].sid \in DOMAIN names /\ names[req[q].sid] = req[q].handle
       /\ files[req[q].handle] = Emptied
       /\ \A r \in Request : req[r].handle = req[q].handle => r = q

(* Only requests that are over have left traces. *)
Fresh ==
  /\ \A i \in DOMAIN files : files[i] # Emptied =>
       /\ Distinct(files[i][1].keys)
       /\ \A q \in Request : Traces(files[i][1], q) => Finished(q)
  /\ \A r \in Request :
       /\ Distinct(req[r].loaded.keys)
       /\ \A q \in Request : Traces(req[r].loaded, q) => Finished(q) /\ q # r

FileInv ==
  /\ FileTypes
  /\ \A q \in Request : Way(q)
  /\ \A q \in Request : Made(q)
  /\ Mutex /\ LoadedOK /\ NamesOK /\ KnownOK /\ HandleOK /\ Fresh

(* A session id names the request that made it, and is not the absence of   *)
(* one.                                                                     *)
LEMMA IdFacts ==
  /\ NoId \notin Id
  /\ \A r \in Request, n \in {1, 2} : <<r, n>> \in Id /\ <<r, n>>[1] = r
  /\ \A s \in Id : s[1] \in Request
BY DEF Id, NoId

(* A file is empty or has one session in it. *)
LEMMA ContentFacts ==
  /\ Emptied \in Content
  /\ \A s \in Session : <<s>> \in Content /\ <<s>> # Emptied /\ <<s>>[1] = s
  /\ \A c \in Content : c # Emptied => c[1] \in Session /\ c = <<c[1]>>
BY DEF Content, Emptied

(* The types hold at the start. *)
LEMMA FileInitTypes == FileInit => FileTypes
<1> SUFFICES ASSUME FileInit PROVE FileTypes
  OBVIOUS
<1>1. NotSent \in RequestRecord
  BY BlankType DEF NotSent, RequestRecord, SessionOp, NoHandle, NoId
<1>2. visit \in Visit
  BY VisitsAssumption DEF FileInit, SessionInit
<1>3. files \in Seq(Content) /\ DOMAIN names = {}
  BY EmptySeq DEF FileInit
<1> QED BY <1>1, <1>2, <1>3 DEF FileTypes, FileInit, SessionInit

(* So does the invariant: there is no file and no request yet. *)
LEMMA FileInitInv == FileInit => FileInv
<1> SUFFICES ASSUME FileInit PROVE FileInv
  OBVIOUS
<1>1. FileTypes
  BY FileInitTypes
<1>2. \A q \in Request : req[q] = NotSent
  BY DEF FileInit, SessionInit
<1>3. /\ NotSent.pc = "idle" /\ NotSent.loaded = Blank /\ NotSent.session = Blank
      /\ ~NotSent.new /\ ~NotSent.accepted /\ ~NotSent.committed /\ ~NotSent.locked
      /\ NotSent.sid = NoId /\ NotSent.sent = NoId /\ NotSent.handle = NoHandle
  BY DEF NotSent
<1>4. \A q \in Request : Way(q) /\ Made(q)
  BY <1>2, <1>3 DEF Way, Made, Lasting, Opened
<1>5. DOMAIN names = {} /\ DOMAIN files = {}
  BY DEF FileInit
<1>6. Mutex /\ LoadedOK
  BY <1>2, <1>3 DEF Mutex, LoadedOK
<1>7. NamesOK /\ HandleOK
  BY <1>2, <1>3, <1>5 DEF NamesOK, HandleOK, IsAt
<1>8. KnownOK
  BY <1>2, <1>3, IdFacts DEF KnownOK, FileInit, SessionInit
<1>9. Fresh
  <2>1. \A q \in Request : ~Traces(Blank, q)
    BY BlankType, RequestAssumption DEF Traces
  <2> QED BY <1>2, <1>3, <1>5, <2>1, BlankType DEF Fresh
<1> QED BY <1>1, <1>4, <1>6, <1>7, <1>8, <1>9 DEF FileInv

(* A record of the right type is written for one request. *)
LEMMA RecordChanged ==
  ASSUME req \in [Request -> RequestRecord], NEW r \in Request,
         NEW record \in RequestRecord, Change(r, record)
  PROVE  req' \in [Request -> RequestRecord] /\ req'[r] = record /\ Others(r)
BY DEF Change, Others

(* The fields of the record that each action leaves. *)
LEMMA SendRecord ==
  ASSUME FileTypes, NEW r \in Request, NEW b \in Browser, NEW op \in visit.ops,
         NEW key \in Request \cup {NoRequest}, Send(r, b, op, key, "connect")
  PROVE  /\ req' \in [Request -> RequestRecord] /\ Others(r) /\ IsAt(r, "idle")
         /\ LET d == req'[r]
            IN /\ d.pc = "connect" /\ d.browser = b /\ d.op = op /\ d.key = key
               /\ d.sent = cookie[b] /\ d.sid = cookie[b] /\ ~d.new /\ d.handle = NoHandle
               /\ ~d.locked /\ d.loaded = Blank /\ d.session = Blank
               /\ ~d.accepted /\ ~d.committed /\ d.status = "none"
<1> DEFINE d == [NotSent EXCEPT !.pc = "connect", !.browser = b, !.op = op, !.key = key,
                                !.sent = cookie[b], !.sid = cookie[b]]
<1>1. op \in SessionOp /\ cookie[b] \in Id \cup {NoId}
  BY DEF FileTypes, Visit
<1>2. /\ d \in RequestRecord
      /\ d.pc = "connect" /\ d.browser = b /\ d.op = op /\ d.key = key
      /\ d.sent = cookie[b] /\ d.sid = cookie[b] /\ ~d.new /\ d.handle = NoHandle
      /\ ~d.locked /\ d.loaded = Blank /\ d.session = Blank
      /\ ~d.accepted /\ ~d.committed /\ d.status = "none"
  BY <1>1, BlankType DEF NotSent, RequestRecord, NoHandle
<1>3. Change(r, d) /\ IsAt(r, "idle") /\ req \in [Request -> RequestRecord]
  BY DEF Send, FileTypes
<1> HIDE DEF d
<1> QED BY <1>2, <1>3, RecordChanged

(* Receive: the request is answered and its record stays. *)
LEMMA ReceiveRecord ==
  ASSUME FileTypes, NEW r \in Request, Receive(r)
  PROVE  /\ req' \in [Request -> RequestRecord] /\ Others(r) /\ IsAt(r, "done")
         /\ req'[r] = [req[r] EXCEPT !.pc = "answered"]
         /\ LET c == req[r]
                d == req'[r]
            IN /\ d.pc = "answered" /\ SameRequest(c, d) /\ d.sid = c.sid /\ d.new = c.new
               /\ d.handle = c.handle /\ d.locked = c.locked /\ d.loaded = c.loaded
               /\ d.session = c.session /\ d.accepted = c.accepted /\ d.committed = c.committed
               /\ d.status = c.status
<1> DEFINE c == req[r]
           d == [c EXCEPT !.pc = "answered"]
<1>1. c \in RequestRecord
  BY DEF FileTypes
<1>2. /\ d \in RequestRecord
      /\ d.pc = "answered" /\ SameRequest(c, d) /\ d.sid = c.sid /\ d.new = c.new
      /\ d.handle = c.handle /\ d.locked = c.locked /\ d.loaded = c.loaded
      /\ d.session = c.session /\ d.accepted = c.accepted /\ d.committed = c.committed
      /\ d.status = c.status
  BY <1>1 DEF RequestRecord, SameRequest, Lasting
<1>3. Change(r, d) /\ IsAt(r, "done") /\ req \in [Request -> RequestRecord]
  BY DEF Receive, FileTypes
<1> HIDE DEF d
<1>4. req' \in [Request -> RequestRecord] /\ req'[r] = d /\ Others(r)
  BY <1>2, <1>3, RecordChanged
<1> QED BY <1>2, <1>3, <1>4 DEF d

(* OpenSession: the file of the id is opened, or the request has a new id   *)
(* and no file.                                                             *)
LEMMA OpenRecord ==
  ASSUME FileTypes, NEW r \in Request, OpenSession(r)
  PROVE  /\ req' \in [Request -> RequestRecord] /\ Others(r) /\ IsAt(r, "connect")
         /\ LET c == req[r]
                d == req'[r]
            IN /\ SameRequest(c, d) /\ d.locked = c.locked /\ d.loaded = c.loaded
               /\ d.session = c.session /\ d.accepted = c.accepted
               /\ d.committed = c.committed /\ d.status = c.status
               /\ \/ /\ c.sid \in DOMAIN names
                     /\ d.pc = "lock" /\ d.handle = names[c.sid] /\ d.sid = c.sid /\ d.new = c.new
                  \/ /\ c.sid \notin DOMAIN names
                     /\ d.pc = "handle" /\ d.handle = c.handle /\ d.sid = <<r, 1>> /\ d.new
<1> DEFINE c == req[r]
<1>1. c \in RequestRecord /\ req \in [Request -> RequestRecord] /\ IsAt(r, "connect")
  BY DEF FileTypes, OpenSession
<1>2. CASE c.sid \in DOMAIN names
  <2> DEFINE d == [c EXCEPT !.pc = "lock", !.handle = names[c.sid]]
  <2>1. names[c.sid] \in Nat
    BY <1>2 DEF FileTypes
  <2>2. /\ d \in RequestRecord
        /\ SameRequest(c, d) /\ d.locked = c.locked /\ d.loaded = c.loaded
        /\ d.session = c.session /\ d.accepted = c.accepted
        /\ d.committed = c.committed /\ d.status = c.status
        /\ d.pc = "lock" /\ d.handle = names[c.sid] /\ d.sid = c.sid /\ d.new = c.new
    BY <1>1, <2>1 DEF RequestRecord, SameRequest, Opened
  <2>3. Change(r, d)
    BY <1>2 DEF OpenSession
  <2> HIDE DEF d
  <2> QED BY <1>1, <1>2, <2>2, <2>3, RecordChanged
<1>3. CASE c.sid \notin DOMAIN names
  <2> DEFINE d == [c EXCEPT !.pc = "handle", !.sid = NewId(r, 1), !.new = TRUE]
  <2>1. NewId(r, 1) \in Id /\ NewId(r, 1) = <<r, 1>>
    BY IdFacts DEF NewId
  <2>2. /\ d \in RequestRecord
        /\ SameRequest(c, d) /\ d.locked = c.locked /\ d.loaded = c.loaded
        /\ d.session = c.session /\ d.accepted = c.accepted
        /\ d.committed = c.committed /\ d.status = c.status
        /\ d.pc = "handle" /\ d.handle = c.handle /\ d.sid = <<r, 1>> /\ d.new
    BY <1>1, <2>1 DEF RequestRecord, SameRequest, Opened
  <2>3. Change(r, d)
    BY <1>3 DEF OpenSession
  <2> HIDE DEF d
  <2> QED BY <1>1, <1>3, <2>2, <2>3, RecordChanged
<1> QED BY <1>2, <1>3

(* Lock: the session of the file is loaded, or the id is new and the lock   *)
(* is kept.                                                                 *)
LEMMA LockRecord ==
  ASSUME FileTypes, NEW r \in Request, Way(r), Lock(r)
  PROVE  /\ req' \in [Request -> RequestRecord] /\ Others(r) /\ IsAt(r, "lock")
         /\ LET c == req[r]
                d == req'[r]
            IN /\ SameRequest(c, d) /\ d.handle = c.handle /\ d.accepted = c.accepted
               /\ d.committed = c.committed /\ d.status = c.status
               /\ d.pc = "handle" /\ d.locked
               /\ \/ /\ files[c.handle] = Emptied
                     /\ d.sid = <<r, 1>> /\ d.new /\ d.loaded = c.loaded /\ d.session = c.session
                  \/ /\ files[c.handle] # Emptied
                     /\ d.sid = c.sid /\ d.new = c.new
                     /\ d.loaded = files[c.handle][1] /\ d.session = files[c.handle][1]
<1> DEFINE c == req[r]
           s == files[c.handle][1]
<1>1. c \in RequestRecord /\ req \in [Request -> RequestRecord] /\ IsAt(r, "lock")
  BY DEF FileTypes, Lock
<1>2. CASE files[c.handle] = Emptied
  <2> DEFINE d == [c EXCEPT !.pc = "handle", !.locked = TRUE, !.sid = NewId(r, 1), !.new = TRUE]
  <2>1. NewId(r, 1) \in Id /\ NewId(r, 1) = <<r, 1>>
    BY IdFacts DEF NewId
  <2>2. /\ d \in RequestRecord
        /\ SameRequest(c, d) /\ d.handle = c.handle /\ d.accepted = c.accepted
        /\ d.committed = c.committed /\ d.status = c.status
        /\ d.pc = "handle" /\ d.locked
        /\ d.sid = <<r, 1>> /\ d.new /\ d.loaded = c.loaded /\ d.session = c.session
    BY <1>1, <2>1 DEF RequestRecord, SameRequest, Opened
  <2>3. Change(r, d)
    BY <1>2 DEF Lock
  <2> HIDE DEF d
  <2> QED BY <1>1, <1>2, <2>2, <2>3, RecordChanged
<1>3. CASE files[c.handle] # Emptied
  <2> DEFINE d == [c EXCEPT !.pc = "handle", !.locked = TRUE, !.loaded = s, !.session = s]
  <2>1. s \in Session
    <3>1. c.handle \in DOMAIN files
      BY <1>1 DEF Way, IsAt
    <3> QED BY <1>3, <3>1, ContentFacts DEF FileTypes
  <2> HIDE DEF s
  <2>2. /\ d \in RequestRecord
        /\ SameRequest(c, d) /\ d.handle = c.handle /\ d.accepted = c.accepted
        /\ d.committed = c.committed /\ d.status = c.status
        /\ d.pc = "handle" /\ d.locked
        /\ d.sid = c.sid /\ d.new = c.new /\ d.loaded = s /\ d.session = s
    BY <1>1, <2>1 DEF RequestRecord, SameRequest, Opened
  <2>3. Change(r, d)
    BY <1>3 DEF Lock, s
  <2> HIDE DEF d
  <2>4. req' \in [Request -> RequestRecord] /\ req'[r] = d /\ Others(r)
    BY <1>1, <2>2, <2>3, RecordChanged
  <2> QED BY <1>1, <1>3, <2>2, <2>4 DEF s
<1> QED BY <1>2, <1>3

(* Handle: the session is what the handler made of it; renew and clear have *)
(* closed the file.                                                         *)
LEMMA HandleRecord ==
  ASSUME FileTypes, NEW r \in Request, Handle(r), Handled(r) \in Session
  PROVE  /\ req' \in [Request -> RequestRecord] /\ Others(r) /\ IsAt(r, "handle")
         /\ LET c == req[r]
                d == req'[r]
            IN /\ SameRequest(c, d) /\ d.loaded = c.loaded /\ d.committed = c.committed
               /\ d.status = c.status /\ d.pc = "commit"
               /\ d.session = Handled(r) /\ d.accepted = Accepts(r)
               /\ \/ /\ c.op \in {"login", "logout"} /\ d.sid = <<r, 2>> /\ d.new
                     /\ d.handle = NoHandle /\ ~d.locked
                  \/ /\ c.op \in {"restart", "download"} /\ d.sid = c.sid /\ d.new = c.new
                     /\ d.handle = NoHandle /\ ~d.locked
                  \/ /\ c.op \notin {"login", "logout", "restart", "download"}
                     /\ d.sid = c.sid /\ d.new = c.new
                     /\ d.handle = c.handle /\ d.locked = c.locked
<1> DEFINE c == req[r]
           after == [c EXCEPT !.pc = "commit", !.session = Handled(r), !.accepted = Accepts(r)]
<1>1. c \in RequestRecord /\ req \in [Request -> RequestRecord] /\ IsAt(r, "handle")
  BY DEF FileTypes, Handle
<1>2. Accepts(r) \in BOOLEAN
  BY DEF Accepts, Has
<1>3. /\ after \in RequestRecord
      /\ SameRequest(c, after) /\ after.loaded = c.loaded /\ after.committed = c.committed
      /\ after.status = c.status /\ after.pc = "commit"
      /\ after.session = Handled(r) /\ after.accepted = Accepts(r)
      /\ after.sid = c.sid /\ after.new = c.new /\ after.handle = c.handle
      /\ after.locked = c.locked
  BY <1>1, <1>2 DEF RequestRecord, SameRequest, Opened
<1> HIDE DEF after
<1>4. CASE c.op \in {"login", "logout"}
  <2> DEFINE d == [Closed(after) EXCEPT !.sid = NewId(r, 2), !.new = TRUE]
  <2>1. NewId(r, 2) \in Id /\ NewId(r, 2) = <<r, 2>>
    BY IdFacts DEF NewId
  <2>2. /\ d \in RequestRecord
        /\ SameRequest(after, d) /\ d.loaded = after.loaded /\ d.committed = after.committed
        /\ d.status = after.status /\ d.pc = after.pc
        /\ d.session = after.session /\ d.accepted = after.accepted
        /\ d.sid = <<r, 2>> /\ d.new /\ d.handle = NoHandle /\ ~d.locked
    BY <1>3, <2>1 DEF RequestRecord, SameRequest, Closed, NoHandle
  <2>3. Change(r, d)
    BY <1>4 DEF Handle, Renews, after
  <2> HIDE DEF d
  <2>4. req' \in [Request -> RequestRecord] /\ req'[r] = d /\ Others(r)
    BY <1>1, <2>2, <2>3, RecordChanged
  <2> QED BY <1>1, <1>3, <1>4, <2>2, <2>4 DEF SameRequest
<1>5. CASE c.op \in {"restart", "download"}
  <2> DEFINE d == Closed(after)
  <2>2. /\ d \in RequestRecord
        /\ SameRequest(after, d) /\ d.loaded = after.loaded /\ d.committed = after.committed
        /\ d.status = after.status /\ d.pc = after.pc
        /\ d.session = after.session /\ d.accepted = after.accepted
        /\ d.sid = after.sid /\ d.new = after.new /\ d.handle = NoHandle /\ ~d.locked
    BY <1>3 DEF RequestRecord, SameRequest, Closed, NoHandle
  <2>3. Change(r, d)
    BY <1>5 DEF Handle, Renews, after
  <2> HIDE DEF d
  <2>4. req' \in [Request -> RequestRecord] /\ req'[r] = d /\ Others(r)
    BY <1>1, <2>2, <2>3, RecordChanged
  <2> QED BY <1>1, <1>3, <1>5, <2>2, <2>4 DEF SameRequest
<1>6. CASE c.op \notin {"login", "logout", "restart", "download"}
  <2>3. Change(r, after)
    BY <1>6 DEF Handle, Renews, after
  <2> QED BY <1>1, <1>3, <1>6, <2>3, RecordChanged
<1> QED BY <1>4, <1>5, <1>6

(* The end of a request: its file is closed and nothing else is new. *)
Ends(c, d) ==
  /\ SameRequest(c, d) /\ d.sid = c.sid /\ d.new = c.new /\ d.loaded = c.loaded
  /\ d.session = c.session /\ d.accepted = c.accepted /\ d.committed = c.committed
  /\ d.handle = NoHandle /\ ~d.locked

(* Whoever closes the file ends so. *)
LEMMA EndRecord ==
  ASSUME NEW c \in RequestRecord, NEW pc \in {"done", "dead"}
  PROVE  /\ [Closed(c) EXCEPT !.pc = pc] \in RequestRecord
         /\ [Closed(c) EXCEPT !.pc = pc].pc = pc /\ Ends(c, [Closed(c) EXCEPT !.pc = pc])
         /\ \A status \in {"ok", "error"} :
              LET d == [Closed(c) EXCEPT !.pc = pc, !.status = status]
              IN d \in RequestRecord /\ d.pc = pc /\ d.status = status /\ Ends(c, d)
<1>1. /\ Closed(c) \in RequestRecord /\ Ends(c, Closed(c))
  BY DEF RequestRecord, Closed, Ends, SameRequest, NoHandle
<1>2. ASSUME NEW d \in RequestRecord, Ends(c, d)
      PROVE  /\ [d EXCEPT !.pc = pc] \in RequestRecord
             /\ [d EXCEPT !.pc = pc].pc = pc /\ Ends(c, [d EXCEPT !.pc = pc])
  BY <1>2 DEF RequestRecord, Ends, SameRequest, Lasting
<1>3. ASSUME NEW d \in RequestRecord, Ends(c, d), NEW status \in {"ok", "error"}
      PROVE  LET e == [d EXCEPT !.pc = pc, !.status = status]
             IN e \in RequestRecord /\ e.pc = pc /\ e.status = status /\ Ends(c, e)
  <2> DEFINE e == [d EXCEPT !.pc = pc]
             f == [e EXCEPT !.status = status]
  <2>1. e \in RequestRecord /\ e.pc = pc /\ Ends(c, e)
    BY <1>2, <1>3
  <2> HIDE DEF e
  <2>2. f \in RequestRecord /\ f.pc = pc /\ f.status = status
    BY <2>1 DEF RequestRecord
  <2>3. Ends(c, f)
    BY <2>1 DEF RequestRecord, Ends, SameRequest
  <2>4. f = [d EXCEPT !.pc = pc, !.status = status]
    BY DEF e
  <2> QED BY <2>2, <2>3, <2>4
<1> QED BY <1>1, <1>2, <1>3

(* A request that has stored its session is done. *)
LEMMA StoredRecord ==
  ASSUME FileTypes, NEW r \in Request, Change(r, StoredIn(r))
  PROVE  /\ req' \in [Request -> RequestRecord] /\ Others(r)
         /\ req'[r].pc = "done" /\ req'[r].status = "ok" /\ Ends(req[r], req'[r])
<1>1. req[r] \in RequestRecord /\ req \in [Request -> RequestRecord]
  BY DEF FileTypes
<1>2. /\ StoredIn(r) \in RequestRecord /\ StoredIn(r).pc = "done"
      /\ StoredIn(r).status = "ok" /\ Ends(req[r], StoredIn(r))
  BY <1>1, EndRecord DEF StoredIn
<1> QED BY <1>1, <1>2, RecordChanged

(* A handler that has failed is done, with an error, and has committed      *)
(* nothing.                                                                 *)
LEMMA FailRecord ==
  ASSUME FileTypes, NEW r \in Request, FailHandler(r)
  PROVE  /\ req' \in [Request -> RequestRecord] /\ Others(r)
         /\ req[r].pc \in {"handle", "commit"}
         /\ req'[r].pc = "done" /\ req'[r].status = "error" /\ Ends(req[r], req'[r])
<1> DEFINE d == [Closed(req[r]) EXCEPT !.pc = "done", !.status = "error"]
<1>1. req[r] \in RequestRecord /\ req \in [Request -> RequestRecord]
  BY DEF FileTypes
<1>2. d \in RequestRecord /\ d.pc = "done" /\ d.status = "error" /\ Ends(req[r], d)
  BY <1>1, EndRecord
<1>3. Change(r, d) /\ req[r].pc \in {"handle", "commit"}
  BY DEF FailHandler
<1> HIDE DEF d
<1> QED BY <1>1, <1>2, <1>3, RecordChanged

(* CommitFirst: what is in the record stays, and the file is still open. *)
LEMMA CommitRecord ==
  ASSUME FileTypes, NEW r \in Request, CommitFirst(r)
  PROVE  /\ req' \in [Request -> RequestRecord] /\ Others(r) /\ IsAt(r, "commit")
         /\ LET c == req[r]
                d == req'[r]
            IN /\ SameRequest(c, d) /\ d.sid = c.sid /\ d.new = c.new /\ d.handle = c.handle
               /\ d.locked = c.locked /\ d.loaded = c.loaded /\ d.session = c.session
               /\ d.accepted = c.accepted /\ d.status = c.status
               /\ d.pc = "store" /\ d.committed
<1> DEFINE c == req[r]
           d == [c EXCEPT !.pc = "store", !.committed = TRUE]
<1>1. c \in RequestRecord /\ req \in [Request -> RequestRecord] /\ IsAt(r, "commit")
  BY DEF FileTypes, CommitFirst
<1>2. /\ d \in RequestRecord
      /\ SameRequest(c, d) /\ d.sid = c.sid /\ d.new = c.new /\ d.handle = c.handle
      /\ d.locked = c.locked /\ d.loaded = c.loaded /\ d.session = c.session
      /\ d.accepted = c.accepted /\ d.status = c.status
      /\ d.pc = "store" /\ d.committed
  BY <1>1 DEF RequestRecord, SameRequest, Opened
<1>3. Change(r, d)
  BY DEF CommitFirst
<1> HIDE DEF d
<1> QED BY <1>1, <1>2, <1>3, RecordChanged

(* The file that is opened for writing: the one of this name, or a new one. *)
FileFor(sid) == IF sid \in DOMAIN names THEN names[sid] ELSE Len(files) + 1

(* OpenForStore: the request has the file it will write, without the lock. *)
LEMMA OpenForStoreRecord ==
  ASSUME FileTypes, NEW r \in Request, OpenForStore(r)
  PROVE  /\ req' \in [Request -> RequestRecord] /\ Others(r) /\ IsAt(r, "store")
         /\ LET c == req[r]
                d == req'[r]
            IN /\ SameRequest(c, d) /\ d.sid = c.sid /\ d.new = c.new /\ d.loaded = c.loaded
               /\ d.session = c.session /\ d.accepted = c.accepted
               /\ d.committed = c.committed /\ d.status = c.status
               /\ d.pc = "write" /\ d.handle = FileFor(c.sid) /\ ~d.locked
<1> DEFINE c == req[r]
           i == FileFor(c.sid)
           d == [Closed(c) EXCEPT !.pc = "write", !.handle = i]
<1>1. c \in RequestRecord /\ req \in [Request -> RequestRecord] /\ IsAt(r, "store")
  BY DEF FileTypes, OpenForStore
<1>2. i \in Nat
  <2>1. Len(files) \in Nat /\ DOMAIN files = 1 .. Len(files)
    BY DEF FileTypes
  <2> QED BY <2>1 DEF FileFor, FileTypes
<1>3. Change(r, d)
  BY DEF OpenForStore, FileFor
<1> HIDE DEF i
<1>4. /\ d \in RequestRecord
      /\ SameRequest(c, d) /\ d.sid = c.sid /\ d.new = c.new /\ d.loaded = c.loaded
      /\ d.session = c.session /\ d.accepted = c.accepted
      /\ d.committed = c.committed /\ d.status = c.status
      /\ d.pc = "write" /\ d.handle = i /\ ~d.locked
  BY <1>1, <1>2 DEF RequestRecord, SameRequest, Closed
<1> HIDE DEF d
<1>5. req' \in [Request -> RequestRecord] /\ req'[r] = d /\ Others(r)
  BY <1>1, <1>3, <1>4, RecordChanged
<1> QED BY <1>1, <1>4, <1>5 DEF i

(* The file of the name is emptied, or a new one is made for it; no other   *)
(* file and no other name changes.                                          *)
LEMMA OpenForStoreFiles ==
  ASSUME FileTypes, NEW r \in Request, OpenForStore(r), req[r].sid \in Id
  PROVE  LET i == FileFor(req[r].sid)
         IN /\ files' \in Seq(Content) /\ DOMAIN files' = DOMAIN files \cup {i}
            /\ i # NoHandle /\ files'[i] = Emptied
            /\ \A j \in DOMAIN files : j # i => files'[j] = files[j]
            /\ DOMAIN names' = DOMAIN names \cup {req[r].sid} /\ names'[req[r].sid] = i
            /\ \A s \in DOMAIN names : s # req[r].sid => names'[s] = names[s]
            /\ req[r].sid \notin DOMAIN names => i \notin DOMAIN files
<1> DEFINE sid == req[r].sid
           i == FileFor(sid)
<1>1. /\ files \in Seq(Content) /\ Len(files) \in Nat /\ DOMAIN files = 1 .. Len(files)
      /\ \A s \in DOMAIN names : names[s] \in DOMAIN files
  BY DEF FileTypes
<1>2. /\ files' = IF sid \in DOMAIN names THEN [files EXCEPT ![i] = Emptied]
                  ELSE Append(files, Emptied)
      /\ names' = [id \in DOMAIN names \cup {sid} |-> IF id = sid THEN i ELSE names[id]]
  BY DEF OpenForStore, FileFor
<1>3. Emptied \in Content
  BY ContentFacts
<1>4. CASE sid \in DOMAIN names
  <2>1. i \in DOMAIN files /\ i = names[sid]
    BY <1>1, <1>4 DEF FileFor
  <2> HIDE DEF i
  <2>2. files' \in Seq(Content) /\ DOMAIN files' = DOMAIN files /\ files'[i] = Emptied
        /\ \A j \in DOMAIN files : j # i => files'[j] = files[j]
    <3>1. files' = [files EXCEPT ![i] = Emptied]
      BY <1>2, <1>4
    <3> QED BY <1>1, <1>3, <2>1, <3>1, ExceptSeq
  <2>3. i # NoHandle
    BY <1>1, <2>1 DEF NoHandle
  <2> QED BY <1>2, <1>4, <2>1, <2>2, <2>3 DEF i
<1>5. CASE sid \notin DOMAIN names
  <2>1. i = Len(files) + 1
    BY <1>5 DEF FileFor
  <2> HIDE DEF i
  <2>2. /\ files' \in Seq(Content) /\ DOMAIN files' = 1 .. (Len(files) + 1)
        /\ files'[Len(files) + 1] = Emptied
        /\ \A j \in 1 .. Len(files) : files'[j] = files[j]
    <3>1. files' = Append(files, Emptied)
      BY <1>2, <1>5
    <3> QED BY <1>1, <1>3, <3>1, AppendProperties
  <2>3. i # NoHandle /\ i \notin DOMAIN files /\ DOMAIN files' = DOMAIN files \cup {i}
    BY <1>1, <2>1, <2>2 DEF NoHandle
  <2> QED BY <1>1, <1>2, <1>5, <2>1, <2>2, <2>3 DEF i
<1> QED BY <1>4, <1>5

(* A write changes one file. *)
LEMMA WrittenFiles ==
  ASSUME FileTypes, NEW i \in DOMAIN files, NEW s \in Session,
         files' = [files EXCEPT ![i] = <<s>>]
  PROVE  /\ files' \in Seq(Content) /\ DOMAIN files' = DOMAIN files
         /\ files'[i] = <<s>> /\ files'[i] # Emptied /\ files'[i][1] = s
         /\ \A j \in DOMAIN files : j # i => files'[j] = files[j]
<1>1. files \in Seq(Content) /\ <<s>> \in Content /\ <<s>> # Emptied /\ <<s>>[1] = s
      /\ DOMAIN files = 1 .. Len(files)
  BY ContentFacts DEF FileTypes
<1> QED BY <1>1, ExceptSeq

(* A crash ends the requests in progress and leaves the records of the      *)
(* others.                                                                  *)
LEMMA CrashRecords ==
  ASSUME FileTypes, FileCrash
  PROVE  /\ req' \in [Request -> RequestRecord] /\ visit' \in Visit /\ visit'.ops = visit.ops
         /\ \A q \in Request :
              \/ ~InProgress(q) /\ req'[q] = req[q]
              \/ InProgress(q) /\ req'[q].pc = "dead" /\ Ends(req[q], req'[q])
<1> DEFINE D(q) == [Closed(req[q]) EXCEPT !.pc = "dead"]
<1>1. \A q \in Request : req[q] \in RequestRecord
  BY DEF FileTypes
<1>2. \A q \in Request : D(q) \in RequestRecord /\ D(q).pc = "dead" /\ Ends(req[q], D(q))
  BY <1>1, EndRecord
<1>3. req' = [q \in Request |-> IF InProgress(q) THEN D(q) ELSE req[q]]
  BY DEF FileCrash
<1> HIDE DEF D
<1>4. visit' \in Visit /\ visit'.ops = visit.ops
  BY DEF FileCrash, FileTypes, Visit
<1> QED BY <1>1, <1>2, <1>3, <1>4

(* A request that takes no step stays as far as it was: files do not go     *)
(* away.                                                                    *)
LEMMA WayOfOthers ==
  ASSUME NEW q \in Request, Way(q), Made(q), req'[q] = req[q], DOMAIN files \subseteq DOMAIN files'
  PROVE  Way(q)' /\ Made(q)'
BY DEF Way, Made

(* One that has ended says nothing of files any more. *)
LEMMA WayOfEnded ==
  ASSUME NEW q \in Request, Way(q), Ends(req[q], req'[q]), req'[q].pc \in {"done", "dead"}
  PROVE  Way(q)' /\ Made(q)'
BY DEF Way, Made, Ends, SameRequest, Lasting, Opened

(* Every step keeps the records to what the place of a request says. *)
LEMMA WayOfSend ==
  ASSUME FileTypes, NEW r \in Request, NEW b \in Browser, NEW op \in visit.ops,
         NEW key \in Request \cup {NoRequest}, Send(r, b, op, key, "connect")
  PROVE  Way(r)' /\ Made(r)'
<1>1. LET d == req'[r] IN
        /\ d.pc = "connect" /\ ~d.new /\ d.handle = NoHandle /\ d.sid = d.sent
        /\ ~d.locked /\ d.loaded = Blank /\ d.session = Blank
        /\ ~d.accepted /\ ~d.committed
  BY SendRecord
<1> QED BY <1>1 DEF Way, Made, Opened, Lasting

(* The same for Receive... *)
LEMMA WayOfReceive ==
  ASSUME FileTypes, NEW r \in Request, Way(r), Receive(r)
  PROVE  Way(r)' /\ Made(r)'
<1>1. IsAt(r, "done") /\ req'[r].pc = "answered"
      /\ LET c == req[r]
             d == req'[r]
         IN /\ d.pc = "answered" /\ SameRequest(c, d) /\ d.sid = c.sid /\ d.new = c.new
            /\ d.handle = c.handle /\ d.locked = c.locked /\ d.loaded = c.loaded
            /\ d.session = c.session /\ d.accepted = c.accepted /\ d.committed = c.committed
  BY ReceiveRecord
<1> QED BY <1>1 DEF Way, Made, SameRequest, Lasting, Opened, IsAt

(* ...for OpenSession, whose new id has the name of the request... *)
LEMMA WayOfOpen ==
  ASSUME FileTypes, NEW r \in Request, Way(r), OpenSession(r)
  PROVE  Way(r)' /\ Made(r)'
<1> DEFINE c == req[r]
           d == req'[r]
<1>1. /\ c.pc = "connect" /\ SameRequest(c, d) /\ d.locked = c.locked /\ d.loaded = c.loaded
      /\ d.session = c.session /\ d.accepted = c.accepted
      /\ d.committed = c.committed
      /\ \/ /\ c.sid \in DOMAIN names
            /\ d.pc = "lock" /\ d.handle = names[c.sid] /\ d.sid = c.sid /\ d.new = c.new
         \/ /\ c.sid \notin DOMAIN names
            /\ d.pc = "handle" /\ d.handle = c.handle /\ d.sid = <<r, 1>> /\ d.new
  BY OpenRecord DEF IsAt
<1>2. ~c.new /\ c.sid = c.sent /\ c.handle = NoHandle /\ ~c.locked /\ ~c.accepted /\ ~c.committed
      /\ c.loaded = Blank /\ c.session = Blank
  BY <1>1 DEF Way, Lasting, Opened
<1>3. files' = files
  BY DEF OpenSession
<1>4. CASE c.sid \in DOMAIN names
  <2>1. names[c.sid] \in DOMAIN files /\ names[c.sid] # NoHandle /\ c.sid \in Id
    BY <1>4 DEF FileTypes, NoHandle
  <2> QED BY <1>1, <1>2, <1>3, <1>4, <2>1 DEF Way, Made, SameRequest, Lasting, Opened
<1>5. CASE c.sid \notin DOMAIN names
  BY <1>1, <1>2, <1>3, <1>5 DEF Way, Made, SameRequest, Lasting, Opened
<1> QED BY <1>4, <1>5

(* ...for Lock, which takes the lock of the file it has opened... *)
LEMMA WayOfLock ==
  ASSUME FileTypes, NEW r \in Request, Way(r), Lock(r)
  PROVE  Way(r)' /\ Made(r)'
<1> DEFINE c == req[r]
           d == req'[r]
<1>1. /\ c.pc = "lock" /\ SameRequest(c, d) /\ d.handle = c.handle /\ d.accepted = c.accepted
      /\ d.committed = c.committed /\ d.pc = "handle" /\ d.locked
      /\ \/ /\ d.sid = <<r, 1>> /\ d.new /\ d.loaded = c.loaded /\ d.session = c.session
         \/ /\ d.sid = c.sid /\ d.new = c.new /\ d.loaded = d.session
  BY LockRecord DEF IsAt
<1>2. ~c.new /\ c.sid = c.sent /\ c.handle # NoHandle /\ ~c.accepted /\ ~c.committed
      /\ c.loaded = Blank /\ c.session = Blank /\ c.handle \in DOMAIN files /\ c.sent \in Id
  BY <1>1 DEF Way, Lasting, Opened
<1>3. files' = files
  BY DEF Lock
<1> QED BY <1>1, <1>2, <1>3 DEF Way, Made, SameRequest, Lasting, Opened

(* ...for CommitFirst... *)
LEMMA WayOfCommit ==
  ASSUME FileTypes, NEW r \in Request, Way(r), Made(r), CommitFirst(r)
  PROVE  Way(r)' /\ Made(r)'
<1>1. IsAt(r, "commit")
      /\ LET c == req[r]
             d == req'[r]
         IN /\ SameRequest(c, d) /\ d.sid = c.sid /\ d.new = c.new /\ d.handle = c.handle
            /\ d.locked = c.locked /\ d.loaded = c.loaded /\ d.session = c.session
            /\ d.accepted = c.accepted /\ d.pc = "store" /\ d.committed
  BY CommitRecord
<1>2. files' = files
  BY DEF CommitFirst
<1>3. Way(r)'
  BY <1>1, <1>2 DEF Way, SameRequest, Lasting, Opened, IsAt
<1>4. Made(r)'
  BY <1>1, <1>2 DEF Made, SameRequest, IsAt
<1> QED BY <1>3, <1>4

(* ...and for OpenForStore: only a request that has called clear() opens    *)
(* its old id again.                                                        *)
LEMMA WayOfOpenForStore ==
  ASSUME FileTypes, NEW r \in Request, Way(r), Made(r), OpenForStore(r)
  PROVE  Way(r)' /\ Made(r)' /\ req[r].sid \in Id
         /\ (~req[r].new => req[r].op = "restart")
<1> DEFINE c == req[r]
           d == req'[r]
<1>1. /\ c.pc = "store" /\ SameRequest(c, d) /\ d.sid = c.sid /\ d.new = c.new
      /\ d.loaded = c.loaded /\ d.session = c.session /\ d.accepted = c.accepted
      /\ d.committed = c.committed /\ d.pc = "write" /\ d.handle = FileFor(c.sid) /\ ~d.locked
  BY OpenForStoreRecord DEF IsAt
<1>2. c.op # "download" /\ (c.new \/ c.handle = NoHandle)
  BY DEF OpenForStore
<1>3. c.sid \in Id
  BY <1>1, IdFacts DEF Way, Made
<1>4. ~c.new => c.op = "restart"
  BY <1>1, <1>2 DEF Made
<1>5. d.handle # NoHandle /\ d.handle \in DOMAIN files'
  BY <1>1, <1>3, OpenForStoreFiles
<1>6. Way(r)'
  BY <1>1, <1>2, <1>5 DEF Way, SameRequest, Lasting, Opened
<1>7. ~c.accepted \/ (c.op = "form" /\ ~c.new)
  BY <1>1 DEF Made
<1>8. Made(r)'
  BY <1>1, <1>4, <1>7 DEF Made, SameRequest
<1> QED BY <1>3, <1>4, <1>6, <1>8

(* The session after the handler, see HandledBecomes. *)
LEMMA HandlerOfSession ==
  ASSUME FileTypes, Fresh, NEW r \in Request, Way(r), IsAt(r, "handle")
  PROVE  /\ req[r].session = req[r].loaded /\ req[r].loaded \in Session
         /\ Becomes(r, req[r].op, req[r].key, req[r].loaded, Handled(r))
         /\ Handled(r) \in Session
<1>1. req[r] \in RequestRecord
  BY DEF FileTypes
<1>2. req[r].session = req[r].loaded /\ req[r].loaded \in Session /\ req[r].op \in SessionOp
  BY <1>1 DEF Way, IsAt, RequestRecord
<1>3. Distinct(req[r].loaded.keys) /\ ~Has(req[r].loaded.keys, r)
  BY DEF Fresh, Traces
<1>4. Becomes(r, req[r].op, req[r].key, req[r].loaded, Handled(r))
  BY <1>2, <1>3, HandledBecomes
<1> QED BY <1>2, <1>4 DEF Becomes

(* After the handler the session is what Made says of it. *)
LEMMA WayOfHandle ==
  ASSUME FileTypes, Fresh, NEW r \in Request, Way(r), Handle(r)
  PROVE  Way(r)' /\ Made(r)'
<1> DEFINE c == req[r]
           d == req'[r]
<1>1. /\ c.session = c.loaded /\ c.loaded \in Session /\ Handled(r) \in Session
      /\ Becomes(r, c.op, c.key, c.loaded, Handled(r))
  BY HandlerOfSession DEF Handle
<1>2. /\ c.pc = "handle" /\ SameRequest(c, d) /\ d.loaded = c.loaded
      /\ d.committed = c.committed /\ d.pc = "commit"
      /\ d.session = Handled(r) /\ d.accepted = Accepts(r)
      /\ \/ /\ c.op \in {"login", "logout"} /\ d.sid = <<r, 2>> /\ d.new
            /\ d.handle = NoHandle /\ ~d.locked
         \/ /\ c.op \in {"restart", "download"} /\ d.sid = c.sid /\ d.new = c.new
            /\ d.handle = NoHandle /\ ~d.locked
         \/ /\ c.op \notin {"login", "logout", "restart", "download"}
            /\ d.sid = c.sid /\ d.new = c.new
            /\ d.handle = c.handle /\ d.locked = c.locked
  BY <1>1, HandleRecord DEF IsAt
<1>3. files' = files
  BY DEF Handle
<1>4. /\ ~c.accepted /\ ~c.committed /\ (c.new => c.loaded = Blank)
      /\ (~c.new => c.locked /\ c.sid = c.sent /\ c.handle # NoHandle /\ c.sent \in Id)
  BY <1>2 DEF Way, Opened
<1>5. Accepts(r) => c.op = "form" /\ Has(c.loaded.keys, c.key) /\ c.key # r /\ ~c.new
  <2>1. c.loaded = Blank => ~Has(c.loaded.keys, c.key)
    BY BlankType
  <2>2. ~Has(c.loaded.keys, r)
    BY DEF Fresh, Traces
  <2> QED BY <1>1, <1>4, <2>1, <2>2 DEF Accepts
<1>6. Way(r)'
  BY <1>2, <1>3, <1>4, <1>5 DEF Way, SameRequest, Lasting, Opened
<1>7. Made(r)'
  <2>1. d.op = c.op /\ d.key = c.key /\ d.sent = c.sent
    BY <1>2 DEF SameRequest
  <2>2. /\ d.op = "login" => d.new /\ d.sid = <<r, 2>>
        /\ d.op = "logout" => d.new
        /\ ~d.new => d.sent \in Id
        /\ ~d.new /\ d.handle = NoHandle => d.op \in {"restart", "download"}
    BY <1>2, <1>4, <2>1
  <2>3. d.accepted => /\ d.op = "form" /\ ~d.new
                      /\ ~Has(d.session.keys, d.key) /\ Has(d.session.keys, r)
    BY <1>1, <1>2, <1>5, <2>1 DEF Becomes
  <2>4. /\ d.op = "login" => d.session.auth = r
        /\ d.session.auth \in {d.loaded.auth, NoRequest, r}
        /\ d.session.auth = r => d.op = "login"
    <3>1. c.loaded.auth # r /\ r # NoRequest
      BY RequestAssumption DEF Fresh, Traces
    <3> QED BY <1>1, <1>2, <2>1, <3>1 DEF Becomes
  <2>5. d.new /\ d.op # "login" => d.session.auth = NoRequest
    <3>1. CASE d.op = "logout"
      BY <1>1, <1>2, <2>1, <3>1, ClearedType DEF Becomes
    <3>2. CASE d.op # "logout"
      <4>1. d.new /\ d.op # "login" => c.new /\ c.loaded.auth = NoRequest
        BY <1>2, <1>4, <2>1, <3>2, BlankType
      <4> QED BY <1>1, <1>2, <2>1, <4>1 DEF Becomes
    <3> QED BY <3>1, <3>2
  <2>6. /\ d.op \in {"logout", "restart"} => Cleared(d.session, r)
        /\ \A k \in Request : Has(d.session.keys, k) => Has(d.loaded.keys, k) \/ k = r
        /\ d.op \notin {"logout", "restart"} => d.loaded.seen \subseteq d.session.seen
        /\ d.session.seen \subseteq d.loaded.seen \cup {r}
        /\ Distinct(d.session.keys)
    BY <1>1, <1>2, <2>1 DEF Becomes
  <2> QED BY <1>2, <2>2, <2>3, <2>4, <2>5, <2>6 DEF Made
<1> QED BY <1>6, <1>7

(* Nothing is new about request q but that it is further, or over.          *)
Fades(q) ==
  LET c == req[q]
      d == req'[q]
  IN /\ d.loaded = c.loaded
     /\ c.pc = "idle" \/ d.sent = c.sent
     /\ d.locked => c.locked /\ d.new = c.new /\ d.handle = c.handle
     /\ d.handle \in {c.handle, NoHandle}
     /\ d.pc \in Opened => c.pc \in Opened
     /\ d.pc = "write" => d = c
     /\ c.pc \in Lasting => d.pc \in Lasting
     /\ c.pc = "answered" => d.pc = "answered"
     /\ c.pc = "write" => d.pc \in Lasting \cup {"write"}

(* Files stay as they are and lose their names at most. *)
Shrunk ==
  /\ files' = files
  /\ DOMAIN names' \subseteq DOMAIN names
  /\ \A s \in DOMAIN names' : names'[s] = names[s]
  /\ \A q \in Request : IsAt(q, "write") /\ req[q].new /\ req[q].sid \in DOMAIN names
       => req[q].sid \in DOMAIN names'

(* Requests that fade, over files that lose their names, leave everything   *)
(* that relates requests and files.                                         *)
LEMMA FadingKeeps ==
  ASSUME FileInv, \A q \in Request : Fades(q), Shrunk
  PROVE  (Mutex /\ LoadedOK /\ NamesOK /\ HandleOK /\ Fresh)'
<1> USE DEF FileInv
<1>1. Mutex'
  BY DEF Mutex, Fades
<1>2. LoadedOK'
  BY DEF LoadedOK, Fades, Shrunk
<1>3. NamesOK'
  <2>1. \A s \in DOMAIN names : s[1] \in Request
    BY IdFacts DEF FileTypes
  <2>2. \A q \in Request : req[q].pc \in Lasting \cup {"write"}
            => req'[q].pc \in Lasting \cup {"write"}
    BY DEF Fades
  <2>3. DOMAIN names' \subseteq DOMAIN names /\ \A s \in DOMAIN names' : names'[s] = names[s]
    BY DEF Shrunk
  <2> QED BY <2>1, <2>2, <2>3 DEF NamesOK
<1>4. HandleOK'
  <2>1. ASSUME NEW q \in Request, req'[q].pc \in Opened, NEW s \in DOMAIN names',
               names'[s] = req'[q].handle
        PROVE  s = req'[q].sent
    <3>1. s \in DOMAIN names /\ names[s] = names'[s] /\ names[s] # NoHandle
      <4>1. s \in DOMAIN names /\ names[s] = names'[s]
        BY DEF Shrunk
      <4>2. names[s] \in 1 .. Len(files)
        BY <4>1 DEF FileTypes
      <4> QED BY <4>1, <4>2 DEF NoHandle
    <3>2. req[q].pc \in Opened /\ req'[q].sent = req[q].sent /\ req[q].handle = req'[q].handle
      BY <2>1, <3>1 DEF Fades, Opened
    <3> QED BY <2>1, <3>1, <3>2 DEF HandleOK
  <2>2. ASSUME NEW q \in Request, req'[q].pc = "write", req'[q].new
        PROVE  /\ req'[q].sid \in DOMAIN names' /\ names'[req'[q].sid] = req'[q].handle
               /\ files'[req'[q].handle] = Emptied
               /\ \A r \in Request : req'[r].handle = req'[q].handle => r = q
    <3>1. req'[q] = req[q] /\ IsAt(q, "write") /\ req[q].new /\ req[q].handle # NoHandle
      BY <2>2 DEF Fades, IsAt, Way
    <3>2. /\ req[q].sid \in DOMAIN names /\ names[req[q].sid] = req[q].handle
          /\ files[req[q].handle] = Emptied
          /\ \A r \in Request : req[r].handle = req[q].handle => r = q
      BY <3>1 DEF HandleOK
    <3>3. \A r \in Request : req'[r].handle = req'[q].handle => req[r].handle = req[q].handle
      BY <3>1 DEF Fades
    <3> QED BY <3>1, <3>2, <3>3 DEF Shrunk
  <2> QED BY <2>1, <2>2 DEF HandleOK, IsAt
<1>5. Fresh'
  <2>1. \A q \in Request : Finished(q) => Finished(q)'
    BY DEF Finished, Fades
  <2>2. \A r \in Request : req'[r].loaded = req[r].loaded
    BY DEF Fades
  <2>3. files' = files
    BY DEF Shrunk
  <2> QED BY <2>1, <2>2, <2>3 DEF Fresh, Traces
<1> QED BY <1>1, <1>2, <1>3, <1>4, <1>5

(* Ids are known to browsers whose request is answered; that stays so while *)
(* cookies and ids sent do.                                                 *)
LEMMA SameKnown ==
  ASSUME FileInv, cookie' = cookie,
         \A q \in Request : /\ req[q].pc = "answered" => req'[q].pc = "answered"
                            /\ req'[q].sent = req[q].sent
  PROVE  KnownOK'
<1>1. KnownOK /\ \A b \in Browser : cookie[b] \in Id => cookie[b][1] \in Request
  BY IdFacts DEF FileInv
<1>2. \A q \in Request : req[q].sent \in Id => req[q].sent[1] \in Request
  BY IdFacts
<1> QED BY <1>1, <1>2 DEF KnownOK, IsAt

(* The steps that let requests fade, and their session ids.                 *)
LEMMA ReceiveKeeps ==
  ASSUME FileInv, NEW r \in Request, Receive(r), UNCHANGED <<files, names>>
  PROVE  FileInv' /\ Shrunk /\ \A q \in Request : Fades(q)
<1> USE DEF FileInv
<1> DEFINE c == req[r]
           d == req'[r]
<1>1. /\ req' \in [Request -> RequestRecord] /\ Others(r) /\ c.pc = "done"
      /\ d.pc = "answered" /\ SameRequest(c, d) /\ d.sid = c.sid /\ d.new = c.new
      /\ d.handle = c.handle /\ d.locked = c.locked /\ d.loaded = c.loaded
  BY ReceiveRecord DEF IsAt
<1>2. visit' = visit /\ files' = files /\ names' = names
      /\ cookie' = IF c.status = "ok" /\ c.op # "download"
                   THEN [cookie EXCEPT ![c.browser] = c.sid] ELSE cookie
  BY DEF Receive
<1>3. FileTypes'
  <2>1. c.sid \in Id \cup {NoId}
    BY DEF FileTypes, RequestRecord
  <2> QED BY <1>1, <1>2, <2>1 DEF FileTypes
<1>4. \A q \in Request : Way(q)' /\ Made(q)'
  BY <1>1, <1>2, WayOfReceive, WayOfOthers DEF Others
<1>5. \A q \in Request : Fades(q)
  BY <1>1 DEF Fades, Others, SameRequest, Lasting, Opened
<1>6. Shrunk
  BY <1>2 DEF Shrunk
<1>7. KnownOK'
  <2>1. \A q \in Request : /\ IsAt(q, "answered") => req'[q].pc = "answered"
                           /\ req'[q].sent = req[q].sent
    BY <1>1 DEF IsAt, Others, SameRequest
  <2>2. \A q \in Request : req'[q].sent \in Id => req'[req'[q].sent[1]].pc = "answered"
    BY <2>1, IdFacts DEF KnownOK
  <2>3. c.sid \in Id => req'[c.sid[1]].pc = "answered"
    <3>1. CASE c.new
      <4>1. c.sid[1] = r
        BY <3>1 DEF Way
      <4> QED BY <1>1, <4>1 DEF IsAt
    <3>2. CASE ~c.new
      BY <2>1, <3>2, IdFacts DEF KnownOK, Way
    <3> QED BY <3>1, <3>2
  <2>4. ASSUME NEW b \in Browser, cookie'[b] \in Id
        PROVE  req'[cookie'[b][1]].pc = "answered"
    <3>1. cookie'[b] = cookie[b] \/ cookie'[b] = c.sid
      BY <1>2 DEF FileTypes
    <3> QED BY <2>1, <2>3, <2>4, <3>1, IdFacts DEF KnownOK
  <2> QED BY <2>2, <2>4 DEF KnownOK, IsAt
<1> QED BY <1>3, <1>4, <1>5, <1>6, <1>7, FadingKeeps

(* A new request sends an id its browser was told. *)
LEMMA SendKeeps ==
  ASSUME FileInv, NEW r \in Request, NEW b \in Browser, NEW op \in visit.ops,
         NEW key \in Request \cup {NoRequest}, Send(r, b, op, key, "connect"),
         UNCHANGED <<files, names>>
  PROVE  FileInv' /\ Shrunk /\ \A q \in Request : Fades(q)
<1> USE DEF FileInv
<1> DEFINE c == req[r]
           d == req'[r]
<1>1. /\ req' \in [Request -> RequestRecord] /\ Others(r) /\ c.pc = "idle"
      /\ d.pc = "connect" /\ d.sent = cookie[b] /\ ~d.new /\ d.handle = NoHandle
      /\ ~d.locked /\ d.loaded = Blank
  BY SendRecord DEF IsAt
<1>2. visit' = visit /\ cookie' = cookie /\ files' = files /\ names' = names
  BY DEF Send
<1>3. FileTypes'
  BY <1>1, <1>2 DEF FileTypes
<1>4. \A q \in Request : Way(q)' /\ Made(q)'
  BY <1>1, <1>2, WayOfSend, WayOfOthers DEF Others
<1>5. \A q \in Request : Fades(q)
  <2>1. c.loaded = Blank
    BY <1>1 DEF Way
  <2> QED BY <1>1, <2>1 DEF Fades, Others, Lasting, Opened
<1>6. Shrunk
  BY <1>2 DEF Shrunk
<1>7. KnownOK'
  <2>1. \A q \in Request : IsAt(q, "answered") => IsAt(q, "answered")'
    BY <1>1 DEF IsAt, Others
  <2>2. \A q \in Request : req'[q].sent = req[q].sent \/ req'[q].sent = cookie[b]
    BY <1>1 DEF Others
  <2> QED BY <1>2, <2>1, <2>2, IdFacts DEF KnownOK
<1> QED BY <1>3, <1>4, <1>5, <1>6, <1>7, FadingKeeps

(* A failed handler releases its lock and leaves the file. *)
LEMMA FailKeeps ==
  ASSUME FileInv, NEW r \in Request, FailHandler(r)
  PROVE  FileInv' /\ Shrunk /\ \A q \in Request : Fades(q)
<1> USE DEF FileInv
<1>1. /\ req' \in [Request -> RequestRecord] /\ Others(r)
      /\ req[r].pc \in {"handle", "commit"}
      /\ req'[r].pc = "done" /\ Ends(req[r], req'[r])
  BY FailRecord
<1>2. visit' = visit /\ cookie' = cookie /\ files' = files /\ names' = names
  BY DEF FailHandler
<1>3. FileTypes'
  BY <1>1, <1>2 DEF FileTypes
<1>4. \A q \in Request : Way(q)' /\ Made(q)'
  BY <1>1, <1>2, WayOfEnded, WayOfOthers DEF Others
<1>5. \A q \in Request : Fades(q)
  BY <1>1 DEF Fades, Others, Ends, SameRequest, Lasting, Opened
<1>6. Shrunk
  BY <1>2 DEF Shrunk
<1>7. KnownOK'
  BY <1>1, <1>2, SameKnown DEF Others, Ends, SameRequest
<1> QED BY <1>3, <1>4, <1>5, <1>6, <1>7, FadingKeeps

(* So does a request that has nothing to store. *)
LEMMA StoreNothingKeeps ==
  ASSUME FileInv, NEW r \in Request, StoreNothing(r)
  PROVE  FileInv' /\ Shrunk /\ \A q \in Request : Fades(q)
<1> USE DEF FileInv
<1>1. /\ req' \in [Request -> RequestRecord] /\ Others(r) /\ req[r].pc = "store"
      /\ req'[r].pc = "done" /\ Ends(req[r], req'[r])
  BY StoredRecord DEF StoreNothing, IsAt
<1>2. visit' = visit /\ cookie' = cookie /\ files' = files /\ names' = names
  BY DEF StoreNothing
<1>3. FileTypes'
  BY <1>1, <1>2 DEF FileTypes
<1>4. \A q \in Request : Way(q)' /\ Made(q)'
  BY <1>1, <1>2, WayOfEnded, WayOfOthers DEF Others
<1>5. \A q \in Request : Fades(q)
  BY <1>1 DEF Fades, Others, Ends, SameRequest, Lasting, Opened
<1>6. Shrunk
  BY <1>2 DEF Shrunk
<1>7. KnownOK'
  BY <1>1, <1>2, SameKnown DEF Others, Ends, SameRequest
<1> QED BY <1>3, <1>4, <1>5, <1>6, <1>7, FadingKeeps

(* The commit comes before the store and changes no file. *)
LEMMA CommitKeeps ==
  ASSUME FileInv, NEW r \in Request, CommitFirst(r)
  PROVE  FileInv' /\ Shrunk /\ \A q \in Request : Fades(q)
<1> USE DEF FileInv
<1> DEFINE c == req[r]
           d == req'[r]
<1>1. /\ req' \in [Request -> RequestRecord] /\ Others(r) /\ c.pc = "commit"
      /\ SameRequest(c, d) /\ d.sid = c.sid /\ d.new = c.new /\ d.handle = c.handle
      /\ d.locked = c.locked /\ d.loaded = c.loaded /\ d.pc = "store"
  BY CommitRecord DEF IsAt
<1>2. visit' = visit /\ cookie' = cookie /\ files' = files /\ names' = names
  BY DEF CommitFirst
<1>3. FileTypes'
  BY <1>1, <1>2 DEF FileTypes
<1>4. \A q \in Request : Way(q)' /\ Made(q)'
  BY <1>1, <1>2, WayOfCommit, WayOfOthers DEF Others
<1>5. \A q \in Request : Fades(q)
  BY <1>1 DEF Fades, Others, SameRequest, Lasting, Opened
<1>6. Shrunk
  BY <1>2 DEF Shrunk
<1>7. KnownOK'
  BY <1>1, <1>2, SameKnown DEF Others, SameRequest
<1> QED BY <1>3, <1>4, <1>5, <1>6, <1>7, FadingKeeps

(* A crash releases every lock and leaves the files, those emptied for      *)
(* writing too.                                                             *)
LEMMA CrashKeeps ==
  ASSUME FileInv, FileCrash
  PROVE  FileInv' /\ Shrunk /\ \A q \in Request : Fades(q)
<1> USE DEF FileInv
<1>1. /\ req' \in [Request -> RequestRecord] /\ visit' \in Visit
      /\ \A q \in Request :
           \/ ~InProgress(q) /\ req'[q] = req[q]
           \/ InProgress(q) /\ req'[q].pc = "dead" /\ Ends(req[q], req'[q])
  BY CrashRecords
<1>2. cookie' = cookie /\ files' = files /\ names' = names
  BY DEF FileCrash
<1>3. FileTypes'
  BY <1>1, <1>2 DEF FileTypes
<1>4. \A q \in Request : Way(q)' /\ Made(q)'
  BY <1>1, <1>2, WayOfEnded, WayOfOthers
<1>5. ASSUME NEW q \in Request
      PROVE  Fades(q)
  <2>1. CASE req'[q] = req[q]
    BY <2>1 DEF Fades
  <2>2. CASE InProgress(q) /\ req'[q].pc = "dead" /\ Ends(req[q], req'[q])
    BY <2>2 DEF Fades, InProgress, Ends, SameRequest, Lasting, Opened
  <2> QED BY <1>1, <2>1, <2>2
<1>6. Shrunk
  BY <1>2 DEF Shrunk
<1>7. KnownOK'
  <2>1. \A q \in Request : /\ req[q].pc = "answered" => req'[q].pc = "answered"
                           /\ req'[q].sent = req[q].sent
    BY <1>1 DEF InProgress, Ends, SameRequest
  <2> QED BY <1>2, <2>1, SameKnown
<1> QED BY <1>3, <1>4, <1>5, <1>6, <1>7, FadingKeeps

(* A handler writes no file; clear takes a name away. *)
LEMMA HandleKeeps ==
  ASSUME FileInv, NEW r \in Request, Handle(r)
  PROVE  FileInv' /\ Shrunk /\ \A q \in Request : Fades(q)
<1> USE DEF FileInv
<1> DEFINE c == req[r]
           d == req'[r]
<1>1. Handled(r) \in Session
  BY HandlerOfSession DEF Handle
<1>2. /\ req' \in [Request -> RequestRecord] /\ Others(r) /\ c.pc = "handle"
      /\ SameRequest(c, d) /\ d.loaded = c.loaded /\ d.pc = "commit"
      /\ \/ /\ c.op \in {"login", "logout"} /\ d.sid = <<r, 2>> /\ d.new
            /\ d.handle = NoHandle /\ ~d.locked
         \/ /\ c.op \in {"restart", "download"} /\ d.sid = c.sid /\ d.new = c.new
            /\ d.handle = NoHandle /\ ~d.locked
         \/ /\ c.op \notin {"login", "logout", "restart", "download"}
            /\ d.sid = c.sid /\ d.new = c.new
            /\ d.handle = c.handle /\ d.locked = c.locked
  BY <1>1, HandleRecord DEF IsAt
<1>3. visit' = visit /\ cookie' = cookie /\ files' = files
      /\ names' = IF Clears(r) THEN [sid \in DOMAIN names \ {c.sid} |-> names[sid]] ELSE names
  BY DEF Handle
<1>4. DOMAIN names' \subseteq DOMAIN names /\ \A s \in DOMAIN names' : names'[s] = names[s]
  BY <1>3
<1>5. FileTypes'
  BY <1>2, <1>3, <1>4 DEF FileTypes
<1>6. \A q \in Request : Way(q)' /\ Made(q)'
  BY <1>2, <1>3, WayOfHandle, WayOfOthers DEF Others
<1>7. \A q \in Request : Fades(q)
  BY <1>2 DEF Fades, Others, SameRequest, Lasting, Opened
<1>8. Shrunk
  <2>1. ASSUME NEW q \in Request, IsAt(q, "write"), req[q].new PROVE req[q].sid # c.sid
    <3>1. req[q].sid[1] = q /\ req[q].sid \in Id
      BY <2>1, IdFacts DEF Way
    <3>2. c.sid \in Id => IsAt(c.sid[1], "answered") \/ c.sid[1] = r
      BY IdFacts DEF Way, KnownOK
    <3> QED BY <1>2, <2>1, <3>1, <3>2 DEF IsAt
  <2> QED BY <1>3, <1>4, <2>1 DEF Shrunk
<1>9. KnownOK'
  BY <1>2, <1>3, SameKnown DEF Others, SameRequest
<1> QED BY <1>5, <1>6, <1>7, <1>8, <1>9, FadingKeeps

(* The file a request opens has the name it was sent. *)
LEMMA OpenKeeps ==
  ASSUME FileInv, NEW r \in Request, OpenSession(r)
  PROVE  FileInv'
<1> USE DEF FileInv
<1> DEFINE c == req[r]
           d == req'[r]
<1>1. /\ req' \in [Request -> RequestRecord] /\ Others(r) /\ c.pc = "connect"
      /\ SameRequest(c, d) /\ d.locked = c.locked /\ d.loaded = c.loaded
      /\ \/ /\ c.sid \in DOMAIN names
            /\ d.pc = "lock" /\ d.handle = names[c.sid] /\ d.sid = c.sid /\ d.new = c.new
         \/ /\ c.sid \notin DOMAIN names
            /\ d.pc = "handle" /\ d.handle = c.handle /\ d.sid = <<r, 1>> /\ d.new
  BY OpenRecord DEF IsAt
<1>2. visit' = visit /\ cookie' = cookie /\ files' = files /\ names' = names
  BY DEF OpenSession
<1>3. ~c.new /\ c.sid = c.sent /\ c.handle = NoHandle /\ ~c.locked
  BY <1>1 DEF Way, Lasting, Opened
<1>4. FileTypes'
  BY <1>1, <1>2 DEF FileTypes
<1>5. \A q \in Request : Way(q)' /\ Made(q)'
  BY <1>1, <1>2, WayOfOpen, WayOfOthers DEF Others
<1>6. KnownOK'
  BY <1>1, <1>2, SameKnown DEF Others, SameRequest
<1>7. Mutex' /\ LoadedOK'
  BY <1>1, <1>2, <1>3 DEF Mutex, LoadedOK, Others
<1>8. NamesOK'
  <2>1. \A s \in DOMAIN names : s[1] \in Request
    BY IdFacts DEF FileTypes
  <2>2. \A q \in Request : req[q].pc \in Lasting \cup {"write"}
            => req'[q].pc \in Lasting \cup {"write"}
    BY <1>1 DEF Others, Lasting
  <2> QED BY <1>2, <2>1, <2>2 DEF NamesOK
<1>9. Fresh'
  <2>1. \A q \in Request : Finished(q) => Finished(q)'
    BY <1>1 DEF Finished, Others, Lasting
  <2>2. \A q \in Request : req'[q].loaded = req[q].loaded
    BY <1>1 DEF Others
  <2> QED BY <1>2, <2>1, <2>2 DEF Fresh, Traces
<1>10. HandleOK'
  <2>1. ASSUME NEW q \in Request, req'[q].pc \in Opened, NEW s \in DOMAIN names,
               names[s] = req'[q].handle
        PROVE  s = req'[q].sent
    <3>1. CASE q # r
      BY <1>1, <2>1, <3>1 DEF HandleOK, Others
    <3>2. CASE q = r
      <4>1. c.sid \in DOMAIN names /\ d.handle = names[c.sid]
        <5>1. names[s] \in 1 .. Len(files)
          BY DEF FileTypes
        <5>2. d.handle # NoHandle
          BY <2>1, <3>2, <5>1 DEF NoHandle
        <5> QED BY <1>1, <1>3, <5>2
      <4> QED BY <1>1, <1>3, <2>1, <3>2, <4>1 DEF NamesOK, SameRequest
    <3> QED BY <3>1, <3>2
  <2>2. ASSUME NEW q \in Request, req'[q].pc = "write", req'[q].new
        PROVE  /\ req'[q].sid \in DOMAIN names /\ names[req'[q].sid] = req'[q].handle
               /\ files[req'[q].handle] = Emptied
               /\ \A p \in Request : req'[p].handle = req'[q].handle => p = q
    <3>1. q # r /\ req'[q] = req[q]
      BY <1>1, <2>2 DEF Others
    <3>2. /\ req[q].sid \in DOMAIN names /\ names[req[q].sid] = req[q].handle
          /\ files[req[q].handle] = Emptied
          /\ \A p \in Request : req[p].handle = req[q].handle => p = q
      BY <2>2, <3>1 DEF HandleOK, IsAt
    <3>3. d.handle # req[q].handle
      <4>1. CASE d.handle = NoHandle
        BY <2>2, <3>1, <4>1 DEF Way
      <4>2. CASE d.handle # NoHandle
        <5>1. c.sid \in DOMAIN names /\ d.handle = names[c.sid]
          BY <1>1, <1>3, <4>2
        <5>2. req[q].sid[1] = q /\ c.sid \in Id
          BY <2>2, <3>1, <5>1 DEF Way, FileTypes
        <5>3. IsAt(c.sid[1], "answered")
          BY <1>3, <5>2 DEF KnownOK
        <5>4. c.sid # req[q].sid
          BY <2>2, <3>1, <5>2, <5>3 DEF IsAt
        <5> QED BY <3>2, <5>1, <5>4 DEF NamesOK
      <4> QED BY <4>1, <4>2
    <3> QED BY <1>1, <3>1, <3>2, <3>3 DEF Others
  <2> QED BY <1>2, <2>1, <2>2 DEF HandleOK, IsAt
<1> QED BY <1>4, <1>5, <1>6, <1>7, <1>8, <1>9, <1>10

(* Whoever gets the lock loads what is in the file, and nobody else has it. *)
LEMMA LockKeeps ==
  ASSUME FileInv, NEW r \in Request, Lock(r)
  PROVE  FileInv'
<1> USE DEF FileInv
<1> DEFINE c == req[r]
           d == req'[r]
<1>1. /\ req' \in [Request -> RequestRecord] /\ Others(r) /\ c.pc = "lock"
      /\ SameRequest(c, d) /\ d.handle = c.handle /\ d.pc = "handle" /\ d.locked
      /\ \/ /\ d.new /\ d.loaded = c.loaded
         \/ /\ files[c.handle] # Emptied
            /\ d.new = c.new /\ d.loaded = files[c.handle][1]
  BY LockRecord DEF IsAt
<1>2. visit' = visit /\ cookie' = cookie /\ files' = files /\ names' = names
      /\ ~Held(c.handle)
  BY DEF Lock
<1>3. c.handle \in DOMAIN files
  BY <1>1 DEF Way
<1>4. FileTypes'
  BY <1>1, <1>2 DEF FileTypes
<1>5. \A q \in Request : Way(q)' /\ Made(q)'
  BY <1>1, <1>2, WayOfLock, WayOfOthers DEF Others
<1>6. KnownOK'
  BY <1>1, <1>2, SameKnown DEF Others, SameRequest
<1>7. Mutex'
  BY <1>1, <1>2 DEF Mutex, Others, Held
<1>8. LoadedOK'
  <2>1. files[c.handle] # Emptied => files[c.handle] = <<files[c.handle][1]>>
    BY <1>3, ContentFacts DEF FileTypes
  <2> QED BY <1>1, <1>2, <2>1 DEF LoadedOK, Others
<1>9. NamesOK'
  <2>1. \A s \in DOMAIN names : s[1] \in Request
    BY IdFacts DEF FileTypes
  <2>2. \A q \in Request : req[q].pc \in Lasting \cup {"write"}
            => req'[q].pc \in Lasting \cup {"write"}
    BY <1>1 DEF Others, Lasting
  <2> QED BY <1>2, <2>1, <2>2 DEF NamesOK
<1>10. Fresh'
  <2>1. \A q \in Request : Finished(q) => Finished(q)'
    BY <1>1 DEF Finished, Others, Lasting
  <2>2. ~Finished(r)
    BY <1>1 DEF Finished, Lasting
  <2>3. /\ \A q \in Request : q # r => req'[q].loaded = req[q].loaded
        /\ d.loaded = c.loaded \/ (files[c.handle] # Emptied /\ d.loaded = files[c.handle][1])
    BY <1>1 DEF Others
  <2>4. /\ Distinct(d.loaded.keys)
        /\ \A q \in Request : Traces(d.loaded, q) => Finished(q) /\ q # r
    BY <1>3, <2>2, <2>3 DEF Fresh
  <2>5. \A q \in Request : /\ Distinct(req'[q].loaded.keys)
          /\ \A p \in Request : Traces(req'[q].loaded, p) => Finished(p) /\ p # q
    BY <2>3, <2>4 DEF Fresh
  <2>6. \A i \in DOMAIN files : files[i] # Emptied =>
           /\ Distinct(files[i][1].keys)
           /\ \A q \in Request : Traces(files[i][1], q) => Finished(q)
    BY DEF Fresh
  <2> QED BY <1>2, <2>1, <2>5, <2>6 DEF Fresh, Traces
<1>11. HandleOK'
  <2>1. \A q \in Request : /\ req'[q].handle = req[q].handle /\ req'[q].sent = req[q].sent
                           /\ req'[q].pc \in Opened => req[q].pc \in Opened
    BY <1>1 DEF Others, SameRequest, Opened
  <2>2. \A q \in Request : req'[q].pc = "write" => req'[q] = req[q]
    BY <1>1 DEF Others
  <2> QED BY <1>2, <2>1, <2>2 DEF HandleOK, IsAt
<1> QED BY <1>4, <1>5, <1>6, <1>7, <1>8, <1>9, <1>10, <1>11

(* Traces in what a request stores. *)
LEMMA TracesOfStored ==
  ASSUME FileInv, NEW r \in Request, req[r].pc \in {"store", "write"},
         NEW q \in Request, Traces(req[r].session, q)
  PROVE  q = r \/ Finished(q)
<1>1. Made(r) /\ Fresh
  BY DEF FileInv
<1>2. q = r \/ Traces(req[r].loaded, q)
  BY <1>1, RequestAssumption DEF Made, Traces
<1> QED BY <1>1, <1>2 DEF Fresh

(* Both ways to write into a file that is open. *)
LEMMA WritingKeeps ==
  ASSUME FileInv, NEW r \in Request, req[r].pc \in {"store", "write"},
         req[r].handle # NoHandle, Change(r, StoredIn(r)),
         files' = [files EXCEPT ![req[r].handle] = <<req[r].session>>],
         visit' = visit, cookie' = cookie, names' = names,
         \A q \in Request : req[q].locked /\ req[q].handle = req[r].handle => q = r,
         \A q \in Request : req[q].pc = "write" /\ req[q].new /\ req[q].handle = req[r].handle
                               => q = r
  PROVE  FileInv'
<1> USE DEF FileInv
<1> DEFINE c == req[r]
           d == req'[r]
           i == c.handle
           s == c.session
<1>1. /\ req' \in [Request -> RequestRecord] /\ Others(r)
      /\ d.pc = "done" /\ Ends(c, d)
  BY StoredRecord
<1>2. i \in DOMAIN files /\ s \in Session
  BY DEF Way, FileTypes, RequestRecord
<1>3. /\ files' \in Seq(Content) /\ DOMAIN files' = DOMAIN files
      /\ files'[i] = <<s>> /\ files'[i] # Emptied /\ files'[i][1] = s
      /\ \A j \in DOMAIN files : j # i => files'[j] = files[j]
  BY <1>2, WrittenFiles
<1>4. FileTypes'
  BY <1>1, <1>3 DEF FileTypes
<1>5. \A q \in Request : Way(q)' /\ Made(q)'
  BY <1>1, <1>3, WayOfEnded, WayOfOthers DEF Others
<1>6. KnownOK'
  BY <1>1, SameKnown DEF Others, Ends, SameRequest
<1>7. Mutex'
  BY <1>1 DEF Mutex, Others, Ends
<1>8. LoadedOK'
  <2>1. ASSUME NEW q \in Request, req'[q].locked, ~req'[q].new
        PROVE  files'[req'[q].handle] \in {Emptied, <<req'[q].loaded>>}
    <3>1. q # r /\ req'[q] = req[q]
      BY <1>1, <2>1 DEF Others, Ends
    <3>2. req[q].handle # i /\ req[q].handle \in DOMAIN files
      BY <2>1, <3>1 DEF Way
    <3> QED BY <1>3, <2>1, <3>1, <3>2 DEF LoadedOK
  <2> QED BY <2>1 DEF LoadedOK
<1>9. NamesOK'
  <2>1. \A t \in DOMAIN names : t[1] \in Request
    BY IdFacts DEF FileTypes
  <2>2. \A q \in Request : req[q].pc \in Lasting \cup {"write"}
            => req'[q].pc \in Lasting \cup {"write"}
    BY <1>1 DEF Others, Lasting
  <2> QED BY <2>1, <2>2 DEF NamesOK
<1>10. Fresh'
  <2>1. \A q \in Request : q = r \/ Finished(q) => Finished(q)'
    BY <1>1 DEF Finished, Others, Lasting
  <2>2. \A q \in Request : req'[q].loaded = req[q].loaded
    BY <1>1 DEF Others, Ends
  <2>3. Distinct(s.keys) /\ \A q \in Request : Traces(s, q) => Finished(q)'
    BY <2>1, TracesOfStored DEF Made
  <2>4. ASSUME NEW j \in DOMAIN files, files'[j] # Emptied
        PROVE  /\ Distinct(files'[j][1].keys)
               /\ \A q \in Request : Traces(files'[j][1], q) => Finished(q)'
    <3>1. CASE j = i
      BY <1>3, <2>3, <3>1
    <3>2. CASE j # i
      BY <1>3, <2>1, <2>4, <3>2 DEF Fresh
    <3> QED BY <3>1, <3>2
  <2>5. \A p \in Request :
          /\ Distinct(req'[p].loaded.keys)
          /\ \A q \in Request : Traces(req'[p].loaded, q) => Finished(q)' /\ q # p
    BY <2>1, <2>2 DEF Fresh
  <2> QED BY <1>3, <2>4, <2>5 DEF Fresh, Traces
<1>11. HandleOK'
  <2>1. ASSUME NEW q \in Request, req'[q].pc \in Opened, NEW t \in DOMAIN names,
               names[t] = req'[q].handle
        PROVE  t = req'[q].sent
    <3>1. q # r /\ req'[q] = req[q]
      BY <1>1, <2>1 DEF Others, Opened
    <3> QED BY <2>1, <3>1 DEF HandleOK
  <2>2. ASSUME NEW q \in Request, req'[q].pc = "write", req'[q].new
        PROVE  /\ req'[q].sid \in DOMAIN names /\ names[req'[q].sid] = req'[q].handle
               /\ files'[req'[q].handle] = Emptied
               /\ \A p \in Request : req'[p].handle = req'[q].handle => p = q
    <3>1. q # r /\ req'[q] = req[q]
      BY <1>1, <2>2 DEF Others
    <3>2. /\ req[q].sid \in DOMAIN names /\ names[req[q].sid] = req[q].handle
          /\ files[req[q].handle] = Emptied
          /\ \A p \in Request : req[p].handle = req[q].handle => p = q
      BY <2>2, <3>1 DEF HandleOK, IsAt
    <3>3. req[q].handle # i /\ req[q].handle \in DOMAIN files /\ req[q].handle # NoHandle
      BY <2>2, <3>1 DEF Way
    <3> QED BY <1>1, <1>3, <3>1, <3>2, <3>3 DEF Others, Ends
  <2> QED BY <2>1, <2>2 DEF HandleOK, IsAt
<1> QED BY <1>4, <1>5, <1>6, <1>7, <1>8, <1>9, <1>10, <1>11

(* Overwrite writes the file it has the lock of... *)
LEMMA OverwriteFacts ==
  ASSUME FileInv, NEW r \in Request, Overwrite(r)
  PROVE  /\ req[r].pc = "store" /\ req[r].handle # NoHandle /\ req[r].locked /\ ~req[r].new
         /\ req[r].handle \in DOMAIN files
         /\ Change(r, StoredIn(r))
         /\ files' = [files EXCEPT ![req[r].handle] = <<req[r].session>>]
         /\ visit' = visit /\ cookie' = cookie /\ names' = names
         /\ \A q \in Request : req[q].locked /\ req[q].handle = req[r].handle => q = r
         /\ \A q \in Request : req[q].pc = "write" /\ req[q].new /\ req[q].handle = req[r].handle
                               => q = r
<1>1. req[r].pc = "store" /\ req[r].handle # NoHandle /\ ~req[r].new /\ Change(r, StoredIn(r))
      /\ files' = [files EXCEPT ![req[r].handle] = <<req[r].session>>]
      /\ visit' = visit /\ cookie' = cookie /\ names' = names
  BY DEF Overwrite, IsAt
<1>2. req[r].locked /\ req[r].handle \in DOMAIN files
  BY <1>1 DEF FileInv, Way, Opened
<1>3. \A q \in Request : req[q].locked /\ req[q].handle = req[r].handle => q = r
  BY <1>2 DEF FileInv, Mutex
<1>4. ASSUME NEW q \in Request, req[q].pc = "write", req[q].new, req[q].handle = req[r].handle
      PROVE  q = r
  <2>1. \A p \in Request : req[p].handle = req[q].handle => p = q
    BY <1>4 DEF FileInv, HandleOK, IsAt
  <2> QED BY <1>4, <2>1
<1> QED BY <1>1, <1>2, <1>3, <1>4

(* ...and WriteNew one that nobody has the lock of; either way no request   *)
(* with a new id waits to write it too.                                     *)
LEMMA WriteNewFacts ==
  ASSUME FileInv, NEW r \in Request, WriteNew(r)
  PROVE  /\ req[r].pc = "write" /\ req[r].handle # NoHandle
         /\ req[r].handle \in DOMAIN files
         /\ Change(r, StoredIn(r))
         /\ files' = [files EXCEPT ![req[r].handle] = <<req[r].session>>]
         /\ visit' = visit /\ cookie' = cookie /\ names' = names
         /\ \A q \in Request : req[q].locked => req[q].handle # req[r].handle
         /\ \A q \in Request : req[q].pc = "write" /\ req[q].new /\ req[q].handle = req[r].handle
                               => q = r
<1>1. /\ req[r].pc = "write" /\ Change(r, StoredIn(r)) /\ ~Held(req[r].handle)
      /\ files' = [files EXCEPT ![req[r].handle] = <<req[r].session>>]
      /\ visit' = visit /\ cookie' = cookie /\ names' = names
  BY DEF WriteNew, IsAt
<1>2. req[r].handle # NoHandle /\ req[r].handle \in DOMAIN files
  BY <1>1 DEF FileInv, Way
<1>3. \A q \in Request : req[q].locked => req[q].handle # req[r].handle
  BY <1>1 DEF Held
<1>4. ASSUME NEW q \in Request, req[q].pc = "write", req[q].new, req[q].handle = req[r].handle
      PROVE  q = r
  <2>1. \A p \in Request : req[p].handle = req[q].handle => p = q
    BY <1>4 DEF FileInv, HandleOK, IsAt
  <2> QED BY <1>4, <2>1
<1> QED BY <1>1, <1>2, <1>3, <1>4

(* The file opened for writing is emptied before its lock is taken: whoever *)
(* has the lock has loaded what was there, or has nothing.                  *)
LEMMA OpenForStoreKeeps ==
  ASSUME FileInv, NEW r \in Request, OpenForStore(r)
  PROVE  FileInv'
<1> USE DEF FileInv
<1> DEFINE c == req[r]
           d == req'[r]
           sid == c.sid
           i == FileFor(sid)
<1>1. /\ req' \in [Request -> RequestRecord] /\ Others(r) /\ c.pc = "store"
      /\ SameRequest(c, d) /\ d.sid = sid /\ d.new = c.new /\ d.loaded = c.loaded
      /\ d.pc = "write" /\ d.handle = i /\ ~d.locked
  BY OpenForStoreRecord DEF IsAt
<1>2. Way(r)' /\ Made(r)' /\ sid \in Id /\ (~c.new => c.op = "restart")
  BY WayOfOpenForStore
<1>3. /\ files' \in Seq(Content) /\ DOMAIN files' = DOMAIN files \cup {i}
      /\ i # NoHandle /\ files'[i] = Emptied
      /\ \A j \in DOMAIN files : j # i => files'[j] = files[j]
      /\ DOMAIN names' = DOMAIN names \cup {sid} /\ names'[sid] = i
      /\ \A s \in DOMAIN names : s # sid => names'[s] = names[s]
      /\ sid \notin DOMAIN names => i \notin DOMAIN files
      /\ sid \in DOMAIN names => names[sid] = i
  BY <1>2, OpenForStoreFiles DEF FileFor
<1>4. visit' = visit /\ cookie' = cookie
  BY DEF OpenForStore
<1> HIDE DEF i
<1>5. FileTypes'
  BY <1>1, <1>2, <1>3, <1>4 DEF FileTypes
<1>6. \A q \in Request : Way(q)' /\ Made(q)'
  BY <1>1, <1>2, <1>3, WayOfOthers DEF Others
<1>7. KnownOK'
  BY <1>1, <1>4, SameKnown DEF Others, SameRequest
<1>8. Mutex'
  BY <1>1 DEF Mutex, Others
<1>9. LoadedOK'
  <2>1. ASSUME NEW q \in Request, req'[q].locked, ~req'[q].new
        PROVE  files'[req'[q].handle] \in {Emptied, <<req'[q].loaded>>}
    <3>1. q # r /\ req'[q] = req[q]
      BY <1>1, <2>1 DEF Others
    <3>2. req[q].handle \in DOMAIN files
      BY <2>1, <3>1 DEF Way
    <3> QED BY <1>3, <2>1, <3>1, <3>2 DEF LoadedOK
  <2> QED BY <2>1 DEF LoadedOK
<1>10. IF c.new THEN sid[1] = r /\ sid \notin DOMAIN names
       ELSE sid = c.sent /\ IsAt(sid[1], "answered")
  <2>1. CASE c.new
    BY <1>1, <2>1 DEF Way, NamesOK, Lasting
  <2>2. CASE ~c.new
    BY <1>2, <2>2 DEF Way, KnownOK
  <2> QED BY <2>1, <2>2
<1>11. NamesOK'
  <2>1. \A s \in DOMAIN names : s[1] \in Request
    BY IdFacts DEF FileTypes
  <2>2. \A q \in Request : req[q].pc \in Lasting \cup {"write"}
            => req'[q].pc \in Lasting \cup {"write"}
    BY <1>1 DEF Others, Lasting
  <2>3. req'[sid[1]].pc \in Lasting \cup {"write"}
    BY <1>1, <1>2, <1>10, <2>2, IdFacts DEF IsAt, Lasting
  <2>4. \A s \in DOMAIN names' : req'[s[1]].pc \in Lasting \cup {"write"}
    BY <1>3, <2>1, <2>2, <2>3 DEF NamesOK
  <2>5. \A s, t \in DOMAIN names' : names'[s] = names'[t] => s = t
    <3>1. \A s \in DOMAIN names : names[s] \in DOMAIN files
      BY DEF FileTypes
    <3>2. \A s \in DOMAIN names : s # sid => names'[s] # i
      BY <1>3, <3>1 DEF NamesOK
    <3> QED BY <1>3, <3>2 DEF NamesOK
  <2> QED BY <2>4, <2>5 DEF NamesOK
<1>12. Fresh'
  <2>1. \A q \in Request : Finished(q) => Finished(q)'
    BY <1>1 DEF Finished, Others, Lasting
  <2>2. \A q \in Request : req'[q].loaded = req[q].loaded
    BY <1>1 DEF Others
  <2>3. \A j \in DOMAIN files' : files'[j] # Emptied => j \in DOMAIN files /\ files'[j] = files[j]
    BY <1>3
  <2>4. \A j \in DOMAIN files' : files'[j] # Emptied =>
          /\ Distinct(files'[j][1].keys)
          /\ \A q \in Request : Traces(files'[j][1], q) => Finished(q)'
    BY <2>1, <2>3 DEF Fresh
  <2>5. \A p \in Request :
          /\ Distinct(req'[p].loaded.keys)
          /\ \A q \in Request : Traces(req'[p].loaded, q) => Finished(q)' /\ q # p
    BY <2>1, <2>2 DEF Fresh
  <2> QED BY <2>4, <2>5 DEF Fresh, Traces
<1>13. HandleOK'
  <2>1. ASSUME NEW q \in Request, req'[q].pc \in Opened, NEW s \in DOMAIN names',
               names'[s] = req'[q].handle
        PROVE  s = req'[q].sent
    <3>1. q # r /\ req'[q] = req[q]
      BY <1>1, <2>1 DEF Others, Opened
    <3>2. req[q].handle \in DOMAIN files \/ req[q].handle = NoHandle
      BY DEF Way
    <3>3. CASE s = sid
      <4>1. req[q].handle = i
        BY <1>3, <2>1, <3>1, <3>3
      <4>2. sid \in DOMAIN names /\ names[sid] = i
        BY <1>3, <3>2, <4>1
      <4> QED BY <2>1, <3>1, <3>3, <4>1, <4>2 DEF HandleOK
    <3>4. CASE s # sid
      BY <1>3, <2>1, <3>1, <3>4 DEF HandleOK
    <3> QED BY <3>3, <3>4
  <2>2. ASSUME NEW q \in Request, req'[q].pc = "write", req'[q].new
        PROVE  /\ req'[q].sid \in DOMAIN names' /\ names'[req'[q].sid] = req'[q].handle
               /\ files'[req'[q].handle] = Emptied
               /\ \A p \in Request : req'[p].handle = req'[q].handle => p = q
    <3>1. CASE q = r
      <4>1. i \notin DOMAIN files
        BY <1>1, <1>3, <1>10, <2>2, <3>1
      <4>2. \A p \in Request : p # r => req[p].handle \in DOMAIN files \/ req[p].handle = NoHandle
        BY DEF Way
      <4> QED BY <1>1, <1>3, <3>1, <4>1, <4>2 DEF Others
    <3>2. CASE q # r
      <4>1. req'[q] = req[q] /\ req[q].pc = "write" /\ req[q].new
        BY <1>1, <2>2, <3>2 DEF Others
      <4>2. /\ req[q].sid \in DOMAIN names /\ names[req[q].sid] = req[q].handle
            /\ files[req[q].handle] = Emptied
            /\ \A p \in Request : req[p].handle = req[q].handle => p = q
        BY <4>1 DEF HandleOK, IsAt
      <4>3. req[q].sid # sid
        <5>1. req[q].sid[1] = q
          BY <4>1 DEF Way
        <5> QED BY <1>10, <3>2, <4>1, <5>1 DEF IsAt
      <4>4. req[q].handle # i
        BY <1>3, <4>2, <4>3, <1>11 DEF NamesOK
      <4>5. files'[req[q].handle] = Emptied
        BY <1>3, <4>2, <4>4 DEF FileTypes
      <4> QED BY <1>1, <1>3, <4>1, <4>2, <4>3, <4>4, <4>5 DEF Others
    <3> QED BY <3>1, <3>2
  <2> QED BY <2>1, <2>2 DEF HandleOK, IsAt
<1> QED BY <1>5, <1>6, <1>7, <1>8, <1>9, <1>11, <1>12, <1>13

(* Every step keeps the invariant. *)
LEMMA FileInvKept == FileInv /\ [FileNext]_fileVars => FileInv'
<1> SUFFICES ASSUME FileInv, [FileNext]_fileVars PROVE FileInv'
  OBVIOUS
<1>1. CASE UNCHANGED fileVars
  BY <1>1 DEF fileVars, sessionVars, FileInv, FileTypes, Way, Made, Mutex, LoadedOK, NamesOK,
     KnownOK, HandleOK, Fresh, Finished, Traces, IsAt
<1>2. CASE FileCrash
  BY <1>2, CrashKeeps
<1>3. ASSUME NEW r \in Request,
             \/ /\ \E b \in Browser, op \in visit.ops, key \in Request \cup {NoRequest} :
                     Send(r, b, op, key, "connect")
                /\ UNCHANGED <<files, names>>
             \/ FileStep(r) \/ FailHandler(r)
             \/ Receive(r) /\ UNCHANGED <<files, names>>
      PROVE  FileInv'
  <2>1. ASSUME NEW b \in Browser, NEW op \in visit.ops, NEW key \in Request \cup {NoRequest},
               Send(r, b, op, key, "connect"), UNCHANGED <<files, names>>
        PROVE  FileInv'
    BY <2>1, SendKeeps
  <2>2. CASE OpenSession(r)
    BY <2>2, OpenKeeps
  <2>3. CASE Lock(r)
    BY <2>3, LockKeeps
  <2>4. CASE Handle(r)
    BY <2>4, HandleKeeps
  <2>5. CASE CommitFirst(r)
    BY <2>5, CommitKeeps
  <2>6. CASE StoreNothing(r)
    BY <2>6, StoreNothingKeeps
  <2>7. CASE Overwrite(r)
    BY <2>7, OverwriteFacts, WritingKeeps
  <2>8. CASE OpenForStore(r)
    BY <2>8, OpenForStoreKeeps
  <2>9. CASE WriteNew(r)
    BY <2>9, WriteNewFacts, WritingKeeps
  <2>10. CASE FailHandler(r)
    BY <2>10, FailKeeps
  <2>11. CASE Receive(r) /\ UNCHANGED <<files, names>>
    BY <2>11, ReceiveKeeps
  <2> QED BY <1>3, <2>1, <2>2, <2>3, <2>4, <2>5, <2>6, <2>7, <2>8, <2>9, <2>10, <2>11 DEF FileStep
<1> QED BY <1>1, <1>2, <1>3 DEF FileNext

-----------------------------------------------------------------------------
(* Keys that are used up, and logins that end. *)

(* Where a key or a login still is: in a file, or in the hands of the       *)
(* request that has locked it.                                              *)
HasKey(k, i) ==
  \/ files[i] # Emptied /\ Has(files[i][1].keys, k)
  \/ \E q \in Request : req[q].locked /\ req[q].handle = i /\ Has(req[q].loaded.keys, k)
HasLogin(l, i) ==
  \/ files[i] # Emptied /\ files[i][1].auth = l
  \/ \E q \in Request : req[q].locked /\ req[q].handle = i /\ req[q].loaded.auth = l

(* The files that a session id leads to, by its name or by a request that   *)
(* has opened it.                                                           *)
Leads(s, i) ==
  \/ s \in DOMAIN names /\ names[s] = i
  \/ \E q \in Request : req[q].sent = s /\ req[q].handle = i /\ req[q].pc \in Opened

(* A key that request r has used up, and a login it has ended. *)
Used(r) == req[r].accepted /\ req[r].committed /\ req[r].pc \in {"done", "answered"}
LoggedOut(r) ==
  req[r].op = "logout" /\ r \in req[r].session.seen /\ req[r].loaded.auth # NoRequest

(* A key is in one file of a session id at most. *)
OnePlace ==
  \A s \in Id, i, j \in DOMAIN files, k \in Request :
    Leads(s, i) /\ Leads(s, j) /\ HasKey(k, i) /\ HasKey(k, j) => i = j
(* A key that is used up is in no file of the id it was sent with... *)
UsedUp ==
  \A r \in Request, i \in DOMAIN files :
    Used(r) /\ Leads(req[r].sent, i) => ~HasKey(req[r].key, i)
(* ...and was used up by one request. *)
UsedOnce ==
  \A r, s \in Request :
    Used(r) /\ Used(s) /\ req[r].key = req[s].key /\ req[r].sent = req[s].sent => r = s
(* A login is in the file that it made, and leads to no other id; *)
LoginPlace ==
  \A l \in Request, i \in DOMAIN files, s \in Id :
    HasLogin(l, i) /\ Leads(s, i) => s = <<l, 2>>
(* whoever has loaded it has sent that id. *)
LoadedLogin ==
  \A q \in Request : req[q].loaded.auth # NoRequest => req[q].sent = <<req[q].loaded.auth, 2>>
(* A login that has ended is in no file that has a name. *)
LoginGone ==
  \A r \in Request, i \in DOMAIN files :
    LoggedOut(r) /\ Named(i) => ~HasLogin(req[r].loaded.auth, i)

UseInv == OnePlace /\ UsedUp /\ UsedOnce /\ LoginPlace /\ LoadedLogin /\ LoginGone

(* Steps after which keys, logins and ids are at most where they were...    *)
Less ==
  /\ \A i \in DOMAIN files' :
       /\ \A k \in Request : HasKey(k, i)' => i \in DOMAIN files /\ HasKey(k, i)
       /\ \A l \in Request : HasLogin(l, i)' => i \in DOMAIN files /\ HasLogin(l, i)
  /\ \A i \in DOMAIN files :
       /\ \A s \in Id \cup {NoId} : Leads(s, i)' => Leads(s, i)
       /\ Named(i)' => Named(i)

(* ...and after which no more keys are used up than were, or no more        *)
(* requests are logged out.                                                 *)
SameUsed ==
  \A q \in Request : Used(q)' => /\ Used(q) /\ req'[q].key = req[q].key
                                 /\ req'[q].sent = req[q].sent
SameLoggedOut ==
  \A q \in Request : LoggedOut(q)' => LoggedOut(q) /\ req'[q].loaded = req[q].loaded

(* The key a request accepts was shown by another request, which is over. *)
LEMMA UsedKeys ==
  ASSUME FileInv, NEW r \in Request, req[r].accepted
  PROVE  req[r].key \in Request /\ req[r].key # r /\ Finished(req[r].key)
<1>1. Has(req[r].loaded.keys, req[r].key)
  BY DEF FileInv, Way
<1>2. req[r].loaded.keys \in Seq(Request)
  BY DEF FileInv, FileTypes, RequestRecord, Session
<1>3. req[r].key \in Request
  BY <1>1, <1>2, ElementOfSeq DEF Has
<1> QED BY <1>1, <1>3 DEF FileInv, Fresh, Traces

(* Such steps keep what is said of keys... *)
LEMMA LessKeepsUses ==
  ASSUME FileInv, UseInv, Less, SameUsed
  PROVE  (OnePlace /\ UsedUp /\ UsedOnce)'
<1> USE DEF UseInv
<1>1. OnePlace'
  <2>1. ASSUME NEW s \in Id, NEW i \in DOMAIN files', NEW j \in DOMAIN files', NEW k \in Request,
               Leads(s, i)', Leads(s, j)', HasKey(k, i)', HasKey(k, j)'
        PROVE  i = j
    <3>1. /\ i \in DOMAIN files /\ HasKey(k, i) /\ Leads(s, i)
          /\ j \in DOMAIN files /\ HasKey(k, j) /\ Leads(s, j)
      BY <2>1 DEF Less
    <3> QED BY <3>1 DEF OnePlace
  <2> QED BY <2>1 DEF OnePlace
<1>2. UsedUp'
  <2>1. ASSUME NEW r \in Request, NEW i \in DOMAIN files', Used(r)', NEW s, s = req'[r].sent,
               NEW k, k = req'[r].key, Leads(s, i)', HasKey(k, i)'
        PROVE  FALSE
    <3>1. Used(r) /\ req[r].key = k /\ req[r].sent = s
      BY <2>1 DEF SameUsed
    <3>2. k \in Request
      BY <3>1, UsedKeys DEF Used
    <3>3. i \in DOMAIN files /\ HasKey(k, i)
      BY <2>1, <3>2 DEF Less
    <3>4. s \in Id \cup {NoId}
      BY <3>1 DEF FileInv, FileTypes, RequestRecord
    <3> QED BY <2>1, <3>1, <3>3, <3>4 DEF Less, UsedUp
  <2> QED BY <2>1 DEF UsedUp
<1>3. UsedOnce'
  BY DEF UsedOnce, SameUsed
<1> QED BY <1>1, <1>2, <1>3

(* ...and of logins. *)
LEMMA LessKeepsLogins ==
  ASSUME FileInv, UseInv, Less
  PROVE  LoginPlace' /\ (SameLoggedOut => LoginGone')
<1> USE DEF UseInv
<1>1. LoginPlace'
  <2>1. ASSUME NEW l \in Request, NEW i \in DOMAIN files', NEW s \in Id,
               HasLogin(l, i)', Leads(s, i)'
        PROVE  s = <<l, 2>>
    BY <2>1 DEF Less, LoginPlace
  <2> QED BY <2>1 DEF LoginPlace
<1>2. ASSUME SameLoggedOut PROVE LoginGone'
  <2>1. ASSUME NEW r \in Request, NEW i \in DOMAIN files', LoggedOut(r)', Named(i)',
               NEW l, l = req'[r].loaded.auth, HasLogin(l, i)'
        PROVE  FALSE
    <3>1. LoggedOut(r) /\ req[r].loaded.auth = l
      BY <1>2, <2>1 DEF SameLoggedOut
    <3>2. l \in Request
      BY <3>1 DEF LoggedOut, FileInv, FileTypes, RequestRecord, Session
    <3> QED BY <2>1, <3>1, <3>2 DEF Less, LoginGone
  <2> QED BY <2>1 DEF LoginGone
<1> QED BY <1>1, <1>2

(* The steps after which nothing is new in the files. *)
LEMMA FadingIsLess ==
  ASSUME FileInv, \A q \in Request : Fades(q), Shrunk
  PROVE  Less
<1>1. files' = files
  BY DEF Shrunk
<1>2. ASSUME NEW i \in DOMAIN files, NEW q \in Request, req'[q].locked, req'[q].handle = i
      PROVE  req[q].locked /\ req[q].handle = i /\ req'[q].loaded = req[q].loaded
  BY <1>2 DEF Fades
<1>3. ASSUME NEW i \in DOMAIN files
      PROVE  /\ \A k \in Request : HasKey(k, i)' => HasKey(k, i)
             /\ \A l \in Request : HasLogin(l, i)' => HasLogin(l, i)
  BY <1>1, <1>2 DEF HasKey, HasLogin
<1>4. ASSUME NEW i \in DOMAIN files
      PROVE  Named(i)' => Named(i)
  BY DEF Shrunk, Named
<1>5. ASSUME NEW i \in DOMAIN files, NEW s \in Id \cup {NoId}, Leads(s, i)'
      PROVE  Leads(s, i)
  <2>1. CASE s \in DOMAIN names' /\ names'[s] = i
    BY <2>1 DEF Shrunk, Leads
  <2>2. CASE \E q \in Request : req'[q].sent = s /\ req'[q].handle = i /\ req'[q].pc \in Opened
    <3>1. PICK q \in Request : req'[q].sent = s /\ req'[q].handle = i /\ req'[q].pc \in Opened
      BY <2>2
    <3>2. i # NoHandle
      BY DEF FileInv, FileTypes, NoHandle
    <3>3. req[q].handle = i /\ req[q].pc \in Opened /\ req[q].sent = s
      BY <3>1, <3>2 DEF Fades, Opened
    <3> QED BY <3>3 DEF Leads
  <2> QED BY <1>5, <2>1, <2>2 DEF Leads
<1> QED BY <1>1, <1>3, <1>4, <1>5 DEF Less

(* What a request has loaded and sent does not change while it fades. *)
LEMMA FadingKeepsLoaded ==
  ASSUME FileInv, LoadedLogin, \A q \in Request : Fades(q)
  PROVE  LoadedLogin'
<1>1. \A q \in Request : req[q].pc = "idle" => req[q].loaded.auth = NoRequest
  BY BlankType DEF FileInv, Way
<1> QED BY <1>1 DEF LoadedLogin, Fades

(* A file is opened under an id that leads to it already. *)
LEMMA OpeningIsLess ==
  ASSUME FileInv, NEW r \in Request, OpenSession(r)
  PROVE  Less
<1> USE DEF FileInv
<1> DEFINE c == req[r]
           d == req'[r]
<1>1. /\ Others(r) /\ c.pc = "connect" /\ SameRequest(c, d) /\ d.locked = c.locked
      /\ d.loaded = c.loaded
      /\ \/ c.sid \in DOMAIN names /\ d.handle = names[c.sid]
         \/ d.handle = c.handle
  BY OpenRecord DEF IsAt
<1>2. files' = files /\ names' = names
  BY DEF OpenSession
<1>3. c.sid = c.sent /\ c.handle = NoHandle /\ ~c.locked
  BY <1>1 DEF Way, Lasting, Opened
<1>4. ASSUME NEW i \in DOMAIN files
      PROVE  /\ \A k \in Request : HasKey(k, i)' => HasKey(k, i)
             /\ \A l \in Request : HasLogin(l, i)' => HasLogin(l, i)
             /\ Named(i)' => Named(i)
  BY <1>1, <1>2, <1>3 DEF HasKey, HasLogin, Others, Named
<1>5. ASSUME NEW i \in DOMAIN files, NEW s \in Id \cup {NoId}, Leads(s, i)'
      PROVE  Leads(s, i)
  <2>1. CASE s \in DOMAIN names /\ names[s] = i
    BY <2>1 DEF Leads
  <2>2. CASE \E q \in Request : req'[q].sent = s /\ req'[q].handle = i /\ req'[q].pc \in Opened
    <3>1. PICK q \in Request : req'[q].sent = s /\ req'[q].handle = i /\ req'[q].pc \in Opened
      BY <2>2
    <3>2. CASE q # r
      BY <1>1, <3>1, <3>2 DEF Others, Leads
    <3>3. CASE q = r
      <4>1. i # NoHandle
        BY DEF FileTypes, NoHandle
      <4> QED BY <1>1, <1>3, <3>1, <3>3, <4>1 DEF Leads, SameRequest
    <3> QED BY <3>2, <3>3
  <2> QED BY <1>2, <1>5, <2>1, <2>2 DEF Leads
<1> QED BY <1>2, <1>4, <1>5 DEF Less

(* What Lock loads is in the file it loads it from. *)
LEMMA LockingIsLess ==
  ASSUME FileInv, NEW r \in Request, Lock(r)
  PROVE  Less
<1> USE DEF FileInv
<1> DEFINE c == req[r]
           d == req'[r]
<1>1. /\ Others(r) /\ c.pc = "lock" /\ SameRequest(c, d) /\ d.handle = c.handle
      /\ \/ d.loaded = c.loaded
         \/ files[c.handle] # Emptied /\ d.loaded = files[c.handle][1]
  BY LockRecord DEF IsAt
<1>2. files' = files /\ names' = names
  BY DEF Lock
<1>3. \A k : ~Has(c.loaded.keys, k) /\ c.loaded.auth = NoRequest
  BY <1>1, BlankType DEF Way
<1>4. ASSUME NEW i \in DOMAIN files
      PROVE  /\ \A k \in Request : HasKey(k, i)' => HasKey(k, i)
             /\ \A l \in Request : HasLogin(l, i)' => HasLogin(l, i)
  <2>1. ASSUME NEW q \in Request, req'[q].locked, req'[q].handle = i
        PROVE  \/ req[q].locked /\ req[q].handle = i /\ req'[q].loaded = req[q].loaded
               \/ req'[q].loaded = Blank
               \/ files[i] # Emptied /\ req'[q].loaded = files[i][1]
    <3>1. CASE q # r
      BY <1>1, <2>1, <3>1 DEF Others
    <3>2. CASE q = r
      BY <1>1, <2>1, <3>2 DEF Way
    <3> QED BY <3>1, <3>2
  <2>2. \A k : ~Has(Blank.keys, k)
    BY BlankType
  <2>3. \A l \in Request : Blank.auth # l
    BY BlankType, RequestAssumption
  <2>4. ASSUME NEW k \in Request, HasKey(k, i)' PROVE HasKey(k, i)
    BY <1>2, <2>1, <2>2, <2>4 DEF HasKey
  <2>5. ASSUME NEW l \in Request, HasLogin(l, i)' PROVE HasLogin(l, i)
    BY <1>2, <2>1, <2>3, <2>5 DEF HasLogin
  <2> QED BY <2>4, <2>5
<1>5. ASSUME NEW i \in DOMAIN files, NEW s \in Id \cup {NoId}, Leads(s, i)'
      PROVE  Leads(s, i)
  <2>1. \A q \in Request : /\ req'[q].sent = req[q].sent /\ req'[q].handle = req[q].handle
                           /\ req'[q].pc \in Opened => req[q].pc \in Opened
    BY <1>1 DEF Others, SameRequest, Opened
  <2> QED BY <1>2, <1>5, <2>1 DEF Leads
<1>6. \A i \in DOMAIN files : Named(i)' => Named(i)
  BY <1>2 DEF Named
<1> QED BY <1>2, <1>4, <1>5, <1>6 DEF Less

(* A new file has nothing in it, and an old one has nothing any more. *)
LEMMA EmptyingIsLess ==
  ASSUME FileInv, NEW r \in Request, OpenForStore(r)
  PROVE  Less
<1> USE DEF FileInv
<1> DEFINE c == req[r]
           d == req'[r]
           sid == c.sid
           i == FileFor(sid)
<1>1. /\ Others(r) /\ SameRequest(c, d) /\ d.pc = "write" /\ d.handle = i /\ ~d.locked
  BY OpenForStoreRecord
<1>2. sid \in Id
  BY WayOfOpenForStore
<1>3. /\ DOMAIN files' = DOMAIN files \cup {i} /\ files'[i] = Emptied
      /\ \A j \in DOMAIN files : j # i => files'[j] = files[j]
      /\ DOMAIN names' = DOMAIN names \cup {sid} /\ names'[sid] = i
      /\ \A s \in DOMAIN names : s # sid => names'[s] = names[s]
      /\ sid \notin DOMAIN names => i \notin DOMAIN files
      /\ sid \in DOMAIN names => names[sid] = i
      /\ i # NoHandle
  BY <1>2, OpenForStoreFiles DEF FileFor
<1> HIDE DEF i
<1>4. \A q \in Request : req'[q].locked => req'[q] = req[q] /\ req[q].handle \in DOMAIN files
  BY <1>1 DEF Others, Way
<1>5. ASSUME NEW j \in DOMAIN files'
      PROVE  /\ \A k \in Request : HasKey(k, j)' => j \in DOMAIN files /\ HasKey(k, j)
             /\ \A l \in Request : HasLogin(l, j)' => j \in DOMAIN files /\ HasLogin(l, j)
  <2>1. files'[j] # Emptied => j \in DOMAIN files /\ files'[j] = files[j]
    BY <1>3
  <2>2. ASSUME NEW k \in Request, HasKey(k, j)' PROVE j \in DOMAIN files /\ HasKey(k, j)
    BY <1>4, <2>1, <2>2 DEF HasKey
  <2>3. ASSUME NEW l \in Request, HasLogin(l, j)' PROVE j \in DOMAIN files /\ HasLogin(l, j)
    BY <1>4, <2>1, <2>3 DEF HasLogin
  <2> QED BY <2>2, <2>3
<1>6. ASSUME NEW j \in DOMAIN files, NEW s \in DOMAIN names', names'[s] = j
      PROVE  s \in DOMAIN names /\ names[s] = j
  BY <1>3, <1>6
<1>7. ASSUME NEW j \in DOMAIN files, NEW s \in Id \cup {NoId}, Leads(s, j)'
      PROVE  Leads(s, j)
  <2>1. \A q \in Request : req'[q].pc \in Opened => req'[q] = req[q]
    BY <1>1 DEF Others, Opened
  <2> QED BY <1>6, <1>7, <2>1 DEF Leads
<1>8. \A j \in DOMAIN files : Named(j)' => Named(j)
  BY <1>6 DEF Named
<1> QED BY <1>5, <1>7, <1>8 DEF Less

(* Only the store of a session completes the use of a key. *)
LEMMA UsedBefore ==
  ASSUME FileInv, NEW r \in Request, Others(r),
         \/ req'[r].pc \notin {"done", "answered"}
         \/ ~req'[r].accepted \/ ~req'[r].committed
         \/ /\ req[r].pc = "done" /\ SameRequest(req[r], req'[r])
            /\ req'[r].accepted = req[r].accepted /\ req'[r].committed = req[r].committed
  PROVE  SameUsed
BY DEF SameUsed, Used, Others, SameRequest

(* Only the handler of a logout ends a login. *)
LEMMA LoggedOutBefore ==
  ASSUME FileInv, NEW r \in Request, Others(r),
         \/ r \notin req'[r].session.seen
         \/ /\ SameRequest(req[r], req'[r]) /\ req'[r].session = req[r].session
            /\ req'[r].loaded = req[r].loaded
         \/ req'[r].op # "logout"
  PROVE  SameLoggedOut
BY DEF SameLoggedOut, LoggedOut, Others, SameRequest

(* A request that is sent has accepted nothing. *)
LEMMA SendUses ==
  ASSUME FileInv, UseInv, NEW r \in Request, NEW b \in Browser, NEW op \in visit.ops,
         NEW key \in Request \cup {NoRequest}, Send(r, b, op, key, "connect"),
         UNCHANGED <<files, names>>
  PROVE  UseInv'
<1> USE DEF FileInv, UseInv
<1>1. /\ Others(r) /\ req'[r].pc = "connect" /\ req'[r].session = Blank
  BY SendRecord
<1>2. SameUsed
  BY <1>1, UsedBefore
<1>3. SameLoggedOut
  <2>1. r \notin req'[r].session.seen
    BY <1>1, BlankType
  <2> QED BY <1>1, <2>1, LoggedOutBefore
<1>4. Less /\ LoadedLogin'
  BY SendKeeps, FadingIsLess, FadingKeepsLoaded
<1> QED BY <1>2, <1>3, <1>4, LessKeepsUses, LessKeepsLogins

(* A request that is answered has used up what it had. *)
LEMMA ReceiveUses ==
  ASSUME FileInv, UseInv, NEW r \in Request, Receive(r), UNCHANGED <<files, names>>
  PROVE  UseInv'
<1> USE DEF FileInv, UseInv
<1>1. /\ Others(r) /\ req[r].pc = "done" /\ SameRequest(req[r], req'[r])
      /\ req'[r].accepted = req[r].accepted /\ req'[r].committed = req[r].committed
      /\ req'[r].session = req[r].session /\ req'[r].loaded = req[r].loaded
  BY ReceiveRecord DEF IsAt
<1>2. SameUsed
  BY <1>1, UsedBefore
<1>3. SameLoggedOut
  BY <1>1, LoggedOutBefore
<1>4. Less /\ LoadedLogin'
  BY ReceiveKeeps, FadingIsLess, FadingKeepsLoaded
<1> QED BY <1>2, <1>3, <1>4, LessKeepsUses, LessKeepsLogins

(* A failed handler has not committed: the key it took is still there to be *)
(* used.                                                                    *)
LEMMA FailUses ==
  ASSUME FileInv, UseInv, NEW r \in Request, FailHandler(r)
  PROVE  UseInv'
<1> USE DEF FileInv, UseInv
<1>1. /\ Others(r) /\ req[r].pc \in {"handle", "commit"} /\ Ends(req[r], req'[r])
  BY FailRecord
<1>2. SameUsed
  <2>1. ~req'[r].committed
    BY <1>1 DEF Way, Ends, Lasting
  <2> QED BY <1>1, <2>1, UsedBefore
<1>3. SameLoggedOut
  BY <1>1, LoggedOutBefore DEF Ends
<1>4. Less /\ LoadedLogin'
  BY FailKeeps, FadingIsLess, FadingKeepsLoaded
<1> QED BY <1>2, <1>3, <1>4, LessKeepsUses, LessKeepsLogins

(* A commit alone does not complete the use of a key. *)
LEMMA CommitUses ==
  ASSUME FileInv, UseInv, NEW r \in Request, CommitFirst(r)
  PROVE  UseInv'
<1> USE DEF FileInv, UseInv
<1>1. /\ Others(r) /\ req'[r].pc = "store" /\ SameRequest(req[r], req'[r])
      /\ req'[r].session = req[r].session /\ req'[r].loaded = req[r].loaded
  BY CommitRecord
<1>2. SameUsed
  BY <1>1, UsedBefore
<1>3. SameLoggedOut
  BY <1>1, LoggedOutBefore
<1>4. Less /\ LoadedLogin'
  BY CommitKeeps, FadingIsLess, FadingKeepsLoaded
<1> QED BY <1>2, <1>3, <1>4, LessKeepsUses, LessKeepsLogins

(* A request that accepted a form has something to store. *)
LEMMA StoreNothingUses ==
  ASSUME FileInv, UseInv, NEW r \in Request, StoreNothing(r)
  PROVE  UseInv'
<1> USE DEF FileInv, UseInv
<1>1. /\ Others(r) /\ req[r].pc = "store" /\ Ends(req[r], req'[r])
  BY StoredRecord DEF StoreNothing, IsAt
<1>2. ~req[r].accepted
  <2>1. SUFFICES ASSUME req[r].accepted PROVE FALSE
    OBVIOUS
  <2>2. req[r].op = "form" /\ ~req[r].new /\ Has(req[r].session.keys, r)
    BY <1>1, <2>1 DEF Made
  <2>3. req[r].session = req[r].loaded
    BY <2>2 DEF StoreNothing, Unchanged
  <2> QED BY <2>2, <2>3 DEF Fresh, Traces
<1>3. SameUsed
  BY <1>1, <1>2, UsedBefore DEF Ends
<1>4. SameLoggedOut
  BY <1>1, LoggedOutBefore DEF Ends
<1>5. Less /\ LoadedLogin'
  BY StoreNothingKeeps, FadingIsLess, FadingKeepsLoaded
<1> QED BY <1>3, <1>4, <1>5, LessKeepsUses, LessKeepsLogins

(* After a crash nobody holds a session, and no request is done that was    *)
(* not.                                                                     *)
LEMMA CrashUses ==
  ASSUME FileInv, UseInv, FileCrash
  PROVE  UseInv'
<1> USE DEF FileInv, UseInv
<1>1. \A q \in Request :
        \/ req'[q] = req[q]
        \/ req'[q].pc = "dead" /\ Ends(req[q], req'[q])
  BY CrashRecords
<1>2. SameUsed
  BY <1>1 DEF SameUsed, Used
<1>3. SameLoggedOut
  BY <1>1 DEF SameLoggedOut, LoggedOut, Ends, SameRequest
<1>4. Less /\ LoadedLogin'
  BY CrashKeeps, FadingIsLess, FadingKeepsLoaded
<1> QED BY <1>2, <1>3, <1>4, LessKeepsUses, LessKeepsLogins

(* After a logout the only file that had this login has no name. *)
LEMMA HandleUses ==
  ASSUME FileInv, UseInv, NEW r \in Request, Handle(r)
  PROVE  UseInv'
<1> USE DEF FileInv, UseInv
<1> DEFINE c == req[r]
           d == req'[r]
<1>1. Handled(r) \in Session
  BY HandlerOfSession DEF Handle
<1>2. /\ Others(r) /\ c.pc = "handle" /\ SameRequest(c, d) /\ d.loaded = c.loaded
      /\ d.pc = "commit"
  BY <1>1, HandleRecord DEF IsAt
<1>3. SameUsed
  BY <1>2, UsedBefore
<1>4. Less /\ LoadedLogin'
  BY HandleKeeps, FadingIsLess, FadingKeepsLoaded
<1>5. LoginGone'
  <2>1. CASE c.op # "logout"
    <3>1. SameLoggedOut
      BY <1>2, <2>1, LoggedOutBefore DEF SameRequest
    <3> QED BY <1>4, <3>1, LessKeepsLogins
  <2>2. CASE c.op = "logout"
    <3>1. ASSUME NEW q \in Request, NEW i \in DOMAIN files', LoggedOut(q)', Named(i)',
                 NEW l, l = req'[q].loaded.auth, HasLogin(l, i)'
          PROVE  FALSE
      <4>1. l # NoRequest /\ req[q].loaded.auth = l /\ l \in Request
        <5>1. req'[q].loaded = req[q].loaded
          BY <1>2 DEF Others
        <5> QED BY <3>1, <5>1 DEF LoggedOut, FileTypes, RequestRecord, Session
      <4>2. i \in DOMAIN files /\ HasLogin(l, i) /\ Named(i)
        BY <1>4, <3>1, <4>1 DEF Less
      <4>3. CASE q # r
        <5>1. LoggedOut(q)
          BY <1>2, <3>1, <4>3 DEF Others, LoggedOut
        <5> QED BY <4>1, <4>2, <5>1 DEF LoginGone
      <4>4. CASE q = r
        <5>1. ~c.new /\ c.sid = c.sent
          BY <1>2, <4>1, <4>4, BlankType DEF Way
        <5>2. c.sid = <<l, 2>>
          BY <4>1, <4>4, <5>1 DEF LoadedLogin
        <5>3. names' = [sid \in DOMAIN names \ {c.sid} |-> names[sid]]
          BY <2>2 DEF Handle, Clears
        <5>4. PICK s \in DOMAIN names : s # c.sid /\ names[s] = i
          BY <3>1, <5>3 DEF Named
        <5>5. s \in Id
          BY DEF FileTypes
        <5> QED BY <4>1, <4>2, <5>2, <5>4, <5>5 DEF LoginPlace, Leads
      <4> QED BY <4>3, <4>4
    <3> QED BY <3>1 DEF LoginGone
  <2> QED BY <2>1, <2>2
<1> QED BY <1>3, <1>4, <1>5, LessKeepsUses, LessKeepsLogins

(* A request that opens a file has loaded nothing yet. *)
LEMMA OpenUses ==
  ASSUME FileInv, UseInv, NEW r \in Request, OpenSession(r)
  PROVE  UseInv'
<1> USE DEF FileInv, UseInv
<1>1. /\ Others(r) /\ req'[r].pc \in {"lock", "handle"} /\ SameRequest(req[r], req'[r])
      /\ req'[r].session = req[r].session /\ req'[r].loaded = req[r].loaded
  BY OpenRecord
<1>2. SameUsed
  BY <1>1, UsedBefore
<1>3. SameLoggedOut
  BY <1>1, LoggedOutBefore
<1>4. Less
  BY OpeningIsLess
<1>5. LoadedLogin'
  BY <1>1 DEF LoadedLogin, Others, SameRequest
<1> QED BY <1>2, <1>3, <1>4, <1>5, LessKeepsUses, LessKeepsLogins

(* What it then loads was in the file of the id it has sent. *)
LEMMA LockUses ==
  ASSUME FileInv, UseInv, NEW r \in Request, Lock(r)
  PROVE  UseInv'
<1> USE DEF FileInv, UseInv
<1> DEFINE c == req[r]
           d == req'[r]
<1>1. /\ Others(r) /\ c.pc = "lock" /\ d.pc = "handle" /\ SameRequest(c, d)
      /\ \/ d.loaded = c.loaded /\ d.session = c.session
         \/ /\ files[c.handle] # Emptied
            /\ d.loaded = files[c.handle][1] /\ d.session = files[c.handle][1]
  BY LockRecord DEF IsAt
<1>2. c.handle \in DOMAIN files /\ c.loaded = Blank /\ c.session = Blank
  BY <1>1 DEF Way
<1>3. SameUsed
  BY <1>1, UsedBefore
<1>4. SameLoggedOut
  <2>1. ~Finished(r)
    BY <1>1 DEF Finished, Lasting
  <2>2. r \notin d.session.seen
    BY <1>1, <1>2, <2>1, BlankType DEF Fresh, Traces
  <2> QED BY <1>1, <2>2, LoggedOutBefore
<1>5. Less
  BY LockingIsLess
<1>6. LoadedLogin'
  <2>1. ASSUME d.loaded.auth # NoRequest PROVE d.sent = <<d.loaded.auth, 2>>
    <3>1. files[c.handle] # Emptied /\ d.loaded = files[c.handle][1]
      BY <1>1, <1>2, <2>1, BlankType
    <3>2. d.loaded \in Session
      BY <1>2, <3>1, ContentFacts DEF FileTypes
    <3>3. HasLogin(d.loaded.auth, c.handle) /\ d.loaded.auth \in Request
      BY <2>1, <3>1, <3>2 DEF HasLogin, Session
    <3>4. Leads(c.sent, c.handle) /\ c.sent \in Id
      BY <1>1 DEF Leads, Opened, Way
    <3> QED BY <1>1, <1>2, <3>3, <3>4 DEF LoginPlace, SameRequest
  <2> QED BY <1>1, <2>1 DEF LoadedLogin, Others
<1> QED BY <1>3, <1>4, <1>5, <1>6, LessKeepsUses, LessKeepsLogins

(* A login opens a file under an id nobody has been told. *)
LEMMA OpenForStoreUses ==
  ASSUME FileInv, UseInv, NEW r \in Request, OpenForStore(r)
  PROVE  UseInv'
<1> USE DEF FileInv, UseInv
<1>1. /\ Others(r) /\ req'[r].pc = "write" /\ SameRequest(req[r], req'[r])
      /\ req'[r].session = req[r].session /\ req'[r].loaded = req[r].loaded
  BY OpenForStoreRecord
<1>2. SameUsed
  BY <1>1, UsedBefore
<1>3. SameLoggedOut
  BY <1>1, LoggedOutBefore
<1>4. Less
  BY EmptyingIsLess
<1>5. LoadedLogin'
  BY <1>1 DEF LoadedLogin, Others, SameRequest
<1> QED BY <1>2, <1>3, <1>4, <1>5, LessKeepsUses, LessKeepsLogins

(* What a write makes of the places of keys and logins. *)
LEMMA WritingPlaces ==
  ASSUME FileInv, NEW r \in Request, req[r].pc \in {"store", "write"},
         req[r].handle # NoHandle, Change(r, StoredIn(r)),
         files' = [files EXCEPT ![req[r].handle] = <<req[r].session>>],
         names' = names,
         \A q \in Request : req[q].locked /\ req[q].handle = req[r].handle => q = r
  PROVE  /\ DOMAIN files' = DOMAIN files /\ req[r].handle \in DOMAIN files
         /\ \A j \in DOMAIN files, k \in Request :
              HasKey(k, j)' => IF j = req[r].handle THEN Has(req[r].session.keys, k)
                               ELSE HasKey(k, j)
         /\ \A j \in DOMAIN files, l \in Request :
              HasLogin(l, j)' => IF j = req[r].handle THEN req[r].session.auth = l
                                 ELSE HasLogin(l, j)
         /\ \A j \in DOMAIN files : \A s : Leads(s, j)' => Leads(s, j)
         /\ \A j \in DOMAIN files : Named(j)' => Named(j)
<1> USE DEF FileInv
<1> DEFINE c == req[r]
           i == c.handle
<1>1. Others(r) /\ req'[r].pc = "done" /\ ~req'[r].locked
  BY StoredRecord DEF Ends
<1>2. i \in DOMAIN files /\ c.session \in Session
  BY DEF Way, FileTypes, RequestRecord
<1>3. /\ DOMAIN files' = DOMAIN files /\ files'[i] # Emptied /\ files'[i][1] = c.session
      /\ \A j \in DOMAIN files : j # i => files'[j] = files[j]
  BY <1>2, WrittenFiles
<1>4. \A q \in Request : req'[q].locked => req'[q] = req[q] /\ req[q].handle # i
  BY <1>1 DEF Others
<1>5. ASSUME NEW j \in DOMAIN files, NEW k \in Request, HasKey(k, j)'
      PROVE  IF j = i THEN Has(c.session.keys, k) ELSE HasKey(k, j)
  BY <1>3, <1>4, <1>5 DEF HasKey
<1>6. ASSUME NEW j \in DOMAIN files, NEW l \in Request, HasLogin(l, j)'
      PROVE  IF j = i THEN c.session.auth = l ELSE HasLogin(l, j)
  BY <1>3, <1>4, <1>6 DEF HasLogin
<1>7. \A q \in Request : req'[q].pc \in Opened => req'[q] = req[q]
  BY <1>1 DEF Others, Opened
<1>8. ASSUME NEW j \in DOMAIN files, NEW s, Leads(s, j)'
      PROVE  Leads(s, j)
  BY <1>7, <1>8 DEF Leads
<1>9. \A j \in DOMAIN files : Named(j)' => Named(j)
  BY DEF Named
<1> QED BY <1>2, <1>3, <1>5, <1>6, <1>8, <1>9

(* No key or login of a request that is still running is anywhere. *)
LEMMA NothingOfRunning ==
  ASSUME FileInv, NEW r \in Request, ~Finished(r)
  PROVE  \A j \in DOMAIN files : ~HasKey(r, j) /\ ~HasLogin(r, j)
BY DEF FileInv, Fresh, Traces, HasKey, HasLogin

(* The session stored has no key that its request accepted, and replaces    *)
(* the only file that had it.                                               *)
LEMMA OverwriteUses ==
  ASSUME FileInv, UseInv, NEW r \in Request, Overwrite(r)
  PROVE  UseInv'
<1> USE DEF FileInv, UseInv
<1> DEFINE c == req[r]
           d == req'[r]
           i == c.handle
<1>1. /\ c.pc = "store" /\ c.locked /\ ~c.new /\ i # NoHandle /\ i \in DOMAIN files
      /\ \A q \in Request : req[q].locked /\ req[q].handle = i => q = r
  BY OverwriteFacts
<1>2. /\ DOMAIN files' = DOMAIN files
      /\ \A j \in DOMAIN files, k \in Request :
           HasKey(k, j)' => IF j = i THEN Has(c.session.keys, k) ELSE HasKey(k, j)
      /\ \A j \in DOMAIN files, l \in Request :
           HasLogin(l, j)' => IF j = i THEN c.session.auth = l ELSE HasLogin(l, j)
      /\ \A j \in DOMAIN files : \A s : Leads(s, j)' => Leads(s, j)
      /\ \A j \in DOMAIN files : Named(j)' => Named(j)
  BY <1>1, OverwriteFacts, WritingPlaces
<1>3. Others(r) /\ d.pc = "done" /\ Ends(c, d)
  BY OverwriteFacts, StoredRecord
<1>4. Leads(c.sent, i) /\ c.sent \in Id /\ ~Finished(r)
  BY <1>1 DEF Leads, Opened, Way, Finished, Lasting
<1>5. \A k \in Request : Has(c.loaded.keys, k) => HasKey(k, i)
  BY <1>1 DEF HasKey
<1>6. \A j \in DOMAIN files, k \in Request : k # r /\ HasKey(k, j)' => HasKey(k, j)
  BY <1>1, <1>2, <1>5 DEF Made
<1>7. \A j \in DOMAIN files : HasKey(r, j)' => j = i
  BY <1>2, <1>4, NothingOfRunning
<1>8. OnePlace'
  <2>1. ASSUME NEW s \in Id, NEW a \in DOMAIN files, NEW b \in DOMAIN files, NEW k \in Request,
               Leads(s, a)', Leads(s, b)', HasKey(k, a)', HasKey(k, b)'
        PROVE  a = b
    <3>1. CASE k = r
      BY <1>7, <2>1, <3>1
    <3>2. CASE k # r
      BY <1>2, <1>6, <2>1, <3>2 DEF OnePlace
    <3> QED BY <3>1, <3>2
  <2> QED BY <1>2, <2>1 DEF OnePlace
<1>9. ASSUME NEW q \in Request, Used(q)'
      PROVE  /\ req'[q].key = req[q].key /\ req'[q].sent = req[q].sent /\ req[q].accepted
             /\ req[q].key \in Request /\ req[q].key # r
             /\ q # r => Used(q)
  <2>1. req'[q].key = req[q].key /\ req'[q].sent = req[q].sent /\ req[q].accepted
        /\ (q # r => Used(q))
    BY <1>3, <1>9 DEF Used, Others, Ends, SameRequest
  <2> QED BY <1>4, <2>1, UsedKeys
<1>10. ASSUME c.accepted
       PROVE  /\ ~Has(c.session.keys, c.key) /\ HasKey(c.key, i) /\ c.key \in Request
  <2>1. Has(c.loaded.keys, c.key) /\ c.key \in Request
    BY <1>10, UsedKeys DEF Way
  <2> QED BY <1>1, <1>5, <1>10, <2>1 DEF Made
<1>11. UsedUp'
  <2>1. ASSUME NEW q \in Request, NEW j \in DOMAIN files, Used(q)', NEW s, s = req'[q].sent,
               NEW k, k = req'[q].key, Leads(s, j)', HasKey(k, j)'
        PROVE  FALSE
    <3>1. k = req[q].key /\ s = req[q].sent /\ k \in Request /\ k # r /\ HasKey(k, j) /\ Leads(s, j)
      BY <1>2, <1>6, <1>9, <2>1
    <3>2. CASE q # r
      BY <1>9, <2>1, <3>1, <3>2 DEF UsedUp
    <3>3. CASE q = r
      <4>1. j = i
        BY <1>1, <1>4, <1>9, <1>10, <2>1, <3>1, <3>3 DEF OnePlace
      <4> QED BY <1>2, <1>9, <1>10, <2>1, <3>1, <3>3, <4>1
    <3> QED BY <3>2, <3>3
  <2> QED BY <1>2, <2>1 DEF UsedUp
<1>12. UsedOnce'
  <2>1. ASSUME NEW p \in Request, NEW q \in Request, Used(p)', Used(q)', p # r,
               req'[p].key = req'[q].key, req'[p].sent = req'[q].sent
        PROVE  p = q
    <3>1. Used(p) /\ req[p].key = req[q].key /\ req[p].sent = req[q].sent
      BY <1>9, <2>1
    <3>2. CASE q # r
      BY <1>9, <2>1, <3>1, <3>2 DEF UsedOnce
    <3>3. CASE q = r
      BY <1>1, <1>4, <1>9, <1>10, <2>1, <3>1, <3>3 DEF UsedUp
    <3> QED BY <3>2, <3>3
  <2> QED BY <2>1 DEF UsedOnce
<1>13. \A j \in DOMAIN files, l \in Request : HasLogin(l, j)' => HasLogin(l, j)
  <2>1. c.session.auth \in {c.loaded.auth, NoRequest}
    BY <1>1 DEF Made
  <2>2. HasLogin(c.loaded.auth, i)
    BY <1>1 DEF HasLogin
  <2> QED BY <1>2, <2>1, <2>2, RequestAssumption
<1>14. LoginPlace'
  BY <1>2, <1>13 DEF LoginPlace
<1>15. LoadedLogin'
  BY <1>3 DEF LoadedLogin, Others, Ends, SameRequest
<1>16. LoginGone'
  <2>1. SameLoggedOut
    BY <1>3, LoggedOutBefore DEF Ends
  <2>2. ASSUME NEW q \in Request, NEW j \in DOMAIN files, LoggedOut(q)', Named(j)',
               NEW l, l = req'[q].loaded.auth, HasLogin(l, j)'
        PROVE  FALSE
    <3>1. LoggedOut(q) /\ req[q].loaded.auth = l
      BY <2>1, <2>2 DEF SameLoggedOut
    <3>2. l \in Request
      BY <3>1 DEF LoggedOut, FileTypes, RequestRecord, Session
    <3> QED BY <1>2, <1>13, <2>2, <3>1, <3>2 DEF LoginGone
  <2> QED BY <1>2, <2>2 DEF LoginGone
<1> QED BY <1>8, <1>11, <1>12, <1>14, <1>15, <1>16

(* The file that a request with a new id writes is its own. *)
LEMMA WriteNewUses ==
  ASSUME FileInv, UseInv, NEW r \in Request, WriteNew(r)
  PROVE  UseInv'
<1> USE DEF FileInv, UseInv
<1> DEFINE c == req[r]
           d == req'[r]
           i == c.handle
<1>1. /\ c.pc = "write" /\ i # NoHandle /\ i \in DOMAIN files
      /\ \A q \in Request : req[q].locked => req[q].handle # i
  BY WriteNewFacts
<1>2. /\ DOMAIN files' = DOMAIN files
      /\ \A j \in DOMAIN files, k \in Request :
           HasKey(k, j)' => IF j = i THEN Has(c.session.keys, k) ELSE HasKey(k, j)
      /\ \A j \in DOMAIN files, l \in Request :
           HasLogin(l, j)' => IF j = i THEN c.session.auth = l ELSE HasLogin(l, j)
      /\ \A j \in DOMAIN files : \A s : Leads(s, j)' => Leads(s, j)
      /\ \A j \in DOMAIN files : Named(j)' => Named(j)
  BY <1>1, WriteNewFacts, WritingPlaces
<1>3. Others(r) /\ d.pc = "done" /\ Ends(c, d)
  BY WriteNewFacts, StoredRecord
<1>4. ~Finished(r)
  BY <1>1 DEF Finished, Lasting
<1>5. ASSUME NEW s, Leads(s, i), c.new
      PROVE  s = c.sid /\ s[1] = r /\ \A j \in DOMAIN files : Leads(s, j) => j = i
  <2>1. /\ c.sid \in DOMAIN names /\ names[c.sid] = i
        /\ \A q \in Request : req[q].handle = i => q = r
    BY <1>1, <1>5 DEF HandleOK, IsAt
  <2>2. c.pc \notin Opened
    BY <1>1 DEF Opened
  <2>3. s = c.sid
    BY <1>5, <2>1, <2>2 DEF Leads, NamesOK
  <2>4. s[1] = r /\ s \in Id
    BY <1>5, <2>1, <2>3 DEF Way, FileTypes
  <2>5. \A q \in Request : req[q].sent # s
    BY <1>1, <2>4 DEF KnownOK, IsAt
  <2> QED BY <2>1, <2>3, <2>4, <2>5 DEF Leads
<1>6. ~c.new => (\A k : ~Has(c.session.keys, k)) /\ c.session.auth = NoRequest
  <2>1. ~c.new => Cleared(c.session, r)
    BY <1>1 DEF Made, Way
  <2> QED BY <2>1, ClearedType
<1>7. OnePlace'
  <2>1. ASSUME NEW s \in Id, NEW a \in DOMAIN files, NEW b \in DOMAIN files, NEW k \in Request,
               Leads(s, a), Leads(s, b), HasKey(k, a)', HasKey(k, b)'
        PROVE  a = b
    <3>1. CASE a # i /\ b # i
      BY <1>2, <2>1, <3>1 DEF OnePlace
    <3>2. CASE a = i \/ b = i
      <4>1. c.new
        BY <1>2, <1>6, <2>1, <3>2
      <4> QED BY <1>5, <2>1, <3>2, <4>1
    <3> QED BY <3>1, <3>2
  <2> QED BY <1>2, <2>1 DEF OnePlace
<1>8. SameUsed
  <2>1. ~d.accepted
    BY <1>1, <1>3 DEF Made, Ends
  <2> QED BY <1>3, <2>1, UsedBefore
<1>9. UsedUp'
  <2>1. ASSUME NEW q \in Request, NEW j \in DOMAIN files, Used(q)', NEW s, s = req'[q].sent,
               NEW k, k = req'[q].key, Leads(s, j)', HasKey(k, j)'
        PROVE  FALSE
    <3>1. Used(q) /\ k = req[q].key /\ s = req[q].sent /\ k \in Request /\ Leads(s, j)
      BY <1>2, <1>8, <2>1, UsedKeys DEF SameUsed, Used
    <3>2. CASE j # i
      BY <1>2, <2>1, <3>1, <3>2 DEF UsedUp
    <3>3. CASE j = i
      <4>1. c.new
        BY <1>2, <1>6, <2>1, <3>1, <3>3
      <4>2. s = c.sid /\ s[1] = r
        BY <1>5, <3>1, <3>3, <4>1
      <4>3. s \in Id
        BY <4>1, <4>2 DEF Way, Id
      <4> QED BY <1>1, <3>1, <4>2, <4>3 DEF KnownOK, IsAt
    <3> QED BY <3>2, <3>3
  <2> QED BY <1>2, <2>1 DEF UsedUp
<1>10. UsedOnce'
  BY <1>8 DEF UsedOnce, SameUsed
<1>11. \A l \in Request : c.session.auth = l => l = r /\ c.new /\ c.sid = <<r, 2>>
  BY <1>1, <1>6, RequestAssumption DEF Made
<1>12. LoginPlace'
  <2>1. ASSUME NEW l \in Request, NEW j \in DOMAIN files, NEW s \in Id, HasLogin(l, j)', Leads(s, j)
        PROVE  s = <<l, 2>>
    <3>1. CASE j # i
      BY <1>2, <2>1, <3>1 DEF LoginPlace
    <3>2. CASE j = i
      BY <1>2, <1>5, <1>11, <2>1, <3>2
    <3> QED BY <3>1, <3>2
  <2> QED BY <1>2, <2>1 DEF LoginPlace
<1>13. LoadedLogin'
  BY <1>3 DEF LoadedLogin, Others, Ends, SameRequest
<1>14. LoginGone'
  <2>1. SameLoggedOut
    BY <1>3, LoggedOutBefore DEF Ends
  <2>2. ASSUME NEW q \in Request, NEW j \in DOMAIN files, LoggedOut(q)', Named(j)',
               NEW l, l = req'[q].loaded.auth, HasLogin(l, j)'
        PROVE  FALSE
    <3>1. LoggedOut(q) /\ req[q].loaded.auth = l
      BY <2>1, <2>2 DEF SameLoggedOut
    <3>2. l \in Request
      BY <3>1 DEF LoggedOut, FileTypes, RequestRecord, Session
    <3>3. CASE j # i
      BY <1>2, <2>2, <3>1, <3>2, <3>3 DEF LoginGone
    <3>4. CASE j = i
      <4>1. l = r
        BY <1>2, <1>11, <2>2, <3>2, <3>4
      <4> QED BY <1>4, <3>1, <4>1 DEF Fresh, Traces
    <3> QED BY <3>3, <3>4
  <2> QED BY <1>2, <2>2 DEF LoginGone
<1> QED BY <1>7, <1>9, <1>10, <1>12, <1>13, <1>14

(* At the start there are no files and no uses. *)
LEMMA UseInvInit == FileInit => UseInv
<1> SUFFICES ASSUME FileInit PROVE UseInv
  OBVIOUS
<1>1. FileInv
  BY FileInitInv
<1>2. \A q \in Request : req[q].loaded = Blank /\ ~req[q].accepted /\ req[q].op = "look"
  BY DEF FileInit, SessionInit, NotSent
<1>3. DOMAIN files = {}
  BY DEF FileInit
<1>4. OnePlace /\ UsedUp /\ UsedOnce /\ LoginPlace /\ LoginGone
  BY <1>2, <1>3 DEF OnePlace, UsedUp, UsedOnce, LoginPlace, LoginGone, Used
<1>5. LoadedLogin
  BY <1>2, BlankType DEF LoadedLogin
<1> QED BY <1>4, <1>5 DEF UseInv

(* Every step keeps what is said of keys and logins. *)
LEMMA UseInvKept == FileInv /\ UseInv /\ [FileNext]_fileVars => UseInv'
<1> SUFFICES ASSUME FileInv, UseInv, [FileNext]_fileVars PROVE UseInv'
  OBVIOUS
<1>1. CASE UNCHANGED fileVars
  BY <1>1 DEF fileVars, sessionVars, UseInv, OnePlace, UsedUp, UsedOnce, LoginPlace,
     LoadedLogin, LoginGone, HasKey, HasLogin, Leads, Used, LoggedOut, Named
<1>2. CASE FileCrash
  BY <1>2, CrashUses
<1>3. ASSUME NEW r \in Request,
             \/ /\ \E b \in Browser, op \in visit.ops, key \in Request \cup {NoRequest} :
                     Send(r, b, op, key, "connect")
                /\ UNCHANGED <<files, names>>
             \/ FileStep(r) \/ FailHandler(r)
             \/ Receive(r) /\ UNCHANGED <<files, names>>
      PROVE  UseInv'
  <2>1. ASSUME NEW b \in Browser, NEW op \in visit.ops, NEW key \in Request \cup {NoRequest},
               Send(r, b, op, key, "connect"), UNCHANGED <<files, names>>
        PROVE  UseInv'
    BY <2>1, SendUses
  <2>2. CASE OpenSession(r)
    BY <2>2, OpenUses
  <2>3. CASE Lock(r)
    BY <2>3, LockUses
  <2>4. CASE Handle(r)
    BY <2>4, HandleUses
  <2>5. CASE CommitFirst(r)
    BY <2>5, CommitUses
  <2>6. CASE StoreNothing(r)
    BY <2>6, StoreNothingUses
  <2>7. CASE Overwrite(r)
    BY <2>7, OverwriteUses
  <2>8. CASE OpenForStore(r)
    BY <2>8, OpenForStoreUses
  <2>9. CASE WriteNew(r)
    BY <2>9, WriteNewUses
  <2>10. CASE FailHandler(r)
    BY <2>10, FailUses
  <2>11. CASE Receive(r) /\ UNCHANGED <<files, names>>
    BY <2>11, ReceiveUses
  <2> QED BY <1>3, <2>1, <2>2, <2>3, <2>4, <2>5, <2>6, <2>7, <2>8, <2>9, <2>10, <2>11 DEF FileStep
<1> QED BY <1>1, <1>2, <1>3 DEF FileNext

(* Every session file is as its lock says, in every behaviour: it has one   *)
(* name at most, one request at a time has it locked and has loaded what is *)
(* in it, keys are used up in it once, and logins end in it.                *)
THEOREM FilesAreKept == FileSpec => [](FileInv /\ UseInv)
<1>1. FileInit => FileInv /\ UseInv
  BY FileInitInv, UseInvInit
<1>2. FileInv /\ UseInv /\ [FileNext]_fileVars => (FileInv /\ UseInv)'
  BY FileInvKept, UseInvKept
<1> QED BY <1>1, <1>2, PTL DEF FileSpec

(* A form that a session in a file has shown is accepted once in this       *)
(* session, unless the server dies between the commit and the store: whoever *)
(* has accepted it and still has to store its session holds the only file    *)
(* that has the key, and once that is stored no file of this id has it.      *)
THEOREM FilesAcceptOnce == FileSpec => []AcceptedOnce
<1>1. FileInv /\ UseInv => AcceptedOnce
  <2> SUFFICES ASSUME FileInv, UseInv PROVE AcceptedOnce
    OBVIOUS
  <2> USE DEF FileInv, UseInv
  <2>1. ASSUME NEW r \in Request, req[r].accepted, req[r].committed, ~IsAt(r, "dead")
        PROVE  \/ Used(r)
               \/ /\ req[r].locked /\ req[r].handle \in DOMAIN files
                  /\ Leads(req[r].sent, req[r].handle) /\ req[r].sent \in Id
                  /\ req[r].key \in Request /\ HasKey(req[r].key, req[r].handle)
    <3>1. req[r].pc \in {"store", "done", "answered"}
      BY <2>1 DEF Way, Made, Lasting, IsAt
    <3>2. CASE req[r].pc = "store"
      <4>1. ~req[r].new /\ req[r].op = "form"
        BY <2>1, <3>2 DEF Made
      <4>2. req[r].handle # NoHandle
        BY <3>2, <4>1 DEF Made
      <4>3. req[r].locked /\ req[r].handle \in DOMAIN files /\ req[r].sent \in Id
        BY <3>2, <4>2 DEF Way, Opened
      <4>4. Leads(req[r].sent, req[r].handle)
        BY <3>2 DEF Leads, Opened
      <4>5. req[r].key \in Request /\ Has(req[r].loaded.keys, req[r].key)
        BY <2>1, UsedKeys DEF Way
      <4> QED BY <4>3, <4>4, <4>5 DEF HasKey
    <3> QED BY <2>1, <3>1, <3>2 DEF Used
  <2>2. ASSUME \A r \in Request : ~IsAt(r, "dead"), NEW r \in Request, NEW s \in Request,
               req[r].accepted, req[r].committed, req[s].accepted, req[s].committed,
               req[r].key = req[s].key, req[r].sent = req[s].sent
        PROVE  r = s
    <3>1. CASE Used(r) /\ Used(s)
      BY <2>2, <3>1 DEF UsedOnce
    <3>2. CASE Used(r) /\ ~Used(s)
      BY <2>1, <2>2, <3>2 DEF UsedUp
    <3>3. CASE ~Used(r) /\ Used(s)
      BY <2>1, <2>2, <3>3 DEF UsedUp
    <3>4. CASE ~Used(r) /\ ~Used(s)
      <4>1. req[r].handle = req[s].handle
        BY <2>1, <2>2, <3>4 DEF OnePlace
      <4> QED BY <2>1, <2>2, <3>4, <4>1 DEF Mutex
    <3> QED BY <3>1, <3>2, <3>3, <3>4
  <2> QED BY <2>2 DEF AcceptedOnce
<1> QED BY <1>1, FilesAreKept, PTL

(* Once a request has logged out, no file that has a name has the login it  *)
(* found, whoever was waiting for the lock of the file.                     *)
THEOREM FilesForgetLogins == FileSpec => []LogoutIsFinal
<1>1. FileInv /\ UseInv => LogoutIsFinal
  BY DEF UseInv, LoginGone, LogoutIsFinal, LoggedOut, HasLogin
<1> QED BY <1>1, FilesAreKept, PTL

(* What requests may do stays what they do. *)
AsAllowed == \A r \in Request : req[r].pc # "idle" => req[r].op \in visit.ops

(* No step changes what a request does. *)
LEMMA AllowedKept == FileInv /\ AsAllowed /\ [FileNext]_fileVars => AsAllowed'
<1> SUFFICES ASSUME FileInv, AsAllowed, [FileNext]_fileVars PROVE AsAllowed'
  OBVIOUS
<1> USE DEF FileInv
<1>1. CASE UNCHANGED fileVars
  BY <1>1 DEF fileVars, sessionVars, AsAllowed
<1>2. CASE FileCrash
  <2>1. visit'.ops = visit.ops /\ \A q \in Request :
          \/ req'[q] = req[q]
          \/ InProgress(q) /\ req'[q].op = req[q].op
    BY <1>2, CrashRecords DEF Ends, SameRequest
  <2> QED BY <2>1 DEF AsAllowed, InProgress
<1>3. ASSUME NEW r \in Request, NEW b \in Browser, NEW op \in visit.ops,
             NEW key \in Request \cup {NoRequest}, Send(r, b, op, key, "connect")
      PROVE  AsAllowed'
  <2>1. Others(r) /\ req'[r].op = op
    BY <1>3, SendRecord
  <2>2. visit' = visit
    BY <1>3 DEF Send
  <2> QED BY <2>1, <2>2 DEF AsAllowed, Others
<1>4. ASSUME NEW r \in Request, Others(r), SameRequest(req[r], req'[r]), req[r].pc # "idle",
             visit' = visit
      PROVE  AsAllowed'
  BY <1>4 DEF AsAllowed, Others, SameRequest
<1>5. ASSUME NEW r \in Request, FileStep(r) \/ FailHandler(r) \/ Receive(r)
      PROVE  AsAllowed'
  <2>1. CASE OpenSession(r)
    <3>1. Others(r) /\ SameRequest(req[r], req'[r]) /\ req[r].pc # "idle" /\ visit' = visit
      BY <2>1, OpenRecord DEF OpenSession, IsAt
    <3> QED BY <3>1, <1>4
  <2>2. CASE Lock(r)
    <3>1. Others(r) /\ SameRequest(req[r], req'[r]) /\ req[r].pc # "idle" /\ visit' = visit
      BY <2>2, LockRecord DEF Lock, IsAt
    <3> QED BY <3>1, <1>4
  <2>3. CASE Handle(r)
    <3>1. Handled(r) \in Session
      BY <2>3, HandlerOfSession DEF Handle
    <3>2. Others(r) /\ SameRequest(req[r], req'[r]) /\ req[r].pc # "idle" /\ visit' = visit
      BY <2>3, <3>1, HandleRecord DEF Handle, IsAt
    <3> QED BY <3>2, <1>4
  <2>4. CASE CommitFirst(r)
    <3>1. Others(r) /\ SameRequest(req[r], req'[r]) /\ req[r].pc # "idle" /\ visit' = visit
      BY <2>4, CommitRecord DEF CommitFirst, IsAt
    <3> QED BY <3>1, <1>4
  <2>5. CASE StoreNothing(r) \/ Overwrite(r) \/ WriteNew(r)
    <3>1. Others(r) /\ SameRequest(req[r], req'[r])
      BY <2>5, StoredRecord DEF StoreNothing, Overwrite, WriteNew, Ends
    <3>2. req[r].pc # "idle" /\ visit' = visit
      BY <2>5 DEF StoreNothing, Overwrite, WriteNew, IsAt
    <3> QED BY <3>1, <3>2, <1>4
  <2>6. CASE OpenForStore(r)
    <3>1. Others(r) /\ SameRequest(req[r], req'[r]) /\ req[r].pc # "idle" /\ visit' = visit
      BY <2>6, OpenForStoreRecord DEF OpenForStore, IsAt
    <3> QED BY <3>1, <1>4
  <2>7. CASE FailHandler(r)
    <3>1. Others(r) /\ SameRequest(req[r], req'[r]) /\ req[r].pc # "idle" /\ visit' = visit
      BY <2>7, FailRecord DEF FailHandler, Ends
    <3> QED BY <3>1, <1>4
  <2>8. CASE Receive(r)
    <3>1. Others(r) /\ SameRequest(req[r], req'[r]) /\ req[r].pc # "idle" /\ visit' = visit
      BY <2>8, ReceiveRecord DEF Receive, IsAt
    <3> QED BY <3>1, <1>4
  <2> QED BY <1>5, <2>1, <2>2, <2>3, <2>4, <2>5, <2>6, <2>7, <2>8 DEF FileStep
<1> QED BY <1>1, <1>2, <1>3, <1>5 DEF FileNext

(* What requests leave in a session is kept by the others that store it: a  *)
(* session that is stored over another is made from it, since the lock was  *)
(* kept, or comes from restart.                                             *)
THEOREM FilesOnlyGrow == FileSpec => SessionsOnlyGrow
<1> DEFINE Grow == \A i \in DOMAIN files :
             files[i] # Emptied /\ files'[i] # Emptied /\ "restart" \notin visit.ops
               => files[i][1].seen \subseteq files'[i][1].seen
<1>1. FileInit => AsAllowed
  BY DEF FileInit, SessionInit, NotSent, AsAllowed
<1>2. FileInv /\ AsAllowed /\ [FileNext]_fileVars => [Grow]_fileVars
  <2> SUFFICES ASSUME FileInv, AsAllowed, FileNext, NEW i \in DOMAIN files,
                      files[i] # Emptied, files'[i] # Emptied, "restart" \notin visit.ops
               PROVE  files[i][1].seen \subseteq files'[i][1].seen
    OBVIOUS
  <2> USE DEF FileInv
  <2>1. CASE files'[i] = files[i]
    BY <2>1
  <2>2. ASSUME NEW r \in Request, OpenForStore(r)
        PROVE  files'[i] = files[i]
    <3>1. req[r].sid \in Id
      BY <2>2, WayOfOpenForStore
    <3> QED BY <2>2, <3>1, OpenForStoreFiles
  <2>3. ASSUME NEW r \in Request, Overwrite(r) \/ WriteNew(r), files'[i] # files[i]
        PROVE  files[i][1].seen \subseteq files'[i][1].seen
    <3> DEFINE c == req[r]
    <3>1. c.handle \in DOMAIN files /\ files' = [files EXCEPT ![c.handle] = <<c.session>>]
          /\ c.pc \in {"store", "write"}
      BY <2>3, OverwriteFacts, WriteNewFacts
    <3>2. c.session \in Session /\ c.op # "restart"
      BY <3>1 DEF FileTypes, RequestRecord, AsAllowed
    <3>3. c.handle = i /\ files'[i][1] = c.session
      BY <2>3, <3>1, <3>2, WrittenFiles
    <3>4. CASE Overwrite(r)
      <4>1. c.locked /\ ~c.new /\ c.pc = "store"
        BY <3>4, OverwriteFacts
      <4>2. files[i] = <<c.loaded>>
        BY <3>3, <4>1 DEF LoadedOK
      <4>3. c.op \notin {"logout", "restart"}
        BY <3>2, <4>1 DEF Made
      <4> QED BY <3>1, <3>3, <4>2, <4>3 DEF Made
    <3>5. CASE WriteNew(r)
      <4>1. c.pc = "write"
        BY <3>5, WriteNewFacts
      <4>2. CASE c.new
        BY <3>3, <4>1, <4>2 DEF HandleOK, IsAt
      <4>3. CASE ~c.new
        BY <3>2, <4>1, <4>3 DEF Made, Way
      <4> QED BY <4>2, <4>3
    <3> QED BY <2>3, <3>4, <3>5
  <2>4. \/ files' = files
        \/ \E r \in Request : OpenForStore(r) \/ Overwrite(r) \/ WriteNew(r)
    BY DEF FileNext, FileStep, OpenSession, Lock, Handle, CommitFirst, StoreNothing,
       FailHandler, FileCrash
  <2> QED BY <2>1, <2>2, <2>3, <2>4
<1>3. FileSpec => []AsAllowed
  BY <1>1, AllowedKept, FilesAreKept, PTL DEF FileSpec
<1> QED BY <1>2, <1>3, FilesAreKept, PTL DEF FileSpec, SessionsOnlyGrow
=============================================================================
