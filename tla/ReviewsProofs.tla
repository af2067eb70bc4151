---------------------------- MODULE ReviewsProofs ----------------------------
(* Theorems about Reviews, for every set of users, products, texts and      *)
(* workers and every bound on the requests.                                 *)
EXTENDS Reviews, TLAPS

(* The arguments of a handler are those of its operation. *)
CallsMatch ==
  \A w \in Worker :
    /\ pc[w] \in {"lookup", "write"} => req[w] \in AddCall
    /\ pc[w] = "select" => req[w] \in ListCall
    /\ pc[w] # "idle" => req[w] \in AddCall \cup ListCall

Typed == TypeOK /\ CallsMatch

(* A review as add_review changes it, and as it inserts it. *)
Changed(r, call) == [r EXCEPT !.product = call.product, !.content = call.content]
Added(t, call) == [id |-> t.nextReview, user |-> call.user,
                   product |-> call.product, content |-> call.content]

-----------------------------------------------------------------------------
(* What the statements of the handlers do to tables of the right type. *)
LEMMA SeenType ==
  ASSUME TypeOK, NEW w \in Worker
  PROVE  Seen(w) \in Tables
BY DEF TypeOK, Seen

(* Changing a review keeps the type of the tables. *)
LEMMA UpdateReviewType ==
  ASSUME NEW t \in Tables, NEW call \in AddCall
  PROVE  UpdateReview(t, call) \in Tables
<1>1. \A r \in t.review : Changed(r, call) \in ReviewRow
  BY DEF Changed, Tables, ReviewRow, AddCall
<1>2. {IF r.id = call.row THEN Changed(r, call) ELSE r : r \in t.review}
        \in SUBSET ReviewRow
  BY <1>1 DEF Tables
<1> QED
  BY <1>2 DEF UpdateReview, Tables, Changed

(* Inserting a review keeps the type of the tables. *)
LEMMA InsertReviewType ==
  ASSUME NEW t \in Tables, NEW call \in AddCall
  PROVE  InsertReview(t, call) \in Tables
<1>1. Added(t, call) \in ReviewRow
  BY DEF Added, Tables, ReviewRow, AddCall
<1>2. t.nextReview + 1 \in RowId
  BY DEF Tables, RowId, NoRow
<1> QED
  BY <1>1, <1>2 DEF InsertReview, Tables, Added

(* The steps of the server, one lemma for those that leave req and reply to *)
(* the handlers.                                                            *)
LEMMA WriteType ==
  ASSUME TypeOK, NEW w \in Worker, NEW t \in Tables, NEW label \in Labels,
         Write(w, t, label)
  PROVE  /\ db' \in Tables /\ work' \in Tables
         /\ writer' \in Worker \cup {NoWorker}
         /\ pc' \in [Worker -> Labels] /\ status' \in [Worker -> Status]
         /\ accepted' \in Nat
BY DEF TypeOK, Write, Goto

(* A handler that fails leaves everything but the calls well typed. *)
LEMMA FailType ==
  ASSUME TypeOK, NEW w \in Worker, Fail(w)
  PROVE  /\ db' \in Tables /\ work' \in Tables
         /\ writer' \in Worker \cup {NoWorker}
         /\ pc' \in [Worker -> Labels] /\ status' \in [Worker -> Status]
         /\ accepted' \in Nat
BY DEF TypeOK, Fail, Rollback, Labels, Status

(* Every variable keeps its type, and a worker at a step of a handler has   *)
(* the arguments of that handler.                                           *)
THEOREM Typing == Spec => []Typed
<1> USE DEF Typed
<1>1. Init => Typed
  <2> SUFFICES ASSUME Init PROVE Typed
    OBVIOUS
  <2>1. [review |-> {}, nextReview |-> 1, star |-> {}] \in Tables
    BY DEF Tables, RowId, NoRow
  <2>2. TypeOK
    BY <2>1 DEF Init, ServerInit, TypeOK, Labels, Status, Call, NoCall, Reply,
       NoReply
  <2>3. CallsMatch
    BY DEF Init, ServerInit, CallsMatch
  <2> QED
    BY <2>2, <2>3
<1>2. Typed /\ [Next]_vars => Typed'
  <2> SUFFICES ASSUME Typed, [Next]_vars PROVE Typed'
    OBVIOUS
  <2>1. ASSUME NEW w \in Worker, NEW u \in User, Click(w, u) PROVE Typed'
    <3>1. ASSUME NEW label \in {"lookup", "select"}, NEW call \in Call,
                 Submit(w, u, label, call),
                 label = "lookup" => call \in AddCall,
                 label = "select" => call \in ListCall
          PROVE  Typed'
      <4>1. TypeOK'
        BY <3>1 DEF TypeOK, Submit, Accept, tableVars, Labels, Reply, NoReply,
           Status
      <4>2. CallsMatch'
        BY <3>1 DEF TypeOK, CallsMatch, Submit, Accept, Labels
      <4> QED
        BY <4>1, <4>2
    <3>2. CASE \E p \in Product, c \in Content : AddReview(w, u, p, c)
      BY <3>1, <3>2 DEF AddReview, AddCall, Call, NoRow
    <3>3. CASE \E p \in Product : GetReviewList(w, u, p)
      BY <3>1, <3>3 DEF GetReviewList, ListCall, Call
    <3> QED
      BY <2>1, <3>2, <3>3 DEF Click
  <2>2. ASSUME NEW w \in Worker, LookupReview(w) PROVE Typed'
    <3>1. req[w] \in AddCall
      BY <2>2 DEF LookupReview, CallsMatch
    <3>2. \A i \in SomeRow(ReviewsOf(Seen(w).review, req[w].user, req[w].product)) :
            i \in Nat
      BY SeenType DEF SomeRow, ReviewsOf, Tables, ReviewRow, RowId, NoRow
    <3>3. PICK i \in Nat : req' = [req EXCEPT ![w].row = i]
      BY <2>2, <3>2 DEF LookupReview
    <3>4. [req[w] EXCEPT !.row = i] \in AddCall
      BY <3>1 DEF AddCall
    <3>5. /\ req' \in [Worker -> Call] /\ req'[w] \in AddCall
          /\ \A v \in Worker \ {w} : req'[v] = req[v]
      BY <3>3, <3>4 DEF TypeOK, Call
    <3>6. TypeOK'
      BY <2>2, <3>5 DEF TypeOK, LookupReview, Read, Goto, tableVars, Labels
    <3>7. CallsMatch'
      BY <2>2, <3>5 DEF TypeOK, CallsMatch, LookupReview, Read, Goto
    <3> QED
      BY <3>6, <3>7
  <2>3. ASSUME NEW w \in Worker, WriteReview(w) PROVE Typed'
    <3>1. req[w] \in AddCall
      BY <2>3 DEF WriteReview, CallsMatch
    <3>2. PICK t \in Tables : Write(w, t, "commit")
      BY <2>3, <3>1, SeenType, UpdateReviewType, InsertReviewType DEF WriteReview
    <3>3. TypeOK'
      BY <2>3, <3>2, WriteType DEF TypeOK, WriteReview, Labels
    <3>4. CallsMatch'
      BY <2>3, <3>2 DEF TypeOK, CallsMatch, WriteReview, Write, Goto
    <3> QED
      BY <3>3, <3>4
  <2>4. ASSUME NEW w \in Worker, SelectReviews(w) PROVE Typed'
    <3> DEFINE rows == Joined(Seen(w), req[w].product)
    <3>1. req[w] \in ListCall /\ rows \subseteq ReviewRow
      BY <2>4, SeenType DEF SelectReviews, CallsMatch, Tables, Joined
    <3>2. [req[w] EXCEPT !.list = rows] \in ListCall
      BY <3>1 DEF ListCall
    <3>3. /\ req' \in [Worker -> Call] /\ req'[w] \in ListCall
          /\ \A v \in Worker \ {w} : req'[v] = req[v]
      BY <2>4, <3>2 DEF SelectReviews, TypeOK, Call
    <3>4. TypeOK'
      BY <2>4, <3>3 DEF TypeOK, SelectReviews, Read, Goto, tableVars, Labels
    <3>5. CallsMatch'
      BY <2>4, <3>3 DEF TypeOK, CallsMatch, SelectReviews, Read, Goto
    <3> QED
      BY <3>4, <3>5
  <2>5. ASSUME NEW w \in Worker, Finish(w) PROVE Typed'
    <3>1. CASE Commit(w)
      BY <2>5, <3>1, SeenType
      DEF Finish, TypeOK, CallsMatch, Commit, Labels, Status
    <3>2. CASE CommitFails(w)
      BY <2>5, <3>2
      DEF Finish, TypeOK, CallsMatch, CommitFails, Rollback, Labels, Status
    <3>3. CASE LockTimeout(w, Writes)
      BY <2>5, <3>3, FailType
      DEF Finish, TypeOK, CallsMatch, LockTimeout, InHandler, Fail
    <3> QED
      BY <2>5, <3>1, <3>2, <3>3 DEF Finish
  <2>6. ASSUME NEW w \in Worker, Deliver(w) PROVE Typed'
    <3>1. req[w] \in AddCall \cup ListCall
      BY <2>6 DEF Deliver, Respond, CallsMatch
    <3>2. req[w].op = "list" => req[w].list \subseteq ReviewRow
      BY <3>1 DEF AddCall, ListCall
    <3>3. [status |-> status[w],
           list |-> IF status[w] = "ok" /\ req[w].op = "list"
                    THEN req[w].list ELSE {}] \in Reply
      BY <3>2 DEF TypeOK, Reply
    <3>4. reply' \in [User -> Reply]
      BY <2>6, <3>3 DEF TypeOK, Deliver
    <3>5. TypeOK'
      BY <2>6, <3>4
      DEF TypeOK, Deliver, Respond, tableVars, Labels, Status, Call, NoCall
    <3>6. CallsMatch'
      BY <2>6 DEF TypeOK, CallsMatch, Deliver, Respond
    <3> QED
      BY <3>5, <3>6
  <2>7. ASSUME NEW u \in User, NEW p \in Product, RateProduct(u, p) PROVE Typed'
    <3>1. db' \in Tables
      BY <2>7 DEF TypeOK, RateProduct, Tables
    <3> QED
      BY <2>7, <3>1 DEF TypeOK, CallsMatch, RateProduct
  <2>8. ASSUME ServerCrash PROVE Typed'
    <3>1. reply' \in [User -> Reply]
      BY <2>8 DEF TypeOK, ServerCrash, Reply
    <3> QED
      BY <2>8, <3>1
      DEF TypeOK, CallsMatch, ServerCrash, Crash, Labels, Status, Call, NoCall
  <2>9. CASE UNCHANGED vars
    BY <2>9 DEF TypeOK, CallsMatch, vars, serverVars
  <2> QED
    BY <2>1, <2>2, <2>3, <2>4, <2>5, <2>6, <2>7, <2>8, <2>9
    DEF Next, Serve, Handler, Done
<1> QED
  BY <1>1, <1>2, PTL DEF Spec

(* The tables, the calls and the replies have their types, for every        *)
(* instance: no interleaving brings a handler to a step it has no arguments *)
(* for, or a review without an author into the table.                       *)
THEOREM TypesAreKept == Spec => []TypeOK
BY Typing, PTL DEF Typed

-----------------------------------------------------------------------------
(* Rows keep their owner.  The holder of the write lock has written and     *)
(* waits to commit; nobody else's tables differ from the committed ones.    *)
LockOK ==
  /\ writer = NoWorker => work = db
  /\ \A w \in Worker : writer = w => pc[w] = "commit"

(* Ids are below the next id, and no two rows share one. *)
IdsOK(t) ==
  /\ \A r \in t.review : r.id < t.nextReview
  /\ \A r, s \in t.review : r.id = s.id => r = s

(* The id add_review has looked up is, for as long as there is a row with   *)
(* it, the id of a row of this user and product: ids are not used again.    *)
FoundOK ==
  \A w \in Worker :
    pc[w] = "write" /\ req[w].row # NoRow =>
      /\ req[w].row < db.nextReview
      /\ \A r \in db.review :
           r.id = req[w].row => r.user = req[w].user /\ r.product = req[w].product

(* What the holder of the lock has done: ids only grow, a row that keeps    *)
(* its id keeps its owner and product, and the rows of others are the same. *)
WorkOK ==
  /\ db.nextReview <= work.nextReview
  /\ \A r \in work.review :
       r.id < db.nextReview =>
         \E s \in db.review : s.id = r.id /\ s.user = r.user /\ s.product = r.product
  /\ \A w \in Worker :
       writer = w =>
         \A u \in User \ {req[w].user} :
           {r \in db.review : r.user = u} = {r \in work.review : r.user = u}

RowsKept == LockOK /\ IdsOK(db) /\ IdsOK(work) /\ FoundOK /\ WorkOK

(* A write of a handler, seen as a step from the tables t it sees: the      *)
(* tables t2 it leaves keep ids and owners.                                 *)
KeepsRows(t, t2, user) ==
  /\ t.nextReview <= t2.nextReview
  /\ IdsOK(t2)
  /\ \A r \in t2.review :
       r.id < t.nextReview =>
         \E s \in t.review : s.id = r.id /\ s.user = r.user /\ s.product = r.product
  /\ \A u \in User \ {user} :
       {r \in t.review : r.user = u} = {r \in t2.review : r.user = u}

(* Changing a review of a user touches rows of this user only. *)
LEMMA UpdateKeepsRows ==
  ASSUME NEW t \in Tables, NEW call \in AddCall, IdsOK(t),
         \A r \in t.review :
           r.id = call.row => r.user = call.user /\ r.product = call.product
  PROVE  KeepsRows(t, UpdateReview(t, call), call.user)
<1> DEFINE new(r) == IF r.id = call.row THEN Changed(r, call) ELSE r
           t2 == UpdateReview(t, call)
<1>1. t2.review = {new(r) : r \in t.review} /\ t2.nextReview = t.nextReview
  BY DEF UpdateReview, Tables, Changed
<1>2. \A r \in t.review :
        new(r).id = r.id /\ new(r).user = r.user /\ new(r).product = r.product
  BY DEF Changed, Tables, ReviewRow
<1>3. IdsOK(t2)
  BY <1>1, <1>2 DEF IdsOK
<1>4. ASSUME NEW u \in User \ {call.user}
      PROVE  {r \in t.review : r.user = u} = {r \in t2.review : r.user = u}
  <2>1. \A r \in t.review : r.user = u => new(r) = r
    OBVIOUS
  <2> HIDE DEF t2, new
  <2> QED
    BY <1>1, <1>2, <2>1
<1>5. t.nextReview \in Nat
  BY DEF Tables, RowId
<1> QED
  BY <1>1, <1>2, <1>3, <1>4, <1>5 DEF KeepsRows

(* Inserting a review of a user touches rows of this user only, and takes a *)
(* new id.                                                                  *)
LEMMA InsertKeepsRows ==
  ASSUME NEW t \in Tables, NEW call \in AddCall, IdsOK(t)
  PROVE  KeepsRows(t, InsertReview(t, call), call.user)
<1> DEFINE new == Added(t, call)
           t2 == InsertReview(t, call)
<1>1. t2.review = t.review \cup {new} /\ t2.nextReview = t.nextReview + 1
  BY DEF InsertReview, Tables, Added
<1>2. new.id = t.nextReview /\ new.user = call.user
  BY DEF Added
<1>3. t.nextReview \in Nat /\ \A r \in t.review : r.id \in Nat
  BY DEF Tables, RowId, ReviewRow
<1>4. IdsOK(t2)
  BY <1>1, <1>2, <1>3 DEF IdsOK
<1> HIDE DEF new, t2
<1>5. KeepsRows(t, t2, call.user)
  BY <1>1, <1>2, <1>3, <1>4 DEF KeepsRows
<1> QED
  BY <1>5 DEF t2

(* A write keeps RowsKept, whatever it writes, when it keeps the rows. *)
LEMMA WriteKeepsRows ==
  ASSUME Typed, RowsKept, NEW w \in Worker, NEW t2 \in Tables,
         pc[w] \notin {"commit", "idle"}, UNCHANGED req,
         Write(w, t2, "commit"), KeepsRows(Seen(w), t2, req[w].user)
  PROVE  RowsKept'
<1>1. writer = NoWorker /\ work = db /\ Seen(w) = db
  BY WorkerAssumption DEF Write, RowsKept, LockOK, Seen
<1>2. db' = db /\ work' = t2 /\ writer' = w
  BY DEF Write
<1>3. pc' = [pc EXCEPT ![w] = "commit"] /\ pc \in [Worker -> Labels]
  BY DEF Write, Goto, Typed, TypeOK
<1>4. LockOK'
  BY <1>2, <1>3, WorkerAssumption DEF LockOK
<1>5. IdsOK(db)' /\ IdsOK(work)'
  BY <1>1, <1>2 DEF IdsOK, KeepsRows, RowsKept
<1>6. FoundOK'
  BY <1>2, <1>3 DEF FoundOK, RowsKept
<1>7. WorkOK'
  BY <1>1, <1>2, WorkerAssumption DEF WorkOK, KeepsRows
<1> QED
  BY <1>4, <1>5, <1>6, <1>7 DEF RowsKept

(* A step of worker w that leaves the tables alone.                         *)
LEMMA QuietKeepsRows ==
  ASSUME Typed, RowsKept, NEW w \in Worker, pc[w] # "commit",
         UNCHANGED tableVars,
         \A v \in Worker \ {w} : pc'[v] = pc[v] /\ req'[v] = req[v],
         pc'[w] = "write" /\ req'[w].row # NoRow =>
           \E r \in db.review : /\ r.id = req'[w].row
                              /\ r.user = req'[w].user
                              /\ r.product = req'[w].product
  PROVE  RowsKept'
<1> USE DEF tableVars
<1>1. writer # w
  BY DEF RowsKept, LockOK
<1>2. LockOK'
  BY <1>1 DEF RowsKept, LockOK
<1>3. IdsOK(db)' /\ IdsOK(work)'
  BY DEF RowsKept, IdsOK
<1>4. FoundOK'
  <2>1. CASE pc'[w] = "write" /\ req'[w].row # NoRow
    BY <2>1 DEF RowsKept, FoundOK, IdsOK
  <2>2. CASE ~(pc'[w] = "write" /\ req'[w].row # NoRow)
    BY <2>2 DEF RowsKept, FoundOK
  <2> QED
    BY <2>1, <2>2
<1>5. WorkOK'
  BY <1>1 DEF RowsKept, WorkOK
<1> QED
  BY <1>2, <1>3, <1>4, <1>5 DEF RowsKept

(* A step that gives up the lock without committing, or does not hold it:   *)
(* everybody's view is the committed tables, or as before.                  *)
LEMMA RollbackKeepsRows ==
  ASSUME Typed, RowsKept, NEW w \in Worker, Rollback(w), UNCHANGED req,
         pc' = [pc EXCEPT ![w] = "answer"]
  PROVE  RowsKept'
<1>1. pc \in [Worker -> Labels] /\ db \in Tables
  BY DEF Typed, TypeOK
<1>2. LockOK'
  BY <1>1, WorkerAssumption DEF Rollback, RowsKept, LockOK
<1>3. IdsOK(db)' /\ IdsOK(work)'
  BY DEF Rollback, RowsKept, IdsOK
<1>4. FoundOK'
  BY <1>1 DEF Rollback, RowsKept, FoundOK
<1>5. WorkOK'
  <2>1. db.nextReview <= db.nextReview
    BY <1>1 DEF Tables, RowId
  <2>2. CASE writer = w
    BY <2>1, <2>2, WorkerAssumption DEF Rollback, WorkOK
  <2>3. CASE writer # w
    BY <2>3 DEF Rollback, RowsKept, WorkOK
  <2> QED
    BY <2>2, <2>3
<1> QED
  BY <1>2, <1>3, <1>4, <1>5 DEF RowsKept

(* A commit keeps the invariant: what the holder of the lock has written    *)
(* becomes what all others read.                                            *)
LEMMA CommitKeepsRows ==
  ASSUME Typed, RowsKept, NEW w \in Worker, Commit(w), UNCHANGED req
  PROVE  RowsKept'
<1>1. pc \in [Worker -> Labels] /\ db \in Tables /\ work \in Tables
  BY DEF Typed, TypeOK
<1>2. CASE writer = w
  <2>1. db' = work /\ work' = work /\ writer' = NoWorker
    BY <1>2 DEF Commit, Seen
  <2>2. LockOK'
    BY <2>1, WorkerAssumption DEF LockOK
  <2>3. IdsOK(db)' /\ IdsOK(work)'
    BY <2>1 DEF RowsKept, IdsOK
  <2>4. FoundOK'
    <3> SUFFICES ASSUME NEW v \in Worker, pc'[v] = "write", req[v].row # NoRow
                 PROVE  /\ req[v].row < work.nextReview
                        /\ \A r \in work.review : r.id = req[v].row =>
                             r.user = req[v].user /\ r.product = req[v].product
      BY <2>1 DEF FoundOK
    <3>1. pc[v] = "write" /\ req[v] \in AddCall
      BY <1>1 DEF Commit, Typed, CallsMatch
    <3>2. /\ req[v].row < db.nextReview
          /\ \A r \in db.review : r.id = req[v].row =>
               r.user = req[v].user /\ r.product = req[v].product
      BY <3>1 DEF RowsKept, FoundOK
    <3>3. req[v].row \in Nat /\ db.nextReview \in Nat /\ work.nextReview \in Nat
      BY <1>1, <3>1 DEF AddCall, Tables, RowId
    <3> QED
      BY <3>2, <3>3 DEF RowsKept, WorkOK
  <2>5. WorkOK'
    <3>1. work.nextReview <= work.nextReview
      BY <1>1 DEF Tables, RowId
    <3> QED
      BY <2>1, <3>1, WorkerAssumption DEF WorkOK
  <2> QED
    BY <2>2, <2>3, <2>4, <2>5 DEF RowsKept
<1>3. CASE writer # w
  <2>1. UNCHANGED tableVars
    BY <1>3 DEF Commit, Seen, tableVars
  <2>2. LockOK'
    BY <1>1, <1>3, <2>1 DEF Commit, RowsKept, LockOK, tableVars
  <2>3. FoundOK'
    BY <1>1, <2>1 DEF Commit, RowsKept, FoundOK, tableVars
  <2> QED
    BY <2>1, <2>2, <2>3 DEF RowsKept, IdsOK, WorkOK, tableVars
<1> QED
  BY <1>2, <1>3

(* Ids are never given twice, a row found by a handler that waits to write  *)
(* is a row of its own user and product, and what the holder of the lock    *)
(* has written differs from the committed tables in rows of its user only.  *)
THEOREM RowsKeptInvariant == Spec => []RowsKept
<1>1. Init => RowsKept
  <2> SUFFICES ASSUME Init PROVE RowsKept
    OBVIOUS
  <2>1. /\ db.review = {} /\ db.nextReview = 1 /\ work = db /\ writer = NoWorker
        /\ \A w \in Worker : pc[w] = "idle"
    BY DEF Init, ServerInit
  <2> QED
    BY <2>1, WorkerAssumption DEF RowsKept, LockOK, IdsOK, FoundOK, WorkOK
<1>2. Typed /\ RowsKept /\ [Next]_vars => RowsKept'
  <2> SUFFICES ASSUME Typed, RowsKept, [Next]_vars PROVE RowsKept'
    OBVIOUS
  <2> USE DEF tableVars
  <2>0. pc \in [Worker -> Labels] /\ req \in [Worker -> Call]
    BY DEF Typed, TypeOK
  <2>1. ASSUME NEW w \in Worker, NEW u \in User, Click(w, u) PROVE RowsKept'
    <3>1. ASSUME NEW label \in {"lookup", "select"}, NEW call,
                 Submit(w, u, label, call)
          PROVE  RowsKept'
      <4>1. /\ pc[w] # "commit" /\ UNCHANGED tableVars /\ pc'[w] # "write"
            /\ \A v \in Worker \ {w} : pc'[v] = pc[v] /\ req'[v] = req[v]
        BY <2>0, <3>1 DEF Submit, Accept, InProgress
      <4> QED
        BY <4>1, QuietKeepsRows
    <3> QED
      BY <2>1, <3>1 DEF Click, AddReview, GetReviewList
  <2>2. ASSUME NEW w \in Worker, LookupReview(w) PROVE RowsKept'
    <3>1. Seen(w) = db
      BY <2>2 DEF LookupReview, RowsKept, LockOK, Seen
    <3>2. PICK i \in SomeRow(ReviewsOf(db.review, req[w].user, req[w].product)) :
            req' = [req EXCEPT ![w].row = i]
      BY <2>2, <3>1 DEF LookupReview
    <3>3. req[w] \in AddCall
      BY <2>2 DEF LookupReview, Typed, CallsMatch
    <3>4. /\ req'[w].row = i /\ req'[w].user = req[w].user
          /\ req'[w].product = req[w].product
          /\ \A v \in Worker \ {w} : req'[v] = req[v]
      BY <2>0, <3>2, <3>3 DEF AddCall
    <3>5. i # NoRow =>
            \E r \in db.review : r.id = i /\ r.user = req[w].user
                                        /\ r.product = req[w].product
      BY <3>2 DEF SomeRow, ReviewsOf
    <3>6. /\ pc[w] # "commit" /\ UNCHANGED tableVars
          /\ \A v \in Worker \ {w} : pc'[v] = pc[v]
      BY <2>0, <2>2 DEF LookupReview, Read, Goto
    <3> QED
      BY <3>4, <3>5, <3>6, QuietKeepsRows
  <2>3. ASSUME NEW w \in Worker, WriteReview(w) PROVE RowsKept'
    <3>1. req[w] \in AddCall /\ Seen(w) = db /\ db \in Tables /\ IdsOK(db)
      BY <2>3 DEF WriteReview, Typed, TypeOK, CallsMatch, RowsKept, LockOK, Seen
    <3>2. CASE req[w].row # NoRow
      <4>1. KeepsRows(db, UpdateReview(db, req[w]), req[w].user)
        BY <2>3, <3>1, <3>2, UpdateKeepsRows DEF WriteReview, RowsKept, FoundOK
      <4>2. UpdateReview(db, req[w]) \in Tables
        BY <3>1, UpdateReviewType
      <4> QED
        BY <2>3, <3>1, <3>2, <4>1, <4>2, WriteKeepsRows DEF WriteReview
    <3>3. CASE req[w].row = NoRow
      <4>1. KeepsRows(db, InsertReview(db, req[w]), req[w].user)
        BY <3>1, InsertKeepsRows
      <4>2. InsertReview(db, req[w]) \in Tables
        BY <3>1, InsertReviewType
      <4> QED
        BY <2>3, <3>1, <3>3, <4>1, <4>2, WriteKeepsRows DEF WriteReview
    <3> QED
      BY <3>2, <3>3
  <2>4. ASSUME NEW w \in Worker, SelectReviews(w) PROVE RowsKept'
    <3>1. /\ pc[w] # "commit" /\ UNCHANGED tableVars /\ pc'[w] # "write"
          /\ \A v \in Worker \ {w} : pc'[v] = pc[v] /\ req'[v] = req[v]
      BY <2>0, <2>4 DEF SelectReviews, Read, Goto
    <3> QED
      BY <3>1, QuietKeepsRows
  <2>5. ASSUME NEW w \in Worker, Finish(w) PROVE RowsKept'
    <3>1. UNCHANGED req
      BY <2>5 DEF Finish
    <3> QED
      BY <2>5, <3>1, CommitKeepsRows, RollbackKeepsRows
      DEF Finish, CommitFails, LockTimeout, Fail
  <2>6. ASSUME NEW w \in Worker, Deliver(w) PROVE RowsKept'
    <3>1. /\ pc[w] # "commit" /\ UNCHANGED tableVars /\ pc'[w] # "write"
          /\ \A v \in Worker \ {w} : pc'[v] = pc[v] /\ req'[v] = req[v]
      BY <2>0, <2>6 DEF Deliver, Respond
    <3> QED
      BY <3>1, QuietKeepsRows
  <2>7. ASSUME NEW u \in User, NEW p \in Product, RateProduct(u, p) PROVE RowsKept'
    <3>1. /\ db'.review = db.review /\ db'.nextReview = db.nextReview
          /\ work' = db' /\ writer = NoWorker /\ work = db
          /\ UNCHANGED <<writer, pc, req>>
      BY <2>7 DEF RateProduct, RowsKept, LockOK, Typed, TypeOK, Tables
    <3> QED
      BY <3>1, WorkerAssumption DEF RowsKept, LockOK, IdsOK, FoundOK, WorkOK
  <2>8. ASSUME ServerCrash PROVE RowsKept'
    <3>1. /\ UNCHANGED db /\ work' = db /\ writer' = NoWorker
          /\ \A w \in Worker : pc'[w] = "idle"
      BY <2>8 DEF ServerCrash, Crash
    <3>2. db.nextReview <= db.nextReview
      BY DEF Typed, TypeOK, Tables, RowId
    <3> QED
      BY <3>1, <3>2, WorkerAssumption DEF RowsKept, LockOK, IdsOK, FoundOK, WorkOK
  <2>9. CASE UNCHANGED vars
    BY <2>9 DEF RowsKept, LockOK, IdsOK, FoundOK, WorkOK, vars, serverVars
  <2> QED
    BY <2>1, <2>2, <2>3, <2>4, <2>5, <2>6, <2>7, <2>8, <2>9
    DEF Next, Serve, Handler, Done
<1> QED
  BY <1>1, <1>2, Typing, PTL DEF Spec

-----------------------------------------------------------------------------
(* One review per user and product, for users who wait for answers: between *)
(* the lookup of add_review and its write nobody else inserts a row of the  *)
(* same user, because no other request of this user is being served: the    *)
(* "no row" it has found is still true when it inserts.                     *)
OneEach ==
  \A v, w \in Worker :
    InProgress(v) /\ InProgress(w) /\ req[v].user = req[w].user => v = w

Unique(t) ==
  \A r, s \in t.review : r.user = s.user /\ r.product = s.product => r = s

NoneFound ==
  \A w \in Worker :
    pc[w] = "write" /\ req[w].row = NoRow
      => ReviewsOf(db.review, req[w].user, req[w].product) = {}

OneRow == OneEach /\ Unique(db) /\ Unique(work) /\ NoneFound

(* What every step that serves worker w does to OneEach. *)
LEMMA StepKeepsOneEach ==
  ASSUME OneEach, NEW w \in Worker, InProgress(w), req'[w].user = req[w].user,
         \A v \in Worker \ {w} : pc'[v] = pc[v] /\ req'[v] = req[v]
  PROVE  OneEach'
BY DEF OneEach, InProgress

(* Changing a review adds no second one of its user and product. *)
LEMMA UpdateKeepsUnique ==
  ASSUME NEW t \in Tables, NEW call \in AddCall, IdsOK(t), Unique(t),
         \A r \in t.review :
           r.id = call.row => r.user = call.user /\ r.product = call.product
  PROVE  Unique(UpdateReview(t, call))
<1> DEFINE new(r) == IF r.id = call.row THEN Changed(r, call) ELSE r
<1>1. UpdateReview(t, call).review = {new(r) : r \in t.review}
  BY DEF UpdateReview, Tables, Changed
<1>2. \A r \in t.review : new(r).user = r.user /\ new(r).product = r.product
  BY DEF Changed, Tables, ReviewRow
<1> HIDE DEF new
<1> QED
  BY <1>1, <1>2 DEF Unique

(* Inserting a review adds no second one where the lookup found none. *)
LEMMA InsertKeepsUnique ==
  ASSUME NEW t \in Tables, NEW call \in AddCall, Unique(t),
         ReviewsOf(t.review, call.user, call.product) = {}
  PROVE  Unique(InsertReview(t, call))
<1>1. InsertReview(t, call).review = t.review \cup {Added(t, call)}
  BY DEF InsertReview, Tables, Added
<1>2. \A r \in t.review : ~(r.user = call.user /\ r.product = call.product)
  BY DEF ReviewsOf
<1> QED
  BY <1>1, <1>2 DEF Unique, Added

(* A step of the handler of w that leaves the tables alone. *)
LEMMA QuietKeepsOneRow ==
  ASSUME OneRow, OneEach', NEW w \in Worker, UNCHANGED tableVars,
         \A v \in Worker \ {w} : pc'[v] = pc[v] /\ req'[v] = req[v],
         pc'[w] = "write" /\ req'[w].row = NoRow
           => ReviewsOf(db.review, req'[w].user, req'[w].product) = {}
  PROVE  OneRow'
BY DEF OneRow, Unique, NoneFound, tableVars

(* Writing one review per user and product under the lock keeps the         *)
(* invariant.                                                               *)
LEMMA WriteKeepsOneRow ==
  ASSUME Typed, OneRow, NEW w \in Worker, NEW t2, pc[w] # "idle", UNCHANGED req,
         Write(w, t2, "commit"), Unique(t2)
  PROVE  OneRow'
<1>1. /\ db' = db /\ work' = t2 /\ pc' = [pc EXCEPT ![w] = "commit"]
      /\ pc \in [Worker -> Labels]
  BY DEF Write, Goto, Typed, TypeOK
<1>2. OneEach'
  BY <1>1, StepKeepsOneEach DEF OneRow, InProgress
<1> QED
  BY <1>1, <1>2 DEF OneRow, Unique, NoneFound

(* A rollback keeps the invariant. *)
LEMMA RollbackKeepsOneRow ==
  ASSUME Typed, OneRow, NEW w \in Worker, pc[w] # "idle", UNCHANGED req,
         Rollback(w), pc' = [pc EXCEPT ![w] = "answer"]
  PROVE  OneRow'
<1>1. pc \in [Worker -> Labels]
  BY DEF Typed, TypeOK
<1>2. OneEach'
  BY <1>1, StepKeepsOneEach DEF OneRow, InProgress
<1> QED
  BY <1>1, <1>2 DEF Rollback, OneRow, Unique, NoneFound

(* A commit keeps the invariant: it changes the reviews of its own user, of *)
(* whom no other request is in progress.                                    *)
LEMMA CommitKeepsOneRow ==
  ASSUME Typed, RowsKept, OneRow, NEW w \in Worker, Commit(w), UNCHANGED req
  PROVE  OneRow'
<1>1. /\ pc \in [Worker -> Labels] /\ pc[w] = "commit" /\ work' = work
      /\ pc' = [pc EXCEPT ![w] = "answer"]
  BY DEF Typed, TypeOK, Commit
<1>2. OneEach'
  BY <1>1, StepKeepsOneEach DEF OneRow, InProgress
<1>3. Unique(db)' /\ Unique(work)'
  BY <1>1 DEF Commit, Seen, OneRow, Unique
<1>4. NoneFound'
  <2> SUFFICES ASSUME NEW v \in Worker, pc'[v] = "write", req[v].row = NoRow
               PROVE  ReviewsOf(db'.review, req[v].user, req[v].product) = {}
    BY DEF NoneFound
  <2>1. pc[v] = "write" /\ v # w
    BY <1>1
  <2>2. ReviewsOf(db.review, req[v].user, req[v].product) = {}
    BY <2>1 DEF OneRow, NoneFound
  <2>3. CASE writer = w
    <3>1. req[v].user \in User /\ req[v].user # req[w].user
      BY <1>1, <2>1 DEF OneRow, OneEach, InProgress, Typed, CallsMatch, AddCall
    <3>2. {r \in db.review : r.user = req[v].user}
            = {r \in db'.review : r.user = req[v].user}
      BY <2>3, <3>1 DEF Commit, Seen, RowsKept, WorkOK
    <3> QED
      BY <2>2, <3>2 DEF ReviewsOf
  <2>4. CASE writer # w
    BY <2>2, <2>4 DEF Commit, Seen
  <2> QED
    BY <2>3, <2>4
<1> QED
  BY <1>2, <1>3, <1>4 DEF OneRow

(* No two requests of one user are served at a time, so that a row a lookup *)
(* has not found is not there when it is inserted.                          *)
THEOREM OneRowInvariant == Overlap = FALSE /\ Spec => []OneRow
<1> SUFFICES ASSUME Overlap = FALSE PROVE Spec => []OneRow
  OBVIOUS
<1>1. Init => OneRow
  <2> SUFFICES ASSUME Init PROVE OneRow
    OBVIOUS
  <2>1. /\ db.review = {} /\ work = db /\ \A w \in Worker : pc[w] = "idle"
    BY DEF Init, ServerInit
  <2> QED
    BY <2>1 DEF OneRow, OneEach, InProgress, Unique, NoneFound
<1>2. Typed /\ RowsKept /\ OneRow /\ [Next]_vars => OneRow'
  <2> SUFFICES ASSUME Typed, RowsKept, OneRow, [Next]_vars PROVE OneRow'
    OBVIOUS
  <2> USE DEF tableVars
  <2>0. pc \in [Worker -> Labels] /\ req \in [Worker -> Call]
    BY DEF Typed, TypeOK
  <2>1. ASSUME NEW w \in Worker, NEW u \in User, Click(w, u) PROVE OneRow'
    <3>1. ASSUME NEW label \in {"lookup", "select"}, NEW call,
                 call.user = u, Submit(w, u, label, call)
          PROVE  OneRow'
      <4>1. /\ UNCHANGED tableVars /\ pc'[w] # "write" /\ req'[w].user = u
            /\ \A v \in Worker \ {w} : pc'[v] = pc[v] /\ req'[v] = req[v]
        BY <2>0, <3>1 DEF Submit, Accept, InProgress
      <4>2. \A v \in Worker : InProgress(v) => req[v].user # u
        BY <3>1 DEF Submit
      <4>3. OneEach'
        BY <4>1, <4>2 DEF OneRow, OneEach, InProgress
      <4> QED
        BY <4>1, <4>3, QuietKeepsOneRow
    <3> QED
      BY <2>1, <3>1 DEF Click, AddReview, GetReviewList
  <2>2. ASSUME NEW w \in Worker, LookupReview(w) PROVE OneRow'
    <3>1. Seen(w) = db
      BY <2>2 DEF LookupReview, RowsKept, LockOK, Seen
    <3>2. PICK i \in SomeRow(ReviewsOf(db.review, req[w].user, req[w].product)) :
            req' = [req EXCEPT ![w].row = i]
      BY <2>2, <3>1 DEF LookupReview
    <3>3. req[w] \in AddCall
      BY <2>2 DEF LookupReview, Typed, CallsMatch
    <3>4. /\ req'[w].row = i /\ req'[w].user = req[w].user
          /\ req'[w].product = req[w].product
          /\ \A v \in Worker \ {w} : req'[v] = req[v]
      BY <2>0, <3>2, <3>3 DEF AddCall
    <3>5. \A r \in db.review : r.id # NoRow
      BY DEF Typed, TypeOK, Tables, ReviewRow, RowId
    <3>6. i = NoRow => ReviewsOf(db.review, req[w].user, req[w].product) = {}
      BY <3>2, <3>5 DEF SomeRow, ReviewsOf
    <3>7. /\ pc[w] # "idle" /\ UNCHANGED tableVars
          /\ \A v \in Worker \ {w} : pc'[v] = pc[v]
      BY <2>0, <2>2 DEF LookupReview, Read, Goto
    <3>8. OneEach'
      BY <3>4, <3>7, StepKeepsOneEach DEF OneRow, InProgress
    <3> QED
      BY <3>4, <3>6, <3>7, <3>8, QuietKeepsOneRow
  <2>3. ASSUME NEW w \in Worker, WriteReview(w) PROVE OneRow'
    <3>1. req[w] \in AddCall /\ Seen(w) = db /\ db \in Tables /\ IdsOK(db)
          /\ Unique(db)
      BY <2>3
      DEF WriteReview, Typed, TypeOK, CallsMatch, RowsKept, LockOK, Seen, OneRow
    <3>2. CASE req[w].row # NoRow
      <4>1. Unique(UpdateReview(db, req[w]))
        BY <2>3, <3>1, <3>2, UpdateKeepsUnique DEF WriteReview, RowsKept, FoundOK
      <4> QED
        BY <2>3, <3>1, <3>2, <4>1, WriteKeepsOneRow DEF WriteReview
    <3>3. CASE req[w].row = NoRow
      <4>1. Unique(InsertReview(db, req[w]))
        BY <2>3, <3>1, <3>3, InsertKeepsUnique DEF WriteReview, OneRow, NoneFound
      <4> QED
        BY <2>3, <3>1, <3>3, <4>1, WriteKeepsOneRow DEF WriteReview
    <3> QED
      BY <3>2, <3>3
  <2>4. ASSUME NEW w \in Worker, SelectReviews(w) PROVE OneRow'
    <3>1. req[w] \in ListCall
      BY <2>4 DEF SelectReviews, Typed, CallsMatch
    <3>2. /\ pc[w] # "idle" /\ UNCHANGED tableVars /\ pc'[w] # "write"
          /\ req'[w].user = req[w].user
          /\ \A v \in Worker \ {w} : pc'[v] = pc[v] /\ req'[v] = req[v]
      BY <2>0, <2>4, <3>1 DEF SelectReviews, Read, Goto, ListCall
    <3>3. OneEach'
      BY <3>2, StepKeepsOneEach DEF OneRow, InProgress
    <3> QED
      BY <3>2, <3>3, QuietKeepsOneRow
  <2>5. ASSUME NEW w \in Worker, Finish(w) PROVE OneRow'
    <3>1. UNCHANGED req
      BY <2>5 DEF Finish
    <3> QED
      BY <2>5, <3>1, CommitKeepsOneRow, RollbackKeepsOneRow
      DEF Finish, CommitFails, LockTimeout, InHandler, Fail
  <2>6. ASSUME NEW w \in Worker, Deliver(w) PROVE OneRow'
    <3>1. /\ UNCHANGED tableVars /\ pc'[w] = "idle"
          /\ \A v \in Worker \ {w} : pc'[v] = pc[v] /\ req'[v] = req[v]
      BY <2>0, <2>6 DEF Deliver, Respond
    <3>2. OneEach'
      BY <3>1 DEF OneRow, OneEach, InProgress
    <3> QED
      BY <3>1, <3>2, QuietKeepsOneRow
  <2>7. ASSUME NEW u \in User, NEW p \in Product, RateProduct(u, p) PROVE OneRow'
    <3>1. /\ db'.review = db.review /\ work' = db' /\ UNCHANGED <<pc, req>>
      BY <2>7 DEF RateProduct, Typed, TypeOK, Tables
    <3> QED
      BY <3>1 DEF OneRow, OneEach, InProgress, Unique, NoneFound
  <2>8. ASSUME ServerCrash PROVE OneRow'
    <3>1. /\ UNCHANGED db /\ work' = db /\ \A w \in Worker : pc'[w] = "idle"
      BY <2>8 DEF ServerCrash, Crash
    <3> QED
      BY <3>1 DEF OneRow, OneEach, InProgress, Unique, NoneFound
  <2>9. CASE UNCHANGED vars
    BY <2>9 DEF OneRow, OneEach, InProgress, Unique, NoneFound, vars, serverVars
  <2> QED
    BY <2>1, <2>2, <2>3, <2>4, <2>5, <2>6, <2>7, <2>8, <2>9
    DEF Next, Serve, Handler, Done
<1> QED
  BY <1>1, <1>2, Typing, RowsKeptInvariant, PTL DEF Spec

(* A user who waits for answers has one review per product, whatever other  *)
(* users do and whichever requests fail.                                    *)
THEOREM ReviewsAreUnique == Overlap = FALSE /\ Spec => []OneReviewPerUser
<1>1. OneRow => OneReviewPerUser
  BY DEF OneRow, Unique, OneReviewPerUser
<1> QED
  BY <1>1, OneRowInvariant, PTL

-----------------------------------------------------------------------------
(* Reviews implements ReviewSpec for users who wait for answers and commits *)
(* that are not refused, for every set of users, products, texts and        *)
(* workers: each step of the server is one of the promise or a stutter.     *)

(* The row a lookup has found is still there when it is written: nobody     *)
(* deletes reviews, and those of a user are changed by this user only.      *)
StillThere ==
  \A w \in Worker :
    pc[w] = "write" /\ req[w].row # NoRow =>
      \E r \in ReviewsOf(db.review, req[w].user, req[w].product) : r.id = req[w].row

(* What the holder of the lock is about to commit is its review and nothing *)
(* else.                                                                    *)
WritesOne(t, t2, call) ==
  /\ t2.star = t.star
  /\ ContentsOf(t2, call.user, call.product) = {call.content}
  /\ \A u \in User, p \in Product :
       u # call.user \/ p # call.product => ContentsOf(t2, u, p) = ContentsOf(t, u, p)

WrittenOK ==
  \A w \in Worker :
    /\ pc[w] = "commit" /\ req[w].op = "add" => writer = w
    /\ writer = w => req[w].op = "add" /\ WritesOne(db, work, req[w])

AnswersOK == \A w \in Worker : pc[w] = "answer" => status[w] \in {"ok", "error"}

Promised == StillThere /\ WrittenOK /\ AnswersOK

-----------------------------------------------------------------------------
(* Changing the only review of a user and product writes the review that    *)
(* was sent.                                                                *)
LEMMA UpdateWritesOne ==
  ASSUME NEW t \in Tables, NEW call \in AddCall, Unique(t),
         \E r \in ReviewsOf(t.review, call.user, call.product) : r.id = call.row,
         \A r \in t.review :
           r.id = call.row => r.user = call.user /\ r.product = call.product
  PROVE  WritesOne(t, UpdateReview(t, call), call)
<1> DEFINE new(r) == IF r.id = call.row THEN Changed(r, call) ELSE r
           t2 == UpdateReview(t, call)
<1>1. t2.review = {new(r) : r \in t.review} /\ t2.star = t.star
  BY DEF UpdateReview, Tables, Changed
<1>2. \A r \in t.review : new(r).user = r.user /\ new(r).product = r.product
  BY DEF Changed, Tables, ReviewRow
<1>3. PICK q \in t.review : q.user = call.user /\ q.product = call.product /\ q.id = call.row
  BY DEF ReviewsOf
<1>4. \A r \in t.review : r.user = call.user /\ r.product = call.product => r = q
  BY <1>3 DEF Unique
<1>5. new(q).content = call.content
  BY <1>3 DEF Changed, Tables, ReviewRow
<1>6. \A r \in t.review : r # q => new(r) = r
  BY <1>4
<1> HIDE DEF new, t2
<1>7. ReviewsOf(t2.review, call.user, call.product) = {new(q)}
  BY <1>1, <1>2, <1>3, <1>4 DEF ReviewsOf
<1>8. ContentsOf(t2, call.user, call.product) = {call.content}
  BY <1>5, <1>7 DEF ContentsOf
<1>9. ASSUME NEW u \in User, NEW p \in Product, u # call.user \/ p # call.product
      PROVE  ContentsOf(t2, u, p) = ContentsOf(t, u, p)
  <2>1. ReviewsOf(t2.review, u, p) = ReviewsOf(t.review, u, p)
    BY <1>1, <1>2, <1>3, <1>6, <1>9 DEF ReviewsOf
  <2> QED
    BY <2>1 DEF ContentsOf
<1> QED
  BY <1>1, <1>8, <1>9 DEF WritesOne, t2

(* Inserting a review where there is none writes the review that was sent. *)
LEMMA InsertWritesOne ==
  ASSUME NEW t \in Tables, NEW call \in AddCall,
         ReviewsOf(t.review, call.user, call.product) = {}
  PROVE  WritesOne(t, InsertReview(t, call), call)
<1> DEFINE new == Added(t, call)
           t2 == InsertReview(t, call)
<1>1. t2.review = t.review \cup {new} /\ t2.star = t.star
  BY DEF InsertReview, Tables, Added
<1>2. new.user = call.user /\ new.product = call.product /\ new.content = call.content
  BY DEF Added
<1> HIDE DEF new, t2
<1>3. ReviewsOf(t2.review, call.user, call.product) = {new}
  BY <1>1, <1>2 DEF ReviewsOf
<1>4. ContentsOf(t2, call.user, call.product) = {call.content}
  BY <1>2, <1>3 DEF ContentsOf
<1>5. ASSUME NEW u \in User, NEW p \in Product, u # call.user \/ p # call.product
      PROVE  ContentsOf(t2, u, p) = ContentsOf(t, u, p)
  <2>1. ReviewsOf(t2.review, u, p) = ReviewsOf(t.review, u, p)
    BY <1>1, <1>2, <1>5 DEF ReviewsOf
  <2> QED
    BY <2>1 DEF ContentsOf
<1> QED
  BY <1>1, <1>4, <1>5 DEF WritesOne, t2

(* A step of the handler of w that leaves the tables alone. *)
LEMMA QuietKeepsPromised ==
  ASSUME RowsKept, Promised, NEW w \in Worker, writer # w,
         UNCHANGED tableVars,
         \A v \in Worker \ {w} :
           pc'[v] = pc[v] /\ req'[v] = req[v] /\ status'[v] = status[v],
         pc'[w] = "write" /\ req'[w].row # NoRow =>
           \E r \in ReviewsOf(db.review, req'[w].user, req'[w].product) : r.id = req'[w].row,
         pc'[w] = "commit" => req'[w].op # "add",
         pc'[w] = "answer" => status'[w] \in {"ok", "error"}
  PROVE  Promised'
<1> USE DEF tableVars
<1>1. StillThere'
  BY DEF Promised, StillThere
<1>2. WrittenOK'
  <2> SUFFICES ASSUME NEW v \in Worker
               PROVE  /\ pc'[v] = "commit" /\ req'[v].op = "add" => writer = v
                      /\ writer = v => req'[v].op = "add" /\ WritesOne(db, work, req'[v])
    BY DEF WrittenOK, WritesOne, ContentsOf
  <2> QED
    BY DEF Promised, WrittenOK
<1>3. AnswersOK'
  BY DEF Promised, AnswersOK
<1> QED
  BY <1>1, <1>2, <1>3 DEF Promised

(* Taking the lock and writing what was sent keeps the invariant. *)
LEMMA WriteKeepsPromised ==
  ASSUME Typed, RowsKept, Promised, NEW w \in Worker, NEW t2, UNCHANGED req,
         pc[w] = "write", Write(w, t2, "commit"), WritesOne(db, t2, req[w])
  PROVE  Promised'
<1>1. /\ writer = NoWorker /\ writer' = w /\ db' = db /\ work' = t2
      /\ pc' = [pc EXCEPT ![w] = "commit"] /\ pc \in [Worker -> Labels]
      /\ UNCHANGED status
  BY DEF Write, Goto, Typed, TypeOK, RowsKept, LockOK
<1>2. req[w].op = "add"
  BY DEF Typed, CallsMatch, AddCall
<1>3. StillThere' /\ AnswersOK'
  BY <1>1 DEF Promised, StillThere, AnswersOK
<1>4. WritesOne(db', work', req'[w])
  BY <1>1
<1>5. WrittenOK'
  BY <1>1, <1>2, <1>4, WorkerAssumption DEF Promised, WrittenOK
<1> QED
  BY <1>3, <1>5 DEF Promised

(* A commit keeps the invariant: nobody else has found reviews of this      *)
(* user.                                                                    *)
LEMMA CommitKeepsPromised ==
  ASSUME Typed, RowsKept, OneRow, Promised, NEW w \in Worker, Commit(w), UNCHANGED req
  PROVE  Promised'
<1>1. /\ pc \in [Worker -> Labels] /\ pc[w] = "commit" /\ status \in [Worker -> Status]
      /\ pc' = [pc EXCEPT ![w] = "answer"] /\ status' = [status EXCEPT ![w] = "ok"]
      /\ work' = work
  BY DEF Typed, TypeOK, Commit
<1>2. CASE writer # w
  <2>1. UNCHANGED tableVars
    BY <1>2 DEF Commit, Seen, tableVars
  <2> QED
    BY <1>1, <1>2, <2>1, QuietKeepsPromised
<1>3. CASE writer = w
  <2>1. db' = work /\ writer' = NoWorker
    BY <1>3 DEF Commit, Seen
  <2>2. StillThere'
    <3> SUFFICES ASSUME NEW v \in Worker, pc'[v] = "write", req[v].row # NoRow
                 PROVE  \E r \in ReviewsOf(work.review, req[v].user, req[v].product) :
                          r.id = req[v].row
      BY <2>1 DEF StillThere
    <3>1. pc[v] = "write" /\ v # w
      BY <1>1
    <3>2. req[v].user \in User /\ req[v].user # req[w].user
      BY <1>1, <3>1 DEF OneRow, OneEach, InProgress, Typed, CallsMatch, AddCall
    <3>3. {r \in db.review : r.user = req[v].user}
            = {r \in work.review : r.user = req[v].user}
      BY <1>3, <3>2 DEF RowsKept, WorkOK
    <3>4. PICK r \in ReviewsOf(db.review, req[v].user, req[v].product) : r.id = req[v].row
      BY <3>1 DEF Promised, StillThere
    <3> QED
      BY <3>3, <3>4 DEF ReviewsOf
  <2>3. WrittenOK'
    BY <1>1, <1>3, <2>1, WorkerAssumption DEF Promised, WrittenOK
  <2>4. AnswersOK'
    BY <1>1 DEF Promised, AnswersOK
  <2> QED
    BY <2>2, <2>3, <2>4 DEF Promised
<1> QED
  BY <1>2, <1>3

(* The invariant the refinement needs. *)
THEOREM PromisedInvariant ==
  Overlap = FALSE /\ CommitMayFail = FALSE /\ Spec => []Promised
<1> SUFFICES ASSUME Overlap = FALSE, CommitMayFail = FALSE PROVE Spec => []Promised
  OBVIOUS
<1>1. Init => Promised
  BY WorkerAssumption
  DEF Init, ServerInit, Promised, StillThere, WrittenOK, AnswersOK
<1>2. Typed /\ RowsKept /\ OneRow /\ Promised /\ [Next]_vars => Promised'
  <2> SUFFICES ASSUME Typed, RowsKept, OneRow, Promised, [Next]_vars PROVE Promised'
    OBVIOUS
  <2> USE DEF tableVars
  <2>0. /\ pc \in [Worker -> Labels] /\ req \in [Worker -> Call]
        /\ status \in [Worker -> Status]
        /\ \A w \in Worker : pc[w] # "commit" => writer # w
    BY DEF Typed, TypeOK, RowsKept, LockOK
  <2>1. ASSUME NEW w \in Worker, NEW u \in User, Click(w, u) PROVE Promised'
    <3>1. ASSUME NEW label \in {"lookup", "select"}, NEW call, Submit(w, u, label, call)
          PROVE  Promised'
      <4>1. /\ UNCHANGED tableVars /\ pc'[w] \notin {"write", "commit", "answer"}
            /\ writer # w
            /\ \A v \in Worker \ {w} :
                 pc'[v] = pc[v] /\ req'[v] = req[v] /\ status'[v] = status[v]
        BY <2>0, <3>1 DEF Submit, Accept, InProgress
      <4> QED
        BY <4>1, QuietKeepsPromised
    <3> QED
      BY <2>1, <3>1 DEF Click, AddReview, GetReviewList
  <2>2. ASSUME NEW w \in Worker, LookupReview(w) PROVE Promised'
    <3>1. Seen(w) = db /\ writer # w
      BY <2>0, <2>2 DEF LookupReview, Seen
    <3>2. PICK i \in SomeRow(ReviewsOf(db.review, req[w].user, req[w].product)) :
            req' = [req EXCEPT ![w].row = i]
      BY <2>2, <3>1 DEF LookupReview
    <3>3. req[w] \in AddCall
      BY <2>2 DEF LookupReview, Typed, CallsMatch
    <3>4. /\ req'[w].row = i /\ req'[w].user = req[w].user
          /\ req'[w].product = req[w].product
          /\ \A v \in Worker \ {w} : req'[v] = req[v]
      BY <2>0, <3>2, <3>3 DEF AddCall
    <3>5. i # NoRow =>
            \E r \in ReviewsOf(db.review, req[w].user, req[w].product) : r.id = i
      BY <3>2 DEF SomeRow
    <3>6. /\ pc'[w] = "write" /\ UNCHANGED <<tableVars, status>>
          /\ \A v \in Worker \ {w} : pc'[v] = pc[v]
      BY <2>0, <2>2 DEF LookupReview, Read, Goto
    <3> QED
      BY <3>1, <3>4, <3>5, <3>6, QuietKeepsPromised
  <2>3. ASSUME NEW w \in Worker, WriteReview(w) PROVE Promised'
    <3>1. /\ req[w] \in AddCall /\ Seen(w) = db /\ db \in Tables /\ Unique(db)
          /\ pc[w] = "write"
      BY <2>0, <2>3 DEF WriteReview, Typed, TypeOK, CallsMatch, Seen, OneRow
    <3>2. CASE req[w].row # NoRow
      <4>1. WritesOne(db, UpdateReview(db, req[w]), req[w])
        BY <3>1, <3>2, UpdateWritesOne DEF RowsKept, FoundOK, Promised, StillThere
      <4> QED
        BY <2>3, <3>1, <3>2, <4>1, WriteKeepsPromised DEF WriteReview
    <3>3. CASE req[w].row = NoRow
      <4>1. WritesOne(db, InsertReview(db, req[w]), req[w])
        BY <3>1, <3>3, InsertWritesOne DEF OneRow, NoneFound
      <4> QED
        BY <2>3, <3>1, <3>3, <4>1, WriteKeepsPromised DEF WriteReview
    <3> QED
      BY <3>2, <3>3
  <2>4. ASSUME NEW w \in Worker, SelectReviews(w) PROVE Promised'
    <3>1. req[w] \in ListCall
      BY <2>4 DEF SelectReviews, Typed, CallsMatch
    <3>2. /\ UNCHANGED <<tableVars, status>> /\ pc'[w] = "commit" /\ req'[w].op = "list"
          /\ writer # w
          /\ \A v \in Worker \ {w} : pc'[v] = pc[v] /\ req'[v] = req[v]
      BY <2>0, <2>4, <3>1 DEF SelectReviews, Read, Goto, ListCall
    <3> QED
      BY <3>2, QuietKeepsPromised
  <2>5. ASSUME NEW w \in Worker, Finish(w) PROVE Promised'
    <3>1. CASE Commit(w)
      BY <2>5, <3>1, CommitKeepsPromised DEF Finish
    <3>2. CASE LockTimeout(w, Writes)
      <4>1. /\ UNCHANGED <<tableVars, req>> /\ writer # w
            /\ pc'[w] = "answer" /\ status'[w] = "error"
            /\ \A v \in Worker \ {w} : pc'[v] = pc[v] /\ status'[v] = status[v]
        BY <2>0, <2>5, <3>2 DEF Finish, LockTimeout, Fail, Rollback
      <4> QED
        BY <4>1, QuietKeepsPromised
    <3> QED
      BY <2>5, <3>1, <3>2 DEF Finish, CommitFails
  <2>6. ASSUME NEW w \in Worker, Deliver(w) PROVE Promised'
    <3>1. /\ UNCHANGED tableVars /\ pc'[w] = "idle" /\ writer # w
          /\ \A v \in Worker \ {w} :
               pc'[v] = pc[v] /\ req'[v] = req[v] /\ status'[v] = status[v]
      BY <2>0, <2>6 DEF Deliver, Respond
    <3> QED
      BY <3>1, QuietKeepsPromised
  <2>7. ASSUME NEW u \in User, NEW p \in Product, RateProduct(u, p) PROVE Promised'
    <3>1. /\ db'.review = db.review /\ writer = NoWorker
          /\ UNCHANGED <<writer, pc, req, status>>
      BY <2>7 DEF RateProduct, Typed, TypeOK, Tables
    <3> QED
      BY <3>1, WorkerAssumption DEF Promised, StillThere, WrittenOK, AnswersOK
  <2>8. ASSUME ServerCrash PROVE Promised'
    <3>1. writer' = NoWorker /\ \A w \in Worker : pc'[w] = "idle"
      BY <2>8 DEF ServerCrash, Crash
    <3> QED
      BY <3>1, WorkerAssumption DEF Promised, StillThere, WrittenOK, AnswersOK
  <2>9. CASE UNCHANGED vars
    <3>1. StillThere' /\ AnswersOK'
      BY <2>9 DEF Promised, StillThere, AnswersOK, vars, serverVars
    <3>2. \A w \in Worker : WritesOne(db, work, req[w])' = WritesOne(db, work, req[w])
      BY <2>9 DEF WritesOne, ContentsOf, vars, serverVars
    <3>3. WrittenOK'
      BY <2>9, <3>2 DEF Promised, WrittenOK, vars, serverVars
    <3> QED
      BY <3>1, <3>3 DEF Promised
  <2> QED
    BY <2>1, <2>2, <2>3, <2>4, <2>5, <2>6, <2>7, <2>8, <2>9
    DEF Next, Serve, Handler, Done
<1> QED
  BY <1>1, <1>2, Typing, RowsKeptInvariant, OneRowInvariant, PTL DEF Spec

-----------------------------------------------------------------------------
(* The promise, user by user: a worker that serves somebody is the only one *)
(* that does, and its request is what the user has asked.                   *)
LEMMA Served ==
  ASSUME OneEach, NEW w \in Worker, pc[w] # "idle", NEW u, req[w].user = u
  PROVE  /\ PhaseOf(u) = IF TakenEffect(w) THEN "done" ELSE "asked"
         /\ AskedOf(u) = Asking(req[w])
         /\ ResultOf(u) = IF TakenEffect(w) /\ req[w].op = "list"
                          THEN Texts(req[w].list) ELSE {}
<1>1. Serving(u) = {w}
  BY DEF Serving, OneEach, InProgress
<1>2. TheWorker(u) = w
  BY <1>1 DEF TheWorker
<1> QED
  BY <1>1, <1>2 DEF PhaseOf, AskedOf, ResultOf

(* The same, after a step. *)
LEMMA ServedNext ==
  ASSUME OneEach', NEW w \in Worker, pc'[w] # "idle", NEW u, req'[w].user = u
  PROVE  /\ PhaseOf(u)' = IF TakenEffect(w)' THEN "done" ELSE "asked"
         /\ AskedOf(u)' = Asking(req'[w])
         /\ ResultOf(u)' = IF TakenEffect(w)' /\ req'[w].op = "list"
                           THEN Texts(req'[w].list) ELSE {}
<1>1. Serving(u)' = {w}
  BY DEF Serving, OneEach, InProgress
<1>2. TheWorker(u)' = w
  BY <1>1 DEF TheWorker
<1> QED
  BY <1>1, <1>2 DEF PhaseOf, AskedOf, ResultOf

(* A user nobody serves has no request. *)
LEMMA Unserved ==
  ASSUME NEW u, \A w \in Worker : pc[w] # "idle" => req[w].user # u
  PROVE  PhaseOf(u) = "idle" /\ AskedOf(u) = NoCall /\ ResultOf(u) = {}
BY DEF PhaseOf, AskedOf, ResultOf, Serving, InProgress

(* The same, after a step. *)
LEMMA UnservedNext ==
  ASSUME NEW u, \A w \in Worker : pc'[w] # "idle" => req'[w].user # u
  PROVE  PhaseOf(u)' = "idle" /\ AskedOf(u)' = NoCall /\ ResultOf(u)' = {}
BY DEF PhaseOf, AskedOf, ResultOf, Serving, InProgress

SamePlace(u) ==
  PhaseOf(u)' = PhaseOf(u) /\ AskedOf(u)' = AskedOf(u) /\ ResultOf(u)' = ResultOf(u)

(* What the other workers do, and for whom, is as before. *)
OthersWait(w) ==
  \A v \in Worker \ {w} : pc'[v] = pc[v] /\ req'[v] = req[v] /\ status'[v] = status[v]

(* A step of one worker leaves the requests of other users where they are. *)
LEMMA OthersStay ==
  ASSUME OneEach, OneEach', NEW w \in Worker, OthersWait(w), NEW u,
         pc[w] # "idle" => req[w].user # u,
         pc'[w] # "idle" => req'[w].user # u
  PROVE  SamePlace(u)
<1>1. CASE \E v \in Worker : pc[v] # "idle" /\ req[v].user = u
  <2>1. PICK v \in Worker : pc[v] # "idle" /\ req[v].user = u
    BY <1>1
  <2>2. pc'[v] = pc[v] /\ req'[v] = req[v] /\ status'[v] = status[v]
    BY <2>1 DEF OthersWait
  <2>3. TakenEffect(v)' = TakenEffect(v)
    BY <2>2 DEF TakenEffect
  <2> QED
    BY <2>1, <2>2, <2>3, Served, ServedNext DEF SamePlace
<1>2. CASE \A v \in Worker : pc[v] # "idle" => req[v].user # u
  <2>1. \A v \in Worker : pc'[v] # "idle" => req'[v].user # u
    BY <1>2 DEF OthersWait
  <2> QED
    BY <1>2, <2>1, Unserved, UnservedNext DEF SamePlace
<1> QED
  BY <1>1, <1>2

-----------------------------------------------------------------------------
(* The actions of the promise in the same terms. *)
SameStore == db'.star = db.star /\ \A u \in User : StoredOf(u)' = StoredOf(u)

(* A step that changes no review, request or answer is a stutter of the     *)
(* promise.                                                                 *)
LEMMA AsStutter ==
  ASSUME SameStore, \A u \in User : SamePlace(u) /\ ToldOf(u)' = ToldOf(u)
  PROVE  UNCHANGED Abstract!reviewVars
BY DEF SameStore, SamePlace, Abstract!reviewVars

(* A step by which a request of one user appears is Ask. *)
LEMMA AsAsk ==
  ASSUME NEW u \in User, SameStore, \A v \in User \ {u} : SamePlace(v),
         PhaseOf(u) = "idle", PhaseOf(u)' = "asked", ResultOf(u)' = ResultOf(u),
         AskedOf(u)' \in Abstract!Request,
         ToldOf(u)' = Abstract!NoReply,
         \A v \in User \ {u} : ToldOf(v)' = ToldOf(v)
  PROVE  Abstract!Next
BY DEF SameStore, SamePlace, Abstract!Next, Abstract!Ask

(* A step by which what was asked happens to the reviews of one user, or a  *)
(* list is read, is TakeEffect.                                             *)
LEMMA AsTakeEffect ==
  ASSUME NEW u \in User, \A v \in User \ {u} : SamePlace(v),
         PhaseOf(u) = "asked", PhaseOf(u)' = "done", AskedOf(u)' = AskedOf(u),
         \A v \in User : ToldOf(v)' = ToldOf(v),
         db'.star = db.star,
         \/ /\ AskedOf(u).op = "add" /\ ResultOf(u)' = ResultOf(u)
            /\ \A v \in User \ {u} : StoredOf(v)' = StoredOf(v)
            /\ StoredOf(u)' = [StoredOf(u) EXCEPT ![AskedOf(u).product] = {AskedOf(u).content}]
         \/ /\ AskedOf(u).op = "list" /\ SameStore
            /\ ResultOf(u)' = Abstract!ListOf(AskedOf(u).product)
  PROVE  Abstract!Next
BY DEF SameStore, SamePlace, Abstract!Next, Abstract!TakeEffect

(* A step by which one user gets an answer is AnswerOk, or AnswerError before *)
(* the effect.                                                              *)
LEMMA AsAnswer ==
  ASSUME NEW u \in User, SameStore, \A v \in User \ {u} : SamePlace(v),
         PhaseOf(u)' = "idle", AskedOf(u)' = Abstract!NoRequest, ResultOf(u)' = {},
         \A v \in User \ {u} : ToldOf(v)' = ToldOf(v),
         \/ PhaseOf(u) = "done" /\ ToldOf(u)' = [status |-> "ok", list |-> ResultOf(u)]
         \/ PhaseOf(u) = "asked" /\ ToldOf(u)' = [status |-> "error", list |-> {}]
  PROVE  Abstract!Next
BY DEF SameStore, SamePlace, Abstract!Next, Abstract!AnswerOk, Abstract!AnswerError,
       Abstract!EndWith

-----------------------------------------------------------------------------
(* The steps of the server.  Most show nothing to the users. *)
LEMMA StepStutters ==
  ASSUME OneEach, OneEach', NEW w \in Worker, OthersWait(w), SameStore, UNCHANGED reply,
         pc[w] # "idle", pc'[w] # "idle", req'[w].user = req[w].user,
         TakenEffect(w)' <=> TakenEffect(w), Asking(req'[w]) = Asking(req[w]),
         TakenEffect(w) => req'[w] = req[w]
  PROVE  UNCHANGED Abstract!reviewVars
<1>1. SamePlace(req[w].user)
  BY Served, ServedNext DEF SamePlace
<1>2. \A u \in User : u # req[w].user => SamePlace(u)
  BY OthersStay
<1>3. \A u \in User : ToldOf(u)' = ToldOf(u)
  BY DEF ToldOf
<1> QED
  BY <1>1, <1>2, <1>3, AsStutter

(* A click of a user who waits is Ask. *)
LEMMA ClickAsks ==
  ASSUME Typed, OneEach, OneEach', Overlap = FALSE,
         NEW w \in Worker, NEW u \in User, Click(w, u)
  PROVE  Abstract!Next
<1>1. PICK label \in {"lookup", "select"}, call \in AddCall \cup ListCall :
        /\ Submit(w, u, label, call)
        /\ call.user = u /\ (call.op = "add" <=> label = "lookup")
  <2>1. CASE \E p \in Product, c \in Content : AddReview(w, u, p, c)
    <3>1. PICK p \in Product, c \in Content : AddReview(w, u, p, c)
      BY <2>1
    <3> DEFINE call == [op |-> "add", user |-> u, product |-> p, content |-> c,
                        row |-> NoRow]
    <3>2. call \in AddCall /\ call.user = u /\ call.op = "add"
      BY DEF AddCall, NoRow
    <3>3. Submit(w, u, "lookup", call)
      BY <3>1 DEF AddReview
    <3> QED
      BY <3>2, <3>3
  <2>2. CASE \E p \in Product : GetReviewList(w, u, p)
    <3>1. PICK p \in Product : GetReviewList(w, u, p)
      BY <2>2
    <3> DEFINE call == [op |-> "list", user |-> u, product |-> p, list |-> {}]
    <3>2. call \in ListCall /\ call.user = u /\ call.op = "list"
      BY DEF ListCall
    <3>3. Submit(w, u, "select", call)
      BY <3>1 DEF GetReviewList
    <3> QED
      BY <3>2, <3>3
  <2> QED
    BY <2>1, <2>2 DEF Click
<1>2. /\ pc[w] = "idle" /\ pc'[w] = label /\ req'[w] = call /\ UNCHANGED db
      /\ OthersWait(w)
      /\ \A v \in Worker : pc[v] # "idle" => req[v].user # u
  BY <1>1 DEF Submit, Accept, InProgress, OthersWait, Typed, TypeOK, tableVars
<1>3. ~TakenEffect(w)'
  BY <1>2 DEF TakenEffect
<1>4. PhaseOf(u) = "idle" /\ ResultOf(u) = {}
  BY <1>2, Unserved
<1>5. PhaseOf(u)' = "asked" /\ AskedOf(u)' = Asking(call) /\ ResultOf(u)' = {}
  BY <1>1, <1>2, <1>3, ServedNext
<1>6. Asking(call) \in Abstract!Request
  BY DEF Asking, Abstract!Request, AddCall, ListCall
<1>7. \A v \in User \ {u} : SamePlace(v)
  BY <1>1, <1>2, OthersStay
<1>8. SameStore
  BY <1>2 DEF SameStore, StoredOf, ContentsOf
<1>9. reply' = [reply EXCEPT ![u] = NoReply] /\ reply \in [User -> Reply]
  BY <1>1 DEF Submit, Typed, TypeOK
<1>10. /\ ToldOf(u)' = Abstract!NoReply
       /\ \A v \in User \ {u} : ToldOf(v)' = ToldOf(v)
  BY <1>9 DEF ToldOf, NoReply, Abstract!NoReply, Texts
<1> QED
  BY <1>4, <1>5, <1>6, <1>7, <1>8, <1>10, AsAsk

(* A list is the promised one: the join of the two tables. *)
LEMMA SelectTakesEffect ==
  ASSUME Typed, RowsKept, OneEach, OneEach', NEW w \in Worker, SelectReviews(w)
  PROVE  Abstract!Next
<1>0. req[w] \in ListCall
  BY DEF SelectReviews, Typed, CallsMatch
<1>1. PICK u \in User, p \in Product :
        req[w].user = u /\ req[w].product = p /\ req[w].op = "list"
  BY <1>0 DEF ListCall
<1> DEFINE list == Joined(db, p)
<1>2. /\ pc[w] = "select" /\ pc'[w] = "commit" /\ UNCHANGED <<db, reply>>
      /\ req' = [req EXCEPT ![w].list = list] /\ OthersWait(w)
  BY <1>1 DEF SelectReviews, Read, Goto, tableVars, Typed, TypeOK, RowsKept, LockOK, Seen,
         OthersWait
<1>3. req'[w] = [req[w] EXCEPT !.list = list]
  BY <1>2 DEF Typed, TypeOK
<1>4. /\ req'[w].user = u /\ req'[w].op = "list" /\ req'[w].product = p
      /\ req'[w].list = list
  BY <1>0, <1>1, <1>3 DEF ListCall
<1> HIDE DEF list
<1>5. ~TakenEffect(w) /\ TakenEffect(w)'
  BY <1>1, <1>2, <1>4 DEF TakenEffect
<1>6. Asking(req'[w]) = Asking(req[w]) /\ Asking(req[w]) = [op |-> "list", product |-> p]
  BY <1>1, <1>4 DEF Asking
<1>7. PhaseOf(u) = "asked" /\ AskedOf(u) = [op |-> "list", product |-> p]
  BY <1>1, <1>2, <1>5, <1>6, Served
<1>8. PhaseOf(u)' = "done" /\ AskedOf(u)' = AskedOf(u) /\ ResultOf(u)' = Texts(list)
  BY <1>2, <1>4, <1>5, <1>6, <1>7, ServedNext
<1>9. \A v \in User \ {u} : SamePlace(v)
  BY <1>1, <1>2, <1>4, OthersStay
<1>10. SameStore /\ \A v \in User : ToldOf(v)' = ToldOf(v)
  BY <1>2 DEF SameStore, StoredOf, ContentsOf, ToldOf
<1>11. Texts(list) = Abstract!ListOf(p)
  <2>1. \A r \in db.review : r.user \in User
    BY DEF Typed, TypeOK, Tables, ReviewRow
  <2>2. ASSUME NEW x \in Texts(list) PROVE x \in Abstract!ListOf(p)
    <3>1. PICK r \in db.review : /\ r.product = p /\ <<r.user, p>> \in db.star
                                /\ x = [user |-> r.user, content |-> r.content]
      BY <2>2 DEF Texts, Joined, list
    <3>2. r.content \in StoredOf(r.user)[p]
      BY <1>1, <3>1 DEF StoredOf, ContentsOf, ReviewsOf
    <3> QED
      BY <2>1, <3>1, <3>2 DEF Abstract!ListOf
  <2>3. ASSUME NEW x \in Abstract!ListOf(p) PROVE x \in Texts(list)
    <3>1. PICK v \in User : /\ <<v, p>> \in db.star
                           /\ \E c \in StoredOf(v)[p] : x = [user |-> v, content |-> c]
      BY <2>3 DEF Abstract!ListOf
    <3>2. PICK r \in ReviewsOf(db.review, v, p) : x = [user |-> v, content |-> r.content]
      BY <1>1, <3>1 DEF StoredOf, ContentsOf
    <3> QED
      BY <3>1, <3>2 DEF Texts, Joined, list, ReviewsOf
  <2> QED
    BY <2>2, <2>3
<1> QED
  BY <1>7, <1>8, <1>9, <1>10, <1>11, AsTakeEffect DEF SameStore

(* A review is stored, and a list remains what it is. *)
LEMMA CommitTakesEffect ==
  ASSUME Typed, RowsKept, OneEach, OneEach', Promised,
         NEW w \in Worker, Commit(w), UNCHANGED <<req, reply>>
  PROVE  Abstract!Next \/ UNCHANGED Abstract!reviewVars
<1>1. /\ pc[w] = "commit" /\ pc'[w] = "answer" /\ status'[w] = "ok" /\ OthersWait(w)
      /\ TakenEffect(w)'
  BY DEF Commit, Typed, TypeOK, OthersWait, TakenEffect
<1>2. req[w] \in AddCall \cup ListCall
  BY <1>1 DEF Typed, CallsMatch
<1>3. CASE req[w].op = "list"
  <2>1. db' = db
    BY <1>1, <1>3 DEF Promised, WrittenOK, Commit, Seen
  <2>2. SameStore /\ TakenEffect(w)
    BY <1>1, <1>3, <2>1 DEF SameStore, StoredOf, ContentsOf, TakenEffect
  <2> QED
    BY <1>1, <2>2, StepStutters
<1>4. CASE req[w].op = "add"
  <2>1. PICK u \in User, p \in Product : req[w].user = u /\ req[w].product = p
    BY <1>2, <1>4 DEF AddCall, ListCall
  <2>2. db' = work /\ WritesOne(db, work, req[w])
    BY <1>1, <1>4 DEF Promised, WrittenOK, Commit, Seen
  <2>3. ~TakenEffect(w)
    BY <1>1, <1>4 DEF TakenEffect
  <2>4. Asking(req[w]) = [op |-> "add", product |-> p, content |-> req[w].content]
    BY <1>4, <2>1 DEF Asking
  <2>5. /\ PhaseOf(u) = "asked" /\ AskedOf(u) = Asking(req[w]) /\ ResultOf(u) = {}
        /\ PhaseOf(u)' = "done" /\ AskedOf(u)' = AskedOf(u) /\ ResultOf(u)' = {}
    BY <1>1, <1>4, <2>1, <2>3, Served, ServedNext
  <2>6. \A v \in User \ {u} : SamePlace(v)
    BY <1>1, <2>1, OthersStay
  <2>7. db'.star = db.star /\ \A v \in User : ToldOf(v)' = ToldOf(v)
    BY <2>2 DEF WritesOne, ToldOf
  <2>8. \A v \in User \ {u} : StoredOf(v)' = StoredOf(v)
    BY <2>1, <2>2 DEF StoredOf, WritesOne
  <2>9. StoredOf(u)' = [StoredOf(u) EXCEPT ![p] = {req[w].content}]
    BY <2>1, <2>2 DEF StoredOf, WritesOne
  <2>10. /\ AskedOf(u).op = "add" /\ AskedOf(u).product = p
         /\ AskedOf(u).content = req[w].content
    BY <2>4, <2>5
  <2> QED
    BY <2>5, <2>6, <2>7, <2>8, <2>9, <2>10, AsTakeEffect
<1> QED
  BY <1>2, <1>3, <1>4 DEF AddCall, ListCall

(* An answer ends the request it is for, with the list or without. *)
LEMMA DeliverAnswers ==
  ASSUME Typed, OneEach, OneEach', Promised, NEW w \in Worker, Deliver(w)
  PROVE  Abstract!Next
<1>1. /\ pc[w] = "answer" /\ pc'[w] = "idle" /\ UNCHANGED db /\ OthersWait(w)
      /\ status[w] \in {"ok", "error"}
  BY DEF Deliver, Respond, tableVars, Typed, TypeOK, OthersWait, Promised, AnswersOK
<1>2. req[w] \in AddCall \cup ListCall
  BY <1>1 DEF Typed, CallsMatch
<1>3. PICK u \in User : req[w].user = u
  BY <1>2 DEF AddCall, ListCall
<1>4. \A v \in Worker : pc'[v] # "idle" => req'[v].user # u
  BY <1>1, <1>3 DEF OneEach, InProgress, OthersWait
<1>5. PhaseOf(u)' = "idle" /\ AskedOf(u)' = Abstract!NoRequest /\ ResultOf(u)' = {}
  BY <1>4, UnservedNext DEF NoCall, Abstract!NoRequest
<1>6. \A v \in User \ {u} : SamePlace(v)
  BY <1>1, <1>3, OthersStay
<1>7. SameStore
  BY <1>1 DEF SameStore, StoredOf, ContentsOf
<1>8. /\ \A v \in User \ {u} : ToldOf(v)' = ToldOf(v)
      /\ reply'[u].status = status[w]
      /\ reply'[u].list = IF status[w] = "ok" /\ req[w].op = "list" THEN req[w].list ELSE {}
  BY <1>3 DEF Deliver, Typed, TypeOK, ToldOf
<1>9. Texts({}) = {}
  BY DEF Texts
<1>10. CASE status[w] = "ok"
  <2>1. TakenEffect(w)
    BY <1>1, <1>10 DEF TakenEffect
  <2>2. PhaseOf(u) = "done" /\ ToldOf(u)' = [status |-> "ok", list |-> ResultOf(u)]
    BY <1>1, <1>3, <1>8, <1>9, <1>10, <2>1, Served DEF ToldOf
  <2> QED
    BY <1>5, <1>6, <1>7, <1>8, <2>2, AsAnswer
<1>11. CASE status[w] = "error"
  <2>1. ~TakenEffect(w)
    BY <1>1, <1>11 DEF TakenEffect
  <2>2. PhaseOf(u) = "asked" /\ ToldOf(u)' = [status |-> "error", list |-> {}]
    BY <1>1, <1>3, <1>8, <1>9, <1>11, <2>1, Served DEF ToldOf
  <2> QED
    BY <1>5, <1>6, <1>7, <1>8, <2>2, AsAnswer
<1> QED
  BY <1>1, <1>10, <1>11

(* Rating a product is Rate. *)
LEMMA RateRates ==
  ASSUME Typed, NEW u \in User, NEW p \in Product, RateProduct(u, p)
  PROVE  Abstract!Next
<1>1. /\ db'.star = db.star \cup {<<u, p>>} /\ db'.review = db.review
      /\ UNCHANGED <<pc, status, req, reply>>
  BY DEF RateProduct, Typed, TypeOK, Tables
<1>2. \A v \in User : StoredOf(v)' = StoredOf(v) /\ ToldOf(v)' = ToldOf(v)
  BY <1>1 DEF StoredOf, ContentsOf, ToldOf
<1>3. \A v \in User : Serving(v)' = Serving(v)
  BY <1>1 DEF Serving, InProgress
<1>4. \A v \in User : TheWorker(v)' = TheWorker(v)
  BY <1>3 DEF TheWorker
<1>5. \A v \in User : SamePlace(v)
  BY <1>1, <1>3, <1>4 DEF SamePlace, PhaseOf, AskedOf, ResultOf, TakenEffect
<1> QED
  BY <1>1, <1>2, <1>5 DEF SamePlace, Abstract!Next, Abstract!Rate

(* The death of the server process is LoseAnswers. *)
LEMMA CrashLoses ==
  ASSUME Typed, ServerCrash
  PROVE  Abstract!Next
<1>1. UNCHANGED db /\ \A w \in Worker : pc'[w] = "idle"
  BY DEF ServerCrash, Crash
<1>2. \A u \in User : StoredOf(u)' = StoredOf(u)
  BY <1>1 DEF StoredOf, ContentsOf
<1>3. \A u \in User : /\ PhaseOf(u)' = "idle" /\ AskedOf(u)' = Abstract!NoRequest
                      /\ ResultOf(u)' = {}
  BY <1>1, UnservedNext DEF NoCall, Abstract!NoRequest
<1>4. ASSUME NEW u \in User
      PROVE  ToldOf(u)' = IF PhaseOf(u) = "idle" THEN ToldOf(u)
                          ELSE [status |-> "lost", list |-> {}]
  <2>1. PhaseOf(u) = "idle" <=> ~ \E w \in Worker : InProgress(w) /\ req[w].user = u
    BY DEF PhaseOf, Serving
  <2>2. Texts({}) = {}
    BY DEF Texts
  <2>3. CASE \E w \in Worker : InProgress(w) /\ req[w].user = u
    <3>1. reply'[u] = [status |-> "lost", list |-> {}]
      BY <2>3 DEF ServerCrash
    <3> QED
      BY <2>1, <2>2, <2>3, <3>1 DEF ToldOf
  <2>4. CASE ~ \E w \in Worker : InProgress(w) /\ req[w].user = u
    <3>1. reply'[u] = reply[u]
      BY <2>4 DEF ServerCrash
    <3> QED
      BY <2>1, <2>4, <3>1 DEF ToldOf
  <2> QED
    BY <2>3, <2>4
<1> QED
  BY <1>1, <1>2, <1>3, <1>4 DEF Abstract!Next, Abstract!LoseAnswers

-----------------------------------------------------------------------------
(* Requests of users who wait take effect at one instant, a list shows what *)
(* is stored then, and a review replaces none of somebody else.             *)
THEOREM ReviewSpecIsImplemented ==
  Overlap = FALSE /\ CommitMayFail = FALSE /\ Spec => ImplementsReviewSpec
<1> SUFFICES ASSUME Overlap = FALSE, CommitMayFail = FALSE
             PROVE  Spec => ImplementsReviewSpec
  OBVIOUS
<1>1. Init => Abstract!Init
  <2> SUFFICES ASSUME Init PROVE Abstract!Init
    OBVIOUS
  <2>1. /\ db.review = {} /\ db.star = {} /\ \A w \in Worker : pc[w] = "idle"
        /\ reply = [u \in User |-> NoReply]
    BY DEF Init, ServerInit
  <2>2. \A u \in User : /\ PhaseOf(u) = "idle" /\ AskedOf(u) = Abstract!NoRequest
                        /\ ResultOf(u) = {}
    BY <2>1, Unserved DEF NoCall, Abstract!NoRequest
  <2>3. \A u \in User : StoredOf(u) = [p \in Product |-> {}]
    BY <2>1 DEF StoredOf, ContentsOf, ReviewsOf
  <2>4. \A u \in User : ToldOf(u) = Abstract!NoReply
    BY <2>1 DEF ToldOf, NoReply, Texts, Abstract!NoReply
  <2> QED
    BY <2>1, <2>2, <2>3, <2>4 DEF Abstract!Init
<1>2. Typed /\ RowsKept /\ OneRow /\ OneRow' /\ Promised /\ [Next]_vars
        => [Abstract!Next]_(Abstract!reviewVars)
  <2> SUFFICES ASSUME Typed, RowsKept, OneRow, OneRow', Promised, [Next]_vars
               PROVE  Abstract!Next \/ UNCHANGED Abstract!reviewVars
    OBVIOUS
  <2>0. OneEach /\ OneEach' /\ pc \in [Worker -> Labels] /\ req \in [Worker -> Call]
    BY DEF OneRow, Typed, TypeOK
  <2>1. ASSUME NEW w \in Worker, NEW u \in User, Click(w, u) PROVE Abstract!Next
    BY <2>0, <2>1, ClickAsks
  <2>2. ASSUME NEW w \in Worker, LookupReview(w) PROVE UNCHANGED Abstract!reviewVars
    <3>1. req[w] \in AddCall
      BY <2>2 DEF LookupReview, Typed, CallsMatch
    <3>2. PICK i : req' = [req EXCEPT ![w].row = i]
      BY <2>2 DEF LookupReview
    <3>3. /\ req'[w].op = "add" /\ req[w].op = "add" /\ req'[w].user = req[w].user
          /\ Asking(req'[w]) = Asking(req[w])
      BY <2>0, <3>1, <3>2 DEF AddCall, Asking
    <3>4. /\ pc[w] = "lookup" /\ pc'[w] = "write" /\ OthersWait(w)
          /\ UNCHANGED <<db, reply>>
      BY <2>0, <2>2, <3>2 DEF LookupReview, Read, Goto, tableVars, OthersWait
    <3>5. SameStore /\ ~TakenEffect(w) /\ ~TakenEffect(w)'
      BY <3>4 DEF SameStore, StoredOf, ContentsOf, TakenEffect
    <3> QED
      BY <2>0, <3>3, <3>4, <3>5, StepStutters
  <2>3. ASSUME NEW w \in Worker, WriteReview(w) PROVE UNCHANGED Abstract!reviewVars
    <3>1. req[w].op = "add"
      BY <2>3 DEF WriteReview, Typed, CallsMatch, AddCall
    <3>2. /\ pc[w] = "write" /\ pc'[w] = "commit" /\ OthersWait(w)
          /\ UNCHANGED <<db, req, reply>>
      BY <2>0, <2>3 DEF WriteReview, Write, Goto, OthersWait
    <3>3. SameStore /\ ~TakenEffect(w) /\ ~TakenEffect(w)'
      BY <3>1, <3>2 DEF SameStore, StoredOf, ContentsOf, TakenEffect
    <3> QED
      BY <2>0, <3>2, <3>3, StepStutters
  <2>4. ASSUME NEW w \in Worker, SelectReviews(w) PROVE Abstract!Next
    BY <2>0, <2>4, SelectTakesEffect
  <2>5. ASSUME NEW w \in Worker, Finish(w)
        PROVE  Abstract!Next \/ UNCHANGED Abstract!reviewVars
    <3>1. CASE Commit(w)
      BY <2>0, <2>5, <3>1, CommitTakesEffect DEF Finish
    <3>2. CASE LockTimeout(w, Writes)
      <4>1. /\ pc[w] \notin {"idle", "commit", "answer"} /\ pc'[w] = "answer"
            /\ status'[w] = "error" /\ OthersWait(w) /\ UNCHANGED <<db, req, reply>>
        BY <2>0, <2>5, <3>2
        DEF Finish, LockTimeout, InHandler, Fail, Rollback, OthersWait, Typed, TypeOK
      <4>2. SameStore /\ ~TakenEffect(w) /\ ~TakenEffect(w)'
        BY <4>1 DEF SameStore, StoredOf, ContentsOf, TakenEffect
      <4> QED
        BY <2>0, <4>1, <4>2, StepStutters
    <3> QED
      BY <2>5, <3>1, <3>2 DEF Finish, CommitFails
  <2>6. ASSUME NEW w \in Worker, Deliver(w) PROVE Abstract!Next
    BY <2>0, <2>6, DeliverAnswers
  <2>7. ASSUME NEW u \in User, NEW p \in Product, RateProduct(u, p) PROVE Abstract!Next
    BY <2>7, RateRates
  <2>8. ASSUME ServerCrash PROVE Abstract!Next
    BY <2>8, CrashLoses
  <2>9. CASE UNCHANGED vars
    <3>1. UNCHANGED <<db, pc, status, req, reply>>
      BY <2>9 DEF vars, serverVars
    <3>2. \A v \in User : Serving(v)' = Serving(v)
      BY <3>1 DEF Serving, InProgress
    <3>3. \A v \in User : TheWorker(v)' = TheWorker(v)
      BY <3>2 DEF TheWorker
    <3>4. \A v \in User : SamePlace(v) /\ ToldOf(v)' = ToldOf(v)
      BY <3>1, <3>2, <3>3 DEF SamePlace, PhaseOf, AskedOf, ResultOf, TakenEffect, ToldOf
    <3>5. SameStore
      BY <3>1 DEF SameStore, StoredOf, ContentsOf
    <3> QED
      BY <3>4, <3>5, AsStutter
  <2> QED
    BY <2>1, <2>2, <2>3, <2>4, <2>5, <2>6, <2>7, <2>8, <2>9
    DEF Next, Serve, Handler, Done
<1> QED
  BY <1>1, <1>2, Typing, RowsKeptInvariant, OneRowInvariant, PromisedInvariant, PTL
  DEF Spec, ImplementsReviewSpec, Abstract!Spec
=============================================================================
