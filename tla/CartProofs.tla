---------------------------- MODULE CartProofs ----------------------------
(* Theorems about Cart, for every set of users, products, quantities and    *)
(* workers and every bound on the requests.                                 *)
EXTENDS Cart, TLAPS

(* The arguments of a handler are those of its operation. *)
CallsMatch ==
  \A w \in Worker :
    /\ pc[w] \in {"lookup", "write"} => req[w] \in AddCall
    /\ pc[w] \in {"select", "items"} => req[w] \in ListCall
    /\ pc[w] = "clear" => req[w] \in ClearCall
    /\ pc[w] # "idle" => req[w] \in AddCall \cup ListCall \cup ClearCall

Typed == TypeOK /\ CallsMatch

-----------------------------------------------------------------------------
(* What the statements of the handlers do to tables of the right type. *)
LEMMA SeenType ==
  ASSUME TypeOK, NEW w \in Worker
  PROVE  Seen(w) \in Tables
BY DEF TypeOK, Seen

(* Setting the quantity of a row keeps the type of the tables. *)
LEMMA UpdateRowType ==
  ASSUME NEW t \in Tables, NEW call \in AddCall
  PROVE  UpdateRow(t, call) \in Tables
<1>1. \A r \in t.cart : RowFor(r.id, call) \in CartRow
  BY DEF RowFor, Tables, CartRow, AddCall
<1>2. {IF r.id = call.row THEN RowFor(r.id, call) ELSE r : r \in t.cart}
        \in SUBSET CartRow
  BY <1>1 DEF Tables
<1> QED
  BY <1>2 DEF UpdateRow, Tables

(* Inserting a row keeps the type of the tables. *)
LEMMA InsertRowType ==
  ASSUME NEW t \in Tables, NEW call \in AddCall
  PROVE  InsertRow(t, call) \in Tables
<1>1. RowFor(t.nextCart, call) \in CartRow
  BY DEF RowFor, Tables, CartRow, AddCall
<1>2. t.nextCart + 1 \in RowId
  BY DEF Tables, RowId, NoRow
<1> QED
  BY <1>1, <1>2 DEF InsertRow, Tables

(* Deleting the cart of a user keeps the type of the tables. *)
LEMMA DeleteRowsType ==
  ASSUME NEW t \in Tables, NEW u
  PROVE  [t EXCEPT !.cart = {r \in @ : r.user # u}] \in Tables
BY DEF Tables

(* The steps of the server, one lemma for those that leave req and reply to *)
(* the handlers.                                                            *)
LEMMA WriteType ==
  ASSUME TypeOK, NEW w \in Worker, NEW t \in Tables, NEW label \in Labels,
         Write(w, t, label)
  PROVE  /\ db' \in Tables /\ work' \in Tables
         /\ writer' \in Worker \cup {NoWorker}
         /\ pc' \in [Worker -> Labels] /\ status' \in [Worker -> Status]
         /\ accepted' \in Nat
BY DEF TypeOK, Write, Goto

(* A handler that fails leaves everything but the calls well typed. *)
LEMMA FailType ==
  ASSUME TypeOK, NEW w \in Worker, Fail(w)
  PROVE  /\ db' \in Tables /\ work' \in Tables
         /\ writer' \in Worker \cup {NoWorker}
         /\ pc' \in [Worker -> Labels] /\ status' \in [Worker -> Status]
         /\ accepted' \in Nat
BY DEF TypeOK, Fail, Rollback, Labels, Status

(* Every variable keeps its type, and a worker at a step of a handler has   *)
(* the arguments of that handler.                                           *)
THEOREM Typing == Spec => []Typed
<1> USE DEF Typed
<1>1. Init => Typed
  <2> SUFFICES ASSUME Init PROVE Typed
    OBVIOUS
  <2>1. [product |-> Product, cart |-> {}, nextCart |-> 1] \in Tables
    BY DEF Tables, RowId, NoRow
  <2>2. TypeOK
    BY <2>1 DEF Init, ServerInit, TypeOK, Labels, Status, Call, NoCall, Reply,
       NoReply
  <2>3. CallsMatch
    BY DEF Init, ServerInit, CallsMatch
  <2> QED
    BY <2>2, <2>3
<1>2. Typed /\ [Next]_vars => Typed'
  <2> SUFFICES ASSUME Typed, [Next]_vars PROVE Typed'
    OBVIOUS
  <2>1. ASSUME NEW w \in Worker, NEW u \in User, Click(w, u) PROVE Typed'
    <3>1. ASSUME NEW label \in {"lookup", "select", "clear"}, NEW call \in Call,
                 Submit(w, u, label, call),
                 label = "lookup" => call \in AddCall,
                 label = "select" => call \in ListCall,
                 label = "clear" => call \in ClearCall
          PROVE  Typed'
      <4>1. TypeOK'
        BY <3>1 DEF TypeOK, Submit, Accept, tableVars, Labels, Reply, NoReply,
           Status
      <4>2. CallsMatch'
        BY <3>1 DEF TypeOK, CallsMatch, Submit, Accept, Labels
      <4> QED
        BY <4>1, <4>2
    <3>2. CASE \E p \in Product, q \in Quantity : AddToCart(w, u, p, q)
      BY <3>1, <3>2 DEF AddToCart, AddCall, Call, NoRow
    <3>3. CASE GetCartList(w, u)
      BY <3>1, <3>3 DEF GetCartList, ListCall, Call
    <3>4. CASE DeleteCartList(w, u)
      BY <3>1, <3>4 DEF DeleteCartList, ClearCall, Call
    <3> QED
      BY <2>1, <3>2, <3>3, <3>4 DEF Click
  <2>2. ASSUME NEW w \in Worker, LookupRow(w) PROVE Typed'
    <3>1. req[w] \in AddCall
      BY <2>2 DEF LookupRow, CallsMatch
    <3>2. \A i \in SomeRow(RowsOf(Seen(w).cart, req[w].user, req[w].product)) :
            i \in Nat
      BY SeenType DEF SomeRow, RowsOf, Tables, CartRow, RowId, NoRow
    <3>3. PICK i \in Nat : req' = [req EXCEPT ![w].row = i]
      BY <2>2, <3>2 DEF LookupRow
    <3>4. [req[w] EXCEPT !.row = i] \in AddCall
      BY <3>1 DEF AddCall
    <3>5. /\ req' \in [Worker -> Call] /\ req'[w] \in AddCall
          /\ \A v \in Worker \ {w} : req'[v] = req[v]
      BY <3>3, <3>4 DEF TypeOK, Call
    <3>6. TypeOK'
      BY <2>2, <3>5 DEF TypeOK, LookupRow, Read, Goto, tableVars, Labels
    <3>7. CallsMatch'
      BY <2>2, <3>5 DEF TypeOK, CallsMatch, LookupRow, Read, Goto
    <3> QED
      BY <3>6, <3>7
  <2>3. ASSUME NEW w \in Worker, WriteRow(w) PROVE Typed'
    <3>1. req[w] \in AddCall
      BY <2>3 DEF WriteRow, CallsMatch
    <3>2. PICK t \in Tables : Write(w, t, "commit")
      BY <2>3, <3>1, SeenType, UpdateRowType, InsertRowType DEF WriteRow
    <3>3. TypeOK'
      BY <2>3, <3>2, WriteType DEF TypeOK, WriteRow, Labels
    <3>4. CallsMatch'
      BY <2>3, <3>2 DEF TypeOK, CallsMatch, WriteRow, Write, Goto
    <3> QED
      BY <3>3, <3>4
  <2>4. ASSUME NEW w \in Worker, SelectRows(w) PROVE Typed'
    <3> DEFINE rows == {r \in Seen(w).cart : r.user = req[w].user}
    <3>1. req[w] \in ListCall /\ rows \subseteq CartRow
      BY <2>4, SeenType DEF SelectRows, CallsMatch, Tables
    <3>2. [req[w] EXCEPT !.todo = rows] \in ListCall
      BY <3>1 DEF ListCall
    <3>3. /\ req' \in [Worker -> Call] /\ req'[w] \in ListCall
          /\ \A v \in Worker \ {w} : req'[v] = req[v]
      BY <2>4, <3>2 DEF SelectRows, TypeOK, Call
    <3>4. Rest(rows) \in {"commit", "items"}
      BY DEF Rest
    <3>5. TypeOK'
      BY <2>4, <3>3, <3>4 DEF TypeOK, SelectRows, Read, Goto, tableVars, Labels
    <3>6. CallsMatch'
      BY <2>4, <3>3, <3>4 DEF TypeOK, CallsMatch, SelectRows, Read, Goto
    <3> QED
      BY <3>5, <3>6
  <2>5. ASSUME NEW w \in Worker, SelectItem(w) PROVE Typed'
    <3>1. req[w] \in ListCall /\ UNCHANGED reply
      BY <2>5 DEF SelectItem, CallsMatch
    <3>2. PICK row \in req[w].todo :
            \/ /\ req' = [req EXCEPT ![w].todo = @ \ {row},
                                     ![w].list = @ \cup {row}]
               /\ Read(w, Rest(req[w].todo \ {row}))
            \/ Fail(w) /\ UNCHANGED req
      BY <2>5 DEF SelectItem
    <3>3. CASE Fail(w) /\ UNCHANGED req
      BY <3>1, <3>3, FailType DEF TypeOK, CallsMatch, Fail
    <3>4. CASE /\ req' = [req EXCEPT ![w].todo = @ \ {row},
                                     ![w].list = @ \cup {row}]
               /\ Read(w, Rest(req[w].todo \ {row}))
      <4>1. [req[w] EXCEPT !.todo = @ \ {row}, !.list = @ \cup {row}] \in ListCall
        BY <3>1, <3>2 DEF ListCall
      <4>2. /\ req' \in [Worker -> Call] /\ req'[w] \in ListCall
            /\ \A v \in Worker \ {w} : req'[v] = req[v]
        BY <3>4, <4>1 DEF TypeOK, Call
      <4>3. Rest(req[w].todo \ {row}) \in {"commit", "items"}
        BY DEF Rest
      <4>4. TypeOK'
        BY <3>1, <3>4, <4>2, <4>3 DEF TypeOK, Read, Goto, tableVars, Labels
      <4>5. CallsMatch'
        BY <3>4, <4>2, <4>3 DEF TypeOK, CallsMatch, Read, Goto
      <4> QED
        BY <4>4, <4>5
    <3> QED
      BY <3>2, <3>3, <3>4
  <2>6. ASSUME NEW w \in Worker, DeleteRows(w) PROVE Typed'
    <3>1. PICK t \in Tables : Write(w, t, "commit")
      BY <2>6, SeenType, DeleteRowsType DEF DeleteRows
    <3>2. TypeOK'
      BY <2>6, <3>1, WriteType DEF TypeOK, DeleteRows, Labels
    <3>3. CallsMatch'
      BY <2>6, <3>1 DEF TypeOK, CallsMatch, DeleteRows, Write, Goto
    <3> QED
      BY <3>2, <3>3
  <2>7. ASSUME NEW w \in Worker, Finish(w) PROVE Typed'
    <3>1. CASE Commit(w)
      BY <2>7, <3>1, SeenType
      DEF Finish, TypeOK, CallsMatch, Commit, Labels, Status
    <3>2. CASE CommitFails(w)
      BY <2>7, <3>2
      DEF Finish, TypeOK, CallsMatch, CommitFails, Rollback, Labels, Status
    <3>3. CASE LockTimeout(w, Writes)
      BY <2>7, <3>3, FailType
      DEF Finish, TypeOK, CallsMatch, LockTimeout, InHandler, Fail
    <3> QED
      BY <2>7, <3>1, <3>2, <3>3 DEF Finish
  <2>8. ASSUME NEW w \in Worker, Deliver(w) PROVE Typed'
    <3>1. req[w] \in AddCall \cup ListCall \cup ClearCall
      BY <2>8 DEF Deliver, Respond, CallsMatch
    <3>2. Listed(w) \subseteq CartRow
      BY <3>1 DEF Listed, AddCall, ListCall, ClearCall
    <3>3. [status |-> status[w],
           list |-> IF status[w] = "ok" THEN Listed(w) ELSE {}] \in Reply
      BY <3>2 DEF TypeOK, Reply
    <3>4. reply' \in [User -> Reply]
      BY <2>8, <3>3 DEF TypeOK, Deliver
    <3>5. TypeOK'
      BY <2>8, <3>4
      DEF TypeOK, Deliver, Respond, tableVars, Labels, Status, Call, NoCall
    <3>6. CallsMatch'
      BY <2>8 DEF TypeOK, CallsMatch, Deliver, Respond
    <3> QED
      BY <3>5, <3>6
  <2>9. ASSUME NEW p \in Product, DeleteProduct(p) PROVE Typed'
    <3>1. db' \in Tables
      BY <2>9 DEF TypeOK, DeleteProduct, Tables
    <3> QED
      BY <2>9, <3>1 DEF TypeOK, CallsMatch, DeleteProduct
  <2>10. ASSUME ServerCrash PROVE Typed'
    <3>1. reply' \in [User -> Reply]
      BY <2>10 DEF TypeOK, ServerCrash, Reply
    <3> QED
      BY <2>10, <3>1
      DEF TypeOK, CallsMatch, ServerCrash, Crash, Labels, Status, Call, NoCall
  <2>11. CASE UNCHANGED vars
    BY <2>11 DEF TypeOK, CallsMatch, vars, serverVars
  <2> QED
    BY <2>1, <2>2, <2>3, <2>4, <2>5, <2>6, <2>7, <2>8, <2>9, <2>10, <2>11
    DEF Next, Serve, Handler, Done
<1> QED
  BY <1>1, <1>2, PTL DEF Spec

(* The tables, the calls and the replies have the types of Cart, for every  *)
(* instance: no interleaving brings a handler to a step it has no arguments *)
(* for, or a row without an owner into a table.                             *)
THEOREM TypesAreKept == Spec => []TypeOK
BY Typing, PTL DEF Typed

-----------------------------------------------------------------------------
(* Rows keep their owner.  The holder of the write lock has written and     *)
(* waits to commit; nobody else's tables differ from the committed ones.    *)
LockOK ==
  /\ writer = NoWorker => work = db
  /\ \A w \in Worker : writer = w => pc[w] = "commit"

(* Ids are below the next id, and no two rows share one. *)
IdsOK(t) ==
  /\ \A r \in t.cart : r.id < t.nextCart
  /\ \A r, s \in t.cart : r.id = s.id => r = s

(* The id add_to_cart has looked up is, for as long as there is a row with  *)
(* it, the id of a row of this user and product: ids are not used again.    *)
FoundOK ==
  \A w \in Worker :
    pc[w] = "write" /\ req[w].row # NoRow =>
      /\ req[w].row < db.nextCart
      /\ \A r \in db.cart :
           r.id = req[w].row => r.user = req[w].user /\ r.product = req[w].product

(* What the holder of the lock has done: ids only grow, a row that keeps    *)
(* its id keeps its owner and product, and the rows of others are the same. *)
WorkOK ==
  /\ db.nextCart <= work.nextCart
  /\ \A r \in work.cart :
       r.id < db.nextCart =>
         \E s \in db.cart : s.id = r.id /\ s.user = r.user /\ s.product = r.product
  /\ \A w \in Worker :
       writer = w =>
         \A u \in User \ {req[w].user} :
           {r \in db.cart : r.user = u} = {r \in work.cart : r.user = u}

RowsKept == LockOK /\ IdsOK(db) /\ IdsOK(work) /\ FoundOK /\ WorkOK

(* A write of a handler, seen as a step from the tables t it sees: the      *)
(* tables t2 it leaves keep ids and owners.                                 *)
KeepsRows(t, t2, user) ==
  /\ t.nextCart <= t2.nextCart
  /\ IdsOK(t2)
  /\ \A r \in t2.cart :
       r.id < t.nextCart =>
         \E s \in t.cart : s.id = r.id /\ s.user = r.user /\ s.product = r.product
  /\ \A u \in User \ {user} :
       {r \in t.cart : r.user = u} = {r \in t2.cart : r.user = u}

(* Setting the quantity of a row of a user touches rows of this user only. *)
LEMMA UpdateKeepsRows ==
  ASSUME NEW t \in Tables, NEW call \in AddCall, IdsOK(t),
         \A r \in t.cart :
           r.id = call.row => r.user = call.user /\ r.product = call.product
  PROVE  KeepsRows(t, UpdateRow(t, call), call.user)
<1> DEFINE new(r) == IF r.id = call.row THEN RowFor(r.id, call) ELSE r
           t2 == UpdateRow(t, call)
<1>1. t2.cart = {new(r) : r \in t.cart} /\ t2.nextCart = t.nextCart
  BY DEF UpdateRow, Tables
<1>2. \A r \in t.cart :
        new(r).id = r.id /\ new(r).user = r.user /\ new(r).product = r.product
  BY DEF RowFor
<1>3. IdsOK(t2)
  BY <1>1, <1>2 DEF IdsOK
<1>4. ASSUME NEW u \in User \ {call.user}
      PROVE  {r \in t.cart : r.user = u} = {r \in t2.cart : r.user = u}
  <2>1. \A r \in t.cart : r.user = u => new(r) = r
    OBVIOUS
  <2> HIDE DEF t2, new
  <2> QED
    BY <1>1, <1>2, <2>1
<1>5. t.nextCart \in Nat
  BY DEF Tables, RowId
<1> QED
  BY <1>1, <1>2, <1>3, <1>4, <1>5 DEF KeepsRows

(* Inserting a row for a user touches rows of this user only, and takes a   *)
(* new id.                                                                  *)
LEMMA InsertKeepsRows ==
  ASSUME NEW t \in Tables, NEW call \in AddCall, IdsOK(t)
  PROVE  KeepsRows(t, InsertRow(t, call), call.user)
<1> DEFINE new == RowFor(t.nextCart, call)
           t2 == InsertRow(t, call)
<1>1. t2.cart = t.cart \cup {new} /\ t2.nextCart = t.nextCart + 1
  BY DEF InsertRow, Tables
<1>2. new.id = t.nextCart /\ new.user = call.user
  BY DEF RowFor
<1>3. t.nextCart \in Nat /\ \A r \in t.cart : r.id \in Nat
  BY DEF Tables, RowId, CartRow
<1>4. IdsOK(t2)
  BY <1>1, <1>2, <1>3 DEF IdsOK
<1> HIDE DEF new, t2
<1>5. KeepsRows(t, t2, call.user)
  BY <1>1, <1>2, <1>3, <1>4 DEF KeepsRows
<1> QED
  BY <1>5 DEF t2

(* Deleting the cart of a user touches rows of this user only. *)
LEMMA DeleteKeepsRows ==
  ASSUME NEW t \in Tables, NEW user, IdsOK(t)
  PROVE  KeepsRows(t, [t EXCEPT !.cart = {r \in @ : r.user # user}], user)
<1> DEFINE t2 == [t EXCEPT !.cart = {r \in @ : r.user # user}]
<1>1. t2.cart = {r \in t.cart : r.user # user} /\ t2.nextCart = t.nextCart
  BY DEF Tables
<1>2. t.nextCart \in Nat
  BY DEF Tables, RowId
<1> HIDE DEF t2
<1>3. IdsOK(t2)
  BY <1>1, <1>2 DEF IdsOK
<1>4. KeepsRows(t, t2, user)
  BY <1>1, <1>2, <1>3 DEF KeepsRows
<1> QED
  BY <1>4 DEF t2

(* A write keeps RowsKept, whatever it writes, when it keeps the rows. *)
LEMMA WriteKeepsRows ==
  ASSUME Typed, RowsKept, NEW w \in Worker, NEW t2 \in Tables,
         pc[w] \notin {"commit", "idle"}, UNCHANGED req,
         Write(w, t2, "commit"), KeepsRows(Seen(w), t2, req[w].user)
  PROVE  RowsKept'
<1>1. writer = NoWorker /\ work = db /\ Seen(w) = db
  BY WorkerAssumption DEF Write, RowsKept, LockOK, Seen
<1>2. db' = db /\ work' = t2 /\ writer' = w
  BY DEF Write
<1>3. pc' = [pc EXCEPT ![w] = "commit"] /\ pc \in [Worker -> Labels]
  BY DEF Write, Goto, Typed, TypeOK
<1>4. LockOK'
  BY <1>2, <1>3, WorkerAssumption DEF LockOK
<1>5. IdsOK(db)' /\ IdsOK(work)'
  BY <1>1, <1>2 DEF IdsOK, KeepsRows, RowsKept
<1>6. FoundOK'
  BY <1>2, <1>3 DEF FoundOK, RowsKept
<1>7. WorkOK'
  BY <1>1, <1>2, WorkerAssumption DEF WorkOK, KeepsRows
<1> QED
  BY <1>4, <1>5, <1>6, <1>7 DEF RowsKept

(* A step of worker w that leaves the tables alone.                         *)
LEMMA QuietKeepsRows ==
  ASSUME Typed, RowsKept, NEW w \in Worker, pc[w] # "commit",
         UNCHANGED tableVars,
         \A v \in Worker \ {w} : pc'[v] = pc[v] /\ req'[v] = req[v],
         pc'[w] = "write" /\ req'[w].row # NoRow =>
           \E r \in db.cart : /\ r.id = req'[w].row
                              /\ r.user = req'[w].user
                              /\ r.product = req'[w].product
  PROVE  RowsKept'
<1> USE DEF tableVars
<1>1. writer # w
  BY DEF RowsKept, LockOK
<1>2. LockOK'
  BY <1>1 DEF RowsKept, LockOK
<1>3. IdsOK(db)' /\ IdsOK(work)'
  BY DEF RowsKept, IdsOK
<1>4. FoundOK'
  <2>1. CASE pc'[w] = "write" /\ req'[w].row # NoRow
    BY <2>1 DEF RowsKept, FoundOK, IdsOK
  <2>2. CASE ~(pc'[w] = "write" /\ req'[w].row # NoRow)
    BY <2>2 DEF RowsKept, FoundOK
  <2> QED
    BY <2>1, <2>2
<1>5. WorkOK'
  BY <1>1 DEF RowsKept, WorkOK
<1> QED
  BY <1>2, <1>3, <1>4, <1>5 DEF RowsKept

(* A step that gives up the lock without committing, or does not hold it:   *)
(* everybody's view is the committed tables, or as before.                  *)
LEMMA RollbackKeepsRows ==
  ASSUME Typed, RowsKept, NEW w \in Worker, Rollback(w), UNCHANGED req,
         pc' = [pc EXCEPT ![w] = "answer"]
  PROVE  RowsKept'
<1>1. pc \in [Worker -> Labels] /\ db \in Tables
  BY DEF Typed, TypeOK
<1>2. LockOK'
  BY <1>1, WorkerAssumption DEF Rollback, RowsKept, LockOK
<1>3. IdsOK(db)' /\ IdsOK(work)'
  BY DEF Rollback, RowsKept, IdsOK
<1>4. FoundOK'
  BY <1>1 DEF Rollback, RowsKept, FoundOK
<1>5. WorkOK'
  <2>1. db.nextCart <= db.nextCart
    BY <1>1 DEF Tables, RowId
  <2>2. CASE writer = w
    BY <2>1, <2>2, WorkerAssumption DEF Rollback, WorkOK
  <2>3. CASE writer # w
    BY <2>3 DEF Rollback, RowsKept, WorkOK
  <2> QED
    BY <2>2, <2>3
<1> QED
  BY <1>2, <1>3, <1>4, <1>5 DEF RowsKept

(* A commit keeps the invariant: what the holder of the lock has written    *)
(* becomes what all others read.                                            *)
LEMMA CommitKeepsRows ==
  ASSUME Typed, RowsKept, NEW w \in Worker, Commit(w), UNCHANGED req
  PROVE  RowsKept'
<1>1. pc \in [Worker -> Labels] /\ db \in Tables /\ work \in Tables
  BY DEF Typed, TypeOK
<1>2. CASE writer = w
  <2>1. db' = work /\ work' = work /\ writer' = NoWorker
    BY <1>2 DEF Commit, Seen
  <2>2. LockOK'
    BY <2>1, WorkerAssumption DEF LockOK
  <2>3. IdsOK(db)' /\ IdsOK(work)'
    BY <2>1 DEF RowsKept, IdsOK
  <2>4. FoundOK'
    <3> SUFFICES ASSUME NEW v \in Worker, pc'[v] = "write", req[v].row # NoRow
                 PROVE  /\ req[v].row < work.nextCart
                        /\ \A r \in work.cart : r.id = req[v].row =>
                             r.user = req[v].user /\ r.product = req[v].product
      BY <2>1 DEF FoundOK
    <3>1. pc[v] = "write" /\ req[v] \in AddCall
      BY <1>1 DEF Commit, Typed, CallsMatch
    <3>2. /\ req[v].row < db.nextCart
          /\ \A r \in db.cart : r.id = req[v].row =>
               r.user = req[v].user /\ r.product = req[v].product
      BY <3>1 DEF RowsKept, FoundOK
    <3>3. req[v].row \in Nat /\ db.nextCart \in Nat /\ work.nextCart \in Nat
      BY <1>1, <3>1 DEF AddCall, Tables, RowId
    <3> QED
      BY <3>2, <3>3 DEF RowsKept, WorkOK
  <2>5. WorkOK'
    <3>1. work.nextCart <= work.nextCart
      BY <1>1 DEF Tables, RowId
    <3> QED
      BY <2>1, <3>1, WorkerAssumption DEF WorkOK
  <2> QED
    BY <2>2, <2>3, <2>4, <2>5 DEF RowsKept
<1>3. CASE writer # w
  <2>1. UNCHANGED tableVars
    BY <1>3 DEF Commit, Seen, tableVars
  <2>2. LockOK'
    BY <1>1, <1>3, <2>1 DEF Commit, RowsKept, LockOK, tableVars
  <2>3. FoundOK'
    BY <1>1, <2>1 DEF Commit, RowsKept, FoundOK, tableVars
  <2> QED
    BY <2>1, <2>2, <2>3 DEF RowsKept, IdsOK, WorkOK, tableVars
<1> QED
  BY <1>2, <1>3

(* Ids are never given twice, a row found by a handler that waits to write  *)
(* is a row of its own user and product, and what the holder of the lock    *)
(* has written differs from the committed tables in rows of its user only.  *)
THEOREM RowsKeptInvariant == Spec => []RowsKept
<1>1. Init => RowsKept
  <2> SUFFICES ASSUME Init PROVE RowsKept
    OBVIOUS
  <2>1. /\ db.cart = {} /\ db.nextCart = 1 /\ work = db /\ writer = NoWorker
        /\ \A w \in Worker : pc[w] = "idle"
    BY DEF Init, ServerInit
  <2> QED
    BY <2>1, WorkerAssumption DEF RowsKept, LockOK, IdsOK, FoundOK, WorkOK
<1>2. Typed /\ RowsKept /\ [Next]_vars => RowsKept'
  <2> SUFFICES ASSUME Typed, RowsKept, [Next]_vars PROVE RowsKept'
    OBVIOUS
  <2> USE DEF tableVars
  <2>0. pc \in [Worker -> Labels] /\ req \in [Worker -> Call]
    BY DEF Typed, TypeOK
  <2>1. ASSUME NEW w \in Worker, NEW u \in User, Click(w, u) PROVE RowsKept'
    <3>1. ASSUME NEW label \in {"lookup", "select", "clear"}, NEW call,
                 Submit(w, u, label, call)
          PROVE  RowsKept'
      <4>1. /\ pc[w] # "commit" /\ UNCHANGED tableVars /\ pc'[w] # "write"
            /\ \A v \in Worker \ {w} : pc'[v] = pc[v] /\ req'[v] = req[v]
        BY <2>0, <3>1 DEF Submit, Accept, InProgress
      <4> QED
        BY <4>1, QuietKeepsRows
    <3> QED
      BY <2>1, <3>1 DEF Click, AddToCart, GetCartList, DeleteCartList
  <2>2. ASSUME NEW w \in Worker, LookupRow(w) PROVE RowsKept'
    <3>1. Seen(w) = db
      BY <2>2 DEF LookupRow, RowsKept, LockOK, Seen
    <3>2. PICK i \in SomeRow(RowsOf(db.cart, req[w].user, req[w].product)) :
            req' = [req EXCEPT ![w].row = i]
      BY <2>2, <3>1 DEF LookupRow
    <3>3. req[w] \in AddCall
      BY <2>2 DEF LookupRow, Typed, CallsMatch
    <3>4. /\ req'[w].row = i /\ req'[w].user = req[w].user
          /\ req'[w].product = req[w].product
          /\ \A v \in Worker \ {w} : req'[v] = req[v]
      BY <2>0, <3>2, <3>3 DEF AddCall
    <3>5. i # NoRow =>
            \E r \in db.cart : r.id = i /\ r.user = req[w].user
                                        /\ r.product = req[w].product
      BY <3>2 DEF SomeRow, RowsOf
    <3>6. /\ pc[w] # "commit" /\ UNCHANGED tableVars
          /\ \A v \in Worker \ {w} : pc'[v] = pc[v]
      BY <2>0, <2>2 DEF LookupRow, Read, Goto
    <3> QED
      BY <3>4, <3>5, <3>6, QuietKeepsRows
  <2>3. ASSUME NEW w \in Worker, WriteRow(w) PROVE RowsKept'
    <3>1. req[w] \in AddCall /\ Seen(w) = db /\ db \in Tables /\ IdsOK(db)
      BY <2>3 DEF WriteRow, Typed, TypeOK, CallsMatch, RowsKept, LockOK, Seen
    <3>2. CASE req[w].row # NoRow
      <4>1. KeepsRows(db, UpdateRow(db, req[w]), req[w].user)
        BY <2>3, <3>1, <3>2, UpdateKeepsRows DEF WriteRow, RowsKept, FoundOK
      <4>2. UpdateRow(db, req[w]) \in Tables
        BY <3>1, UpdateRowType
      <4> QED
        BY <2>3, <3>1, <3>2, <4>1, <4>2, WriteKeepsRows DEF WriteRow
    <3>3. CASE req[w].row = NoRow
      <4>1. KeepsRows(db, InsertRow(db, req[w]), req[w].user)
        BY <3>1, InsertKeepsRows
      <4>2. InsertRow(db, req[w]) \in Tables
        BY <3>1, InsertRowType
      <4> QED
        BY <2>3, <3>1, <3>3, <4>1, <4>2, WriteKeepsRows DEF WriteRow
    <3> QED
      BY <3>2, <3>3
  <2>4. ASSUME NEW w \in Worker, SelectRows(w) PROVE RowsKept'
    <3>1. /\ pc[w] # "commit" /\ UNCHANGED tableVars /\ pc'[w] # "write"
          /\ \A v \in Worker \ {w} : pc'[v] = pc[v] /\ req'[v] = req[v]
      BY <2>0, <2>4 DEF SelectRows, Read, Goto, Rest
    <3> QED
      BY <3>1, QuietKeepsRows
  <2>5. ASSUME NEW w \in Worker, SelectItem(w) PROVE RowsKept'
    <3>1. CASE Fail(w) /\ UNCHANGED req
      BY <3>1, RollbackKeepsRows DEF Fail
    <3>2. CASE \E row \in req[w].todo :
                 /\ req' = [req EXCEPT ![w].todo = @ \ {row},
                                       ![w].list = @ \cup {row}]
                 /\ Read(w, Rest(req[w].todo \ {row}))
      <4>1. /\ pc[w] # "commit" /\ UNCHANGED tableVars /\ pc'[w] # "write"
            /\ \A v \in Worker \ {w} : pc'[v] = pc[v] /\ req'[v] = req[v]
        BY <2>0, <2>5, <3>2 DEF SelectItem, Read, Goto, Rest
      <4> QED
        BY <4>1, QuietKeepsRows
    <3> QED
      BY <2>5, <3>1, <3>2 DEF SelectItem
  <2>6. ASSUME NEW w \in Worker, DeleteRows(w) PROVE RowsKept'
    <3>1. Seen(w) = db /\ db \in Tables /\ IdsOK(db)
      BY <2>6 DEF DeleteRows, Typed, TypeOK, RowsKept, LockOK, Seen
    <3> DEFINE t2 == [db EXCEPT !.cart = {r \in @ : r.user # req[w].user}]
    <3>2. KeepsRows(db, t2, req[w].user) /\ t2 \in Tables
      BY <3>1, DeleteKeepsRows, DeleteRowsType
    <3>3. Write(w, t2, "commit") /\ UNCHANGED req /\ pc[w] = "clear"
      BY <2>6, <3>1 DEF DeleteRows
    <3> HIDE DEF t2
    <3> QED
      BY <3>1, <3>2, <3>3, WriteKeepsRows
  <2>7. ASSUME NEW w \in Worker, Finish(w) PROVE RowsKept'
    <3>1. UNCHANGED req
      BY <2>7 DEF Finish
    <3> QED
      BY <2>7, <3>1, CommitKeepsRows, RollbackKeepsRows
      DEF Finish, CommitFails, LockTimeout, Fail
  <2>8. ASSUME NEW w \in Worker, Deliver(w) PROVE RowsKept'
    <3>1. /\ pc[w] # "commit" /\ UNCHANGED tableVars /\ pc'[w] # "write"
          /\ \A v \in Worker \ {w} : pc'[v] = pc[v] /\ req'[v] = req[v]
      BY <2>0, <2>8 DEF Deliver, Respond
    <3> QED
      BY <3>1, QuietKeepsRows
  <2>9. ASSUME NEW p \in Product, DeleteProduct(p) PROVE RowsKept'
    <3>1. /\ db'.cart = db.cart /\ db'.nextCart = db.nextCart
          /\ work' = db' /\ writer = NoWorker /\ work = db
          /\ UNCHANGED <<writer, pc, req>>
      BY <2>9 DEF DeleteProduct, RowsKept, LockOK, Typed, TypeOK, Tables
    <3> QED
      BY <3>1, WorkerAssumption DEF RowsKept, LockOK, IdsOK, FoundOK, WorkOK
  <2>10. ASSUME ServerCrash PROVE RowsKept'
    <3>1. /\ UNCHANGED db /\ work' = db /\ writer' = NoWorker
          /\ \A w \in Worker : pc'[w] = "idle"
      BY <2>10 DEF ServerCrash, Crash
    <3>2. db.nextCart <= db.nextCart
      BY DEF Typed, TypeOK, Tables, RowId
    <3> QED
      BY <3>1, <3>2, WorkerAssumption DEF RowsKept, LockOK, IdsOK, FoundOK, WorkOK
  <2>11. CASE UNCHANGED vars
    BY <2>11 DEF RowsKept, LockOK, IdsOK, FoundOK, WorkOK, vars, serverVars
  <2> QED
    BY <2>1, <2>2, <2>3, <2>4, <2>5, <2>6, <2>7, <2>8, <2>9, <2>10, <2>11
    DEF Next, Serve, Handler, Done
<1> QED
  BY <1>1, <1>2, Typing, PTL DEF Spec

(* No request changes a row of somebody else's cart, however many requests  *)
(* of a user overlap and whichever of them fail.                            *)
THEOREM OthersAreUntouched == Spec => OthersUntouched
<1>1. RowsKept =>
        [\A w \in Worker, u \in User :
           Commit(w) /\ req[w].user # u
             => {r \in db.cart : r.user = u} = {r \in db'.cart : r.user = u}]_vars
  BY DEF RowsKept, WorkOK, Commit, Seen
<1> QED
  BY <1>1, RowsKeptInvariant, PTL DEF OthersUntouched

-----------------------------------------------------------------------------
(* One row per user and product, for users who wait for answers.  Between   *)
(* the lookup of add_to_cart and its write nobody else inserts a row of the *)
(* same user, because no other request of this user is being served: the    *)
(* "no row" it has found is still true when it inserts.                     *)
OneEach ==
  \A v, w \in Worker :
    InProgress(v) /\ InProgress(w) /\ req[v].user = req[w].user => v = w

Unique(t) ==
  \A r, s \in t.cart : r.user = s.user /\ r.product = s.product => r = s

NoneFound ==
  \A w \in Worker :
    pc[w] = "write" /\ req[w].row = NoRow
      => RowsOf(db.cart, req[w].user, req[w].product) = {}

OneRow == OneEach /\ Unique(db) /\ Unique(work) /\ NoneFound

(* What every step that serves worker w does to OneEach. *)
LEMMA StepKeepsOneEach ==
  ASSUME OneEach, NEW w \in Worker, InProgress(w), req'[w].user = req[w].user,
         \A v \in Worker \ {w} : pc'[v] = pc[v] /\ req'[v] = req[v]
  PROVE  OneEach'
BY DEF OneEach, InProgress

(* Setting the quantity of a row adds no second row for a product. *)
LEMMA UpdateKeepsUnique ==
  ASSUME NEW t \in Tables, NEW call \in AddCall, IdsOK(t), Unique(t),
         \A r \in t.cart :
           r.id = call.row => r.user = call.user /\ r.product = call.product
  PROVE  Unique(UpdateRow(t, call))
<1> DEFINE new(r) == IF r.id = call.row THEN RowFor(r.id, call) ELSE r
<1>1. UpdateRow(t, call).cart = {new(r) : r \in t.cart}
  BY DEF UpdateRow, Tables
<1>2. \A r \in t.cart : new(r).user = r.user /\ new(r).product = r.product
  BY DEF RowFor
<1> HIDE DEF new
<1> QED
  BY <1>1, <1>2 DEF Unique

(* Inserting a row adds no second one where the lookup found none. *)
LEMMA InsertKeepsUnique ==
  ASSUME NEW t \in Tables, NEW call \in AddCall, Unique(t),
         RowsOf(t.cart, call.user, call.product) = {}
  PROVE  Unique(InsertRow(t, call))
<1>1. InsertRow(t, call).cart = t.cart \cup {RowFor(t.nextCart, call)}
  BY DEF InsertRow, Tables
<1>2. \A r \in t.cart : ~(r.user = call.user /\ r.product = call.product)
  BY DEF RowsOf
<1> QED
  BY <1>1, <1>2 DEF Unique, RowFor

(* A step of the handler of w that leaves the tables alone. *)
LEMMA QuietKeepsOneRow ==
  ASSUME OneRow, OneEach', NEW w \in Worker, UNCHANGED tableVars,
         \A v \in Worker \ {w} : pc'[v] = pc[v] /\ req'[v] = req[v],
         pc'[w] = "write" /\ req'[w].row = NoRow
           => RowsOf(db.cart, req'[w].user, req'[w].product) = {}
  PROVE  OneRow'
BY DEF OneRow, Unique, NoneFound, tableVars

(* Writing one row per product under the lock keeps the invariant. *)
LEMMA WriteKeepsOneRow ==
  ASSUME Typed, OneRow, NEW w \in Worker, NEW t2, pc[w] # "idle", UNCHANGED req,
         Write(w, t2, "commit"), Unique(t2)
  PROVE  OneRow'
<1>1. /\ db' = db /\ work' = t2 /\ pc' = [pc EXCEPT ![w] = "commit"]
      /\ pc \in [Worker -> Labels]
  BY DEF Write, Goto, Typed, TypeOK
<1>2. OneEach'
  BY <1>1, StepKeepsOneEach DEF OneRow, InProgress
<1> QED
  BY <1>1, <1>2 DEF OneRow, Unique, NoneFound

(* A rollback keeps the invariant. *)
LEMMA RollbackKeepsOneRow ==
  ASSUME Typed, OneRow, NEW w \in Worker, pc[w] # "idle", UNCHANGED req,
         Rollback(w), pc' = [pc EXCEPT ![w] = "answer"]
  PROVE  OneRow'
<1>1. pc \in [Worker -> Labels]
  BY DEF Typed, TypeOK
<1>2. OneEach'
  BY <1>1, StepKeepsOneEach DEF OneRow, InProgress
<1> QED
  BY <1>1, <1>2 DEF Rollback, OneRow, Unique, NoneFound

(* A commit keeps the invariant: it changes the rows of its own user, of    *)
(* whom no other request is in progress.                                    *)
LEMMA CommitKeepsOneRow ==
  ASSUME Typed, RowsKept, OneRow, NEW w \in Worker, Commit(w), UNCHANGED req
  PROVE  OneRow'
<1>1. /\ pc \in [Worker -> Labels] /\ pc[w] = "commit" /\ work' = work
      /\ pc' = [pc EXCEPT ![w] = "answer"]
  BY DEF Typed, TypeOK, Commit
<1>2. OneEach'
  BY <1>1, StepKeepsOneEach DEF OneRow, InProgress
<1>3. Unique(db)' /\ Unique(work)'
  BY <1>1 DEF Commit, Seen, OneRow, Unique
<1>4. NoneFound'
  <2> SUFFICES ASSUME NEW v \in Worker, pc'[v] = "write", req[v].row = NoRow
               PROVE  RowsOf(db'.cart, req[v].user, req[v].product) = {}
    BY DEF NoneFound
  <2>1. pc[v] = "write" /\ v # w
    BY <1>1
  <2>2. RowsOf(db.cart, req[v].user, req[v].product) = {}
    BY <2>1 DEF OneRow, NoneFound
  <2>3. CASE writer = w
    <3>1. req[v].user \in User /\ req[v].user # req[w].user
      BY <1>1, <2>1 DEF OneRow, OneEach, InProgress, Typed, CallsMatch, AddCall
    <3>2. {r \in db.cart : r.user = req[v].user}
            = {r \in db'.cart : r.user = req[v].user}
      BY <2>3, <3>1 DEF Commit, Seen, RowsKept, WorkOK
    <3> QED
      BY <2>2, <3>2 DEF RowsOf
  <2>4. CASE writer # w
    BY <2>2, <2>4 DEF Commit, Seen
  <2> QED
    BY <2>3, <2>4
<1> QED
  BY <1>2, <1>3, <1>4 DEF OneRow

(* No two requests of one user are served at a time, so that a row a lookup *)
(* has not found is not there when it is inserted.                          *)
THEOREM OneRowInvariant == Overlap = FALSE /\ Spec => []OneRow
<1> SUFFICES ASSUME Overlap = FALSE PROVE Spec => []OneRow
  OBVIOUS
<1>1. Init => OneRow
  <2> SUFFICES ASSUME Init PROVE OneRow
    OBVIOUS
  <2>1. /\ db.cart = {} /\ work = db /\ \A w \in Worker : pc[w] = "idle"
    BY DEF Init, ServerInit
  <2> QED
    BY <2>1 DEF OneRow, OneEach, InProgress, Unique, NoneFound
<1>2. Typed /\ RowsKept /\ OneRow /\ [Next]_vars => OneRow'
  <2> SUFFICES ASSUME Typed, RowsKept, OneRow, [Next]_vars PROVE OneRow'
    OBVIOUS
  <2> USE DEF tableVars
  <2>0. pc \in [Worker -> Labels] /\ req \in [Worker -> Call]
    BY DEF Typed, TypeOK
  <2>1. ASSUME NEW w \in Worker, NEW u \in User, Click(w, u) PROVE OneRow'
    <3>1. ASSUME NEW label \in {"lookup", "select", "clear"}, NEW call,
                 call.user = u, Submit(w, u, label, call)
          PROVE  OneRow'
      <4>1. /\ UNCHANGED tableVars /\ pc'[w] # "write" /\ req'[w].user = u
            /\ \A v \in Worker \ {w} : pc'[v] = pc[v] /\ req'[v] = req[v]
        BY <2>0, <3>1 DEF Submit, Accept, InProgress
      <4>2. \A v \in Worker : InProgress(v) => req[v].user # u
        BY <3>1 DEF Submit
      <4>3. OneEach'
        BY <4>1, <4>2 DEF OneRow, OneEach, InProgress
      <4> QED
        BY <4>1, <4>3, QuietKeepsOneRow
    <3> QED
      BY <2>1, <3>1 DEF Click, AddToCart, GetCartList, DeleteCartList
  <2>2. ASSUME NEW w \in Worker, LookupRow(w) PROVE OneRow'
    <3>1. Seen(w) = db
      BY <2>2 DEF LookupRow, RowsKept, LockOK, Seen
    <3>2. PICK i \in SomeRow(RowsOf(db.cart, req[w].user, req[w].product)) :
            req' = [req EXCEPT ![w].row = i]
      BY <2>2, <3>1 DEF LookupRow
    <3>3. req[w] \in AddCall
      BY <2>2 DEF LookupRow, Typed, CallsMatch
    <3>4. /\ req'[w].row = i /\ req'[w].user = req[w].user
          /\ req'[w].product = req[w].product
          /\ \A v \in Worker \ {w} : req'[v] = req[v]
      BY <2>0, <3>2, <3>3 DEF AddCall
    <3>5. \A r \in db.cart : r.id # NoRow
      BY DEF Typed, TypeOK, Tables, CartRow, RowId
    <3>6. i = NoRow => RowsOf(db.cart, req[w].user, req[w].product) = {}
      BY <3>2, <3>5 DEF SomeRow, RowsOf
    <3>7. /\ pc[w] # "idle" /\ UNCHANGED tableVars
          /\ \A v \in Worker \ {w} : pc'[v] = pc[v]
      BY <2>0, <2>2 DEF LookupRow, Read, Goto
    <3>8. OneEach'
      BY <3>4, <3>7, StepKeepsOneEach DEF OneRow, InProgress
    <3> QED
      BY <3>4, <3>6, <3>7, <3>8, QuietKeepsOneRow
  <2>3. ASSUME NEW w \in Worker, WriteRow(w) PROVE OneRow'
    <3>1. req[w] \in AddCall /\ Seen(w) = db /\ db \in Tables /\ IdsOK(db)
          /\ Unique(db)
      BY <2>3
      DEF WriteRow, Typed, TypeOK, CallsMatch, RowsKept, LockOK, Seen, OneRow
    <3>2. CASE req[w].row # NoRow
      <4>1. Unique(UpdateRow(db, req[w]))
        BY <2>3, <3>1, <3>2, UpdateKeepsUnique DEF WriteRow, RowsKept, FoundOK
      <4> QED
        BY <2>3, <3>1, <3>2, <4>1, WriteKeepsOneRow DEF WriteRow
    <3>3. CASE req[w].row = NoRow
      <4>1. Unique(InsertRow(db, req[w]))
        BY <2>3, <3>1, <3>3, InsertKeepsUnique DEF WriteRow, OneRow, NoneFound
      <4> QED
        BY <2>3, <3>1, <3>3, <4>1, WriteKeepsOneRow DEF WriteRow
    <3> QED
      BY <3>2, <3>3
  <2>4. ASSUME NEW w \in Worker, SelectRows(w) PROVE OneRow'
    <3>1. req[w] \in ListCall
      BY <2>4 DEF SelectRows, Typed, CallsMatch
    <3>2. /\ pc[w] # "idle" /\ UNCHANGED tableVars /\ pc'[w] # "write"
          /\ req'[w].user = req[w].user
          /\ \A v \in Worker \ {w} : pc'[v] = pc[v] /\ req'[v] = req[v]
      BY <2>0, <2>4, <3>1 DEF SelectRows, Read, Goto, Rest, ListCall
    <3>3. OneEach'
      BY <3>2, StepKeepsOneEach DEF OneRow, InProgress
    <3> QED
      BY <3>2, <3>3, QuietKeepsOneRow
  <2>5. ASSUME NEW w \in Worker, SelectItem(w) PROVE OneRow'
    <3>1. req[w] \in ListCall /\ pc[w] = "items"
      BY <2>5 DEF SelectItem, Typed, CallsMatch
    <3>2. CASE Fail(w) /\ UNCHANGED req
      BY <3>1, <3>2, RollbackKeepsOneRow DEF Fail
    <3>3. CASE \E row \in req[w].todo :
                 /\ req' = [req EXCEPT ![w].todo = @ \ {row},
                                       ![w].list = @ \cup {row}]
                 /\ Read(w, Rest(req[w].todo \ {row}))
      <4>1. /\ UNCHANGED tableVars /\ pc'[w] # "write"
            /\ req'[w].user = req[w].user
            /\ \A v \in Worker \ {w} : pc'[v] = pc[v] /\ req'[v] = req[v]
        BY <2>0, <3>1, <3>3 DEF Read, Goto, Rest, ListCall
      <4>2. OneEach'
        BY <3>1, <4>1, StepKeepsOneEach DEF OneRow, InProgress
      <4> QED
        BY <4>1, <4>2, QuietKeepsOneRow
    <3> QED
      BY <2>5, <3>2, <3>3 DEF SelectItem
  <2>6. ASSUME NEW w \in Worker, DeleteRows(w) PROVE OneRow'
    <3>1. Seen(w) = db /\ db \in Tables
      BY <2>6 DEF DeleteRows, Typed, TypeOK, RowsKept, LockOK, Seen
    <3> DEFINE t2 == [db EXCEPT !.cart = {r \in @ : r.user # req[w].user}]
    <3>2. Unique(t2)
      BY <3>1 DEF OneRow, Unique, Tables
    <3>3. Write(w, t2, "commit") /\ UNCHANGED req /\ pc[w] = "clear"
      BY <2>6, <3>1 DEF DeleteRows
    <3> HIDE DEF t2
    <3> QED
      BY <3>2, <3>3, WriteKeepsOneRow
  <2>7. ASSUME NEW w \in Worker, Finish(w) PROVE OneRow'
    <3>1. UNCHANGED req
      BY <2>7 DEF Finish
    <3> QED
      BY <2>7, <3>1, CommitKeepsOneRow, RollbackKeepsOneRow
      DEF Finish, CommitFails, LockTimeout, InHandler, Fail
  <2>8. ASSUME NEW w \in Worker, Deliver(w) PROVE OneRow'
    <3>1. /\ UNCHANGED tableVars /\ pc'[w] = "idle"
          /\ \A v \in Worker \ {w} : pc'[v] = pc[v] /\ req'[v] = req[v]
      BY <2>0, <2>8 DEF Deliver, Respond
    <3>2. OneEach'
      BY <3>1 DEF OneRow, OneEach, InProgress
    <3> QED
      BY <3>1, <3>2, QuietKeepsOneRow
  <2>9. ASSUME NEW p \in Product, DeleteProduct(p) PROVE OneRow'
    <3>1. /\ db'.cart = db.cart /\ work' = db' /\ UNCHANGED <<pc, req>>
      BY <2>9 DEF DeleteProduct, Typed, TypeOK, Tables
    <3> QED
      BY <3>1 DEF OneRow, OneEach, InProgress, Unique, NoneFound
  <2>10. ASSUME ServerCrash PROVE OneRow'
    <3>1. /\ UNCHANGED db /\ work' = db /\ \A w \in Worker : pc'[w] = "idle"
      BY <2>10 DEF ServerCrash, Crash
    <3> QED
      BY <3>1 DEF OneRow, OneEach, InProgress, Unique, NoneFound
  <2>11. CASE UNCHANGED vars
    BY <2>11 DEF OneRow, OneEach, InProgress, Unique, NoneFound, vars, serverVars
  <2> QED
    BY <2>1, <2>2, <2>3, <2>4, <2>5, <2>6, <2>7, <2>8, <2>9, <2>10, <2>11
    DEF Next, Serve, Handler, Done
<1> QED
  BY <1>1, <1>2, Typing, RowsKeptInvariant, PTL DEF Spec

(* A user who waits for answers has one row per product, whatever other     *)
(* users do and whichever requests fail.                                    *)
THEOREM RowsAreUnique == Overlap = FALSE /\ Spec => []UniqueRows
<1>1. OneRow => UniqueRows
  BY DEF OneRow, Unique, UniqueRows
<1> QED
  BY <1>1, OneRowInvariant, PTL

-----------------------------------------------------------------------------
(* Cart implements CartSpec for users who wait for answers and commits that *)
(* are not refused, for every set of users, products, quantities and        *)
(* workers: each step of the server is one of the promise or a stutter.     *)

(* The row a lookup has found is still there when it is written: only its   *)
(* user could clear the cart, and waits.                                    *)
StillThere ==
  \A w \in Worker :
    pc[w] = "write" /\ req[w].row # NoRow =>
      \E r \in RowsOf(db.cart, req[w].user, req[w].product) : r.id = req[w].row

(* What the holder of the lock is about to commit is what was asked.        *)
WritesAsked(t, t2, call) ==
  Contents(CartOf(t2, call.user))
    = Abstract!Effect(Asking(call), Contents(CartOf(t, call.user)))

WrittenOK ==
  \A w \in Worker :
    /\ pc[w] = "commit" /\ req[w].op \in {"add", "clear"} => writer = w
    /\ writer = w => req[w].op \in {"add", "clear"} /\ WritesAsked(db, work, req[w])

(* While get_cart_list goes through a cart, it stays as it was selected.    *)
ListedOK ==
  \A w \in Worker :
    req[w].op = "list" =>
      /\ pc[w] = "select" => req[w].list = {}
      /\ pc[w] = "items" => CartOf(db, req[w].user) = req[w].todo \cup req[w].list
      /\ pc[w] = "commit" \/ (pc[w] = "answer" /\ status[w] = "ok")
           => CartOf(db, req[w].user) = req[w].list

AnswersOK == \A w \in Worker : pc[w] = "answer" => status[w] \in {"ok", "error"}

Promised == StillThere /\ WrittenOK /\ ListedOK /\ AnswersOK

-----------------------------------------------------------------------------
(* Setting the quantity of the only row of a product gives the user the     *)
(* cart that was asked for.                                                 *)
LEMMA UpdateWritesAsked ==
  ASSUME NEW t \in Tables, NEW call \in AddCall, Unique(t),
         \E r \in RowsOf(t.cart, call.user, call.product) : r.id = call.row,
         \A r \in t.cart :
           r.id = call.row => r.user = call.user /\ r.product = call.product
  PROVE  WritesAsked(t, UpdateRow(t, call), call)
<1> DEFINE new(r) == IF r.id = call.row THEN RowFor(r.id, call) ELSE r
           t2 == UpdateRow(t, call)
           rows(tables, p) == {r \in CartOf(tables, call.user) : r.product = p}
<1>1. t2.cart = {new(r) : r \in t.cart}
  BY DEF UpdateRow, Tables
<1>2. \A r \in t.cart : new(r).user = r.user /\ new(r).product = r.product
  BY DEF RowFor
<1>3. PICK q \in t.cart : q.user = call.user /\ q.product = call.product /\ q.id = call.row
  BY DEF RowsOf
<1>4. \A r \in t.cart : r.user = call.user /\ r.product = call.product => r = q
  BY <1>3 DEF Unique
<1>5. new(q).quantity = call.quantity
  BY <1>3 DEF RowFor
<1>6. \A r \in t.cart : r # q => new(r) = r
  BY <1>4
<1>7. call.op = "add" /\ call.product \in Product
  BY DEF AddCall
<1> HIDE DEF new, t2
<1>8. rows(t2, call.product) = {new(q)}
  BY <1>1, <1>2, <1>3, <1>4 DEF CartOf
<1>9. \A p \in Product : p # call.product => rows(t2, p) = rows(t, p)
  BY <1>1, <1>2, <1>3, <1>6 DEF CartOf
<1> HIDE DEF rows
<1>10. {r.quantity : r \in rows(t2, call.product)} = {call.quantity}
  BY <1>5, <1>8
<1>11. Contents(CartOf(t2, call.user))
         = [Contents(CartOf(t, call.user)) EXCEPT ![call.product] = {call.quantity}]
  BY <1>7, <1>9, <1>10 DEF Contents, rows
<1> QED
  BY <1>7, <1>11 DEF WritesAsked, Abstract!Effect, Asking, t2

(* Inserting a row where there is none gives the user the cart that was     *)
(* asked for.                                                               *)
LEMMA InsertWritesAsked ==
  ASSUME NEW t \in Tables, NEW call \in AddCall,
         RowsOf(t.cart, call.user, call.product) = {}
  PROVE  WritesAsked(t, InsertRow(t, call), call)
<1> DEFINE new == RowFor(t.nextCart, call)
           t2 == InsertRow(t, call)
           rows(tables, p) == {r \in CartOf(tables, call.user) : r.product = p}
<1>1. t2.cart = t.cart \cup {new}
  BY DEF InsertRow, Tables
<1>2. new.user = call.user /\ new.product = call.product /\ new.quantity = call.quantity
  BY DEF RowFor
<1>3. call.op = "add" /\ call.product \in Product
  BY DEF AddCall
<1> HIDE DEF new, t2
<1>4. rows(t2, call.product) = {new}
  BY <1>1, <1>2 DEF CartOf, RowsOf
<1>5. \A p \in Product : p # call.product => rows(t2, p) = rows(t, p)
  BY <1>1, <1>2 DEF CartOf
<1> HIDE DEF rows
<1>6. {r.quantity : r \in rows(t2, call.product)} = {call.quantity}
  BY <1>2, <1>4
<1>7. Contents(CartOf(t2, call.user))
        = [Contents(CartOf(t, call.user)) EXCEPT ![call.product] = {call.quantity}]
  BY <1>3, <1>5, <1>6 DEF Contents, rows
<1> QED
  BY <1>3, <1>7 DEF WritesAsked, Abstract!Effect, Asking, t2

(* Deleting the rows of a user gives the empty cart that was asked for. *)
LEMMA DeleteWritesAsked ==
  ASSUME NEW t \in Tables, NEW call \in ClearCall
  PROVE  WritesAsked(t, [t EXCEPT !.cart = {r \in @ : r.user # call.user}], call)
<1> DEFINE t2 == [t EXCEPT !.cart = {r \in @ : r.user # call.user}]
<1>1. CartOf(t2, call.user) = {}
  BY DEF CartOf, Tables
<1> HIDE DEF t2
<1>2. Contents(CartOf(t2, call.user)) = [p \in Product |-> {}]
  BY <1>1 DEF Contents
<1>3. Asking(call).op = "clear"
  BY DEF Asking, ClearCall
<1> QED
  BY <1>2, <1>3 DEF WritesAsked, Abstract!Effect, Abstract!Empty, t2

(* What the other workers do, and for whom, is as before. *)
OthersWait(w) ==
  \A v \in Worker \ {w} : pc'[v] = pc[v] /\ req'[v] = req[v] /\ status'[v] = status[v]

(* A step of the handler of w that leaves the tables alone. *)
LEMMA QuietKeepsPromised ==
  ASSUME Promised, NEW w \in Worker, writer # w,
         UNCHANGED tableVars, OthersWait(w),
         pc'[w] = "write" /\ req'[w].row # NoRow =>
           \E r \in RowsOf(db.cart, req'[w].user, req'[w].product) : r.id = req'[w].row,
         pc'[w] = "commit" => req'[w].op = "list",
         req'[w].op = "list" =>
           /\ pc'[w] = "select" => req'[w].list = {}
           /\ pc'[w] = "items" => CartOf(db, req'[w].user) = req'[w].todo \cup req'[w].list
           /\ pc'[w] = "commit" \/ (pc'[w] = "answer" /\ status'[w] = "ok")
                => CartOf(db, req'[w].user) = req'[w].list,
         pc'[w] = "answer" => status'[w] \in {"ok", "error"}
  PROVE  Promised'
<1> USE DEF tableVars, OthersWait
<1>1. StillThere'
  BY DEF Promised, StillThere
<1>2. WrittenOK'
  <2> SUFFICES ASSUME NEW v \in Worker
               PROVE  /\ pc'[v] = "commit" /\ req'[v].op \in {"add", "clear"} => writer = v
                      /\ writer = v => /\ req'[v].op \in {"add", "clear"}
                                       /\ WritesAsked(db, work, req'[v])
    BY DEF WrittenOK, WritesAsked, CartOf
  <2> QED
    BY DEF Promised, WrittenOK
<1>3. ListedOK'
  <2> SUFFICES ASSUME NEW v \in Worker, req'[v].op = "list"
               PROVE  /\ pc'[v] = "select" => req'[v].list = {}
                      /\ pc'[v] = "items" =>
                           CartOf(db, req'[v].user) = req'[v].todo \cup req'[v].list
                      /\ pc'[v] = "commit" \/ (pc'[v] = "answer" /\ status'[v] = "ok")
                           => CartOf(db, req'[v].user) = req'[v].list
    BY DEF ListedOK, CartOf
  <2> QED
    BY DEF Promised, ListedOK
<1>4. AnswersOK'
  BY DEF Promised, AnswersOK
<1> QED
  BY <1>1, <1>2, <1>3, <1>4 DEF Promised

(* Taking the lock and writing what was asked keeps the invariant. *)
LEMMA WriteKeepsPromised ==
  ASSUME Typed, RowsKept, Promised, NEW w \in Worker, NEW t2, UNCHANGED req,
         pc[w] \in {"write", "clear"}, Write(w, t2, "commit"), WritesAsked(db, t2, req[w])
  PROVE  Promised'
<1>1. /\ writer = NoWorker /\ writer' = w /\ db' = db /\ work' = t2
      /\ pc' = [pc EXCEPT ![w] = "commit"] /\ pc \in [Worker -> Labels]
      /\ UNCHANGED status
  BY DEF Write, Goto, Typed, TypeOK, RowsKept, LockOK
<1>2. req[w].op \in {"add", "clear"}
  BY DEF Typed, CallsMatch, AddCall, ClearCall
<1>3. StillThere' /\ AnswersOK'
  BY <1>1 DEF Promised, StillThere, AnswersOK
<1>4. ListedOK'
  BY <1>1, <1>2 DEF Promised, ListedOK, CartOf
<1>5. WritesAsked(db', work', req'[w])
  BY <1>1
<1>6. WrittenOK'
  BY <1>1, <1>2, <1>5, WorkerAssumption DEF Promised, WrittenOK
<1> QED
  BY <1>3, <1>4, <1>6 DEF Promised

(* A commit keeps the invariant: nobody else has found, or lists, rows of   *)
(* this user.                                                               *)
LEMMA CommitKeepsPromised ==
  ASSUME Typed, RowsKept, OneRow, Promised, NEW w \in Worker, Commit(w), UNCHANGED req
  PROVE  Promised'
<1>1. /\ pc \in [Worker -> Labels] /\ pc[w] = "commit" /\ status \in [Worker -> Status]
      /\ pc' = [pc EXCEPT ![w] = "answer"] /\ status' = [status EXCEPT ![w] = "ok"]
      /\ work' = work
  BY DEF Typed, TypeOK, Commit
<1>2. CASE writer # w
  <2>1. UNCHANGED tableVars
    BY <1>2 DEF Commit, Seen, tableVars
  <2> QED
    BY <1>1, <1>2, <2>1, QuietKeepsPromised DEF OthersWait, Promised, ListedOK
<1>3. CASE writer = w
  <2>1. db' = work /\ writer' = NoWorker
    BY <1>3 DEF Commit, Seen
  <2>2. ASSUME NEW v \in Worker, v # w, pc[v] # "idle"
        PROVE  CartOf(work, req[v].user) = CartOf(db, req[v].user)
    <3>1. req[v].user \in User /\ req[v].user # req[w].user
      BY <1>1, <2>2
      DEF OneRow, OneEach, InProgress, Typed, CallsMatch, AddCall, ListCall, ClearCall
    <3> QED
      BY <1>3, <3>1 DEF RowsKept, WorkOK, CartOf
  <2>3. StillThere'
    <3> SUFFICES ASSUME NEW v \in Worker, pc'[v] = "write", req[v].row # NoRow
                 PROVE  \E r \in RowsOf(work.cart, req[v].user, req[v].product) :
                          r.id = req[v].row
      BY <2>1 DEF StillThere
    <3>1. pc[v] = "write" /\ v # w
      BY <1>1
    <3>2. PICK r \in RowsOf(db.cart, req[v].user, req[v].product) : r.id = req[v].row
      BY <3>1 DEF Promised, StillThere
    <3> QED
      BY <2>2, <3>1, <3>2 DEF RowsOf, CartOf
  <2>4. WrittenOK'
    BY <1>1, <1>3, <2>1, WorkerAssumption DEF Promised, WrittenOK
  <2>5. ListedOK'
    <3> SUFFICES ASSUME NEW v \in Worker, req[v].op = "list"
                 PROVE  /\ pc'[v] = "select" => req[v].list = {}
                        /\ pc'[v] = "items" =>
                             CartOf(work, req[v].user) = req[v].todo \cup req[v].list
                        /\ pc'[v] = "commit" \/ (pc'[v] = "answer" /\ status'[v] = "ok")
                             => CartOf(work, req[v].user) = req[v].list
      BY <2>1 DEF ListedOK, CartOf
    <3>1. v # w /\ pc'[v] = pc[v] /\ status'[v] = status[v]
      BY <1>1, <1>3 DEF Promised, WrittenOK
    <3> QED
      BY <2>2, <3>1 DEF Promised, ListedOK
  <2>6. AnswersOK'
    BY <1>1 DEF Promised, AnswersOK
  <2> QED
    BY <2>3, <2>4, <2>5, <2>6 DEF Promised
<1> QED
  BY <1>2, <1>3

(* One product of the list is read; the others are still to be. *)
Itemed(w, row) ==
  /\ row \in req[w].todo
  /\ req' = [req EXCEPT ![w].todo = @ \ {row}, ![w].list = @ \cup {row}]
  /\ Read(w, Rest(req[w].todo \ {row}))

(* Going on to the next row of a list moves the row and keeps the request. *)
LEMMA ItemedFields ==
  ASSUME Typed, NEW w \in Worker, req[w] \in ListCall, NEW row, Itemed(w, row)
  PROVE  /\ req'[w].op = "list" /\ req'[w].user = req[w].user
         /\ req'[w].todo = req[w].todo \ {row} /\ req'[w].list = req[w].list \cup {row}
         /\ Asking(req'[w]) = Asking(req[w])
<1>1. req'[w] = [req[w] EXCEPT !.todo = @ \ {row}, !.list = @ \cup {row}]
  BY DEF Itemed, Typed, TypeOK
<1>2. /\ req'[w].op = "list" /\ req'[w].user = req[w].user
      /\ req'[w].todo = req[w].todo \ {row} /\ req'[w].list = req[w].list \cup {row}
  BY <1>1 DEF ListCall
<1> QED
  BY <1>2 DEF Asking, ListCall

(* The invariant the refinement needs. *)
THEOREM PromisedInvariant ==
  Overlap = FALSE /\ CommitMayFail = FALSE /\ Spec => []Promised
<1> SUFFICES ASSUME Overlap = FALSE, CommitMayFail = FALSE PROVE Spec => []Promised
  OBVIOUS
<1>1. Init => Promised
  BY WorkerAssumption
  DEF Init, ServerInit, Promised, StillThere, WrittenOK, ListedOK, AnswersOK
<1>2. Typed /\ RowsKept /\ OneRow /\ Promised /\ [Next]_vars => Promised'
  <2> SUFFICES ASSUME Typed, RowsKept, OneRow, Promised, [Next]_vars PROVE Promised'
    OBVIOUS
  <2> USE DEF tableVars
  <2>0. /\ pc \in [Worker -> Labels] /\ req \in [Worker -> Call]
        /\ status \in [Worker -> Status]
        /\ \A w \in Worker : pc[w] # "commit" => writer # w
    BY DEF Typed, TypeOK, RowsKept, LockOK
  <2>1. ASSUME NEW w \in Worker, NEW u \in User, Click(w, u) PROVE Promised'
    <3>1. ASSUME NEW label \in {"lookup", "select", "clear"}, NEW call,
                 Submit(w, u, label, call), label = "select" => call.list = {}
          PROVE  Promised'
      <4>1. /\ UNCHANGED tableVars /\ pc'[w] = label /\ req'[w] = call
            /\ writer # w /\ OthersWait(w)
        BY <2>0, <3>1 DEF Submit, Accept, InProgress, OthersWait
      <4> QED
        BY <3>1, <4>1, QuietKeepsPromised
    <3> QED
      BY <2>1, <3>1 DEF Click, AddToCart, GetCartList, DeleteCartList
  <2>2. ASSUME NEW w \in Worker, LookupRow(w) PROVE Promised'
    <3>1. Seen(w) = db /\ writer # w
      BY <2>0, <2>2 DEF LookupRow, Seen
    <3>2. PICK i \in SomeRow(RowsOf(db.cart, req[w].user, req[w].product)) :
            req' = [req EXCEPT ![w].row = i]
      BY <2>2, <3>1 DEF LookupRow
    <3>3. req[w] \in AddCall
      BY <2>2 DEF LookupRow, Typed, CallsMatch
    <3>4. /\ req'[w].row = i /\ req'[w].user = req[w].user
          /\ req'[w].product = req[w].product /\ req'[w].op = "add"
          /\ \A v \in Worker \ {w} : req'[v] = req[v]
      BY <2>0, <3>2, <3>3 DEF AddCall
    <3>5. i # NoRow =>
            \E r \in RowsOf(db.cart, req[w].user, req[w].product) : r.id = i
      BY <3>2 DEF SomeRow
    <3>6. pc'[w] = "write" /\ UNCHANGED tableVars /\ OthersWait(w)
      BY <2>0, <2>2, <3>4 DEF LookupRow, Read, Goto, OthersWait
    <3> QED
      BY <3>1, <3>4, <3>5, <3>6, QuietKeepsPromised
  <2>3. ASSUME NEW w \in Worker, WriteRow(w) PROVE Promised'
    <3>1. /\ req[w] \in AddCall /\ Seen(w) = db /\ db \in Tables /\ Unique(db)
          /\ pc[w] = "write"
      BY <2>0, <2>3 DEF WriteRow, Typed, TypeOK, CallsMatch, Seen, OneRow
    <3>2. CASE req[w].row # NoRow
      <4>1. WritesAsked(db, UpdateRow(db, req[w]), req[w])
        BY <3>1, <3>2, UpdateWritesAsked DEF RowsKept, FoundOK, Promised, StillThere
      <4> QED
        BY <2>3, <3>1, <3>2, <4>1, WriteKeepsPromised DEF WriteRow
    <3>3. CASE req[w].row = NoRow
      <4>1. WritesAsked(db, InsertRow(db, req[w]), req[w])
        BY <3>1, <3>3, InsertWritesAsked DEF OneRow, NoneFound
      <4> QED
        BY <2>3, <3>1, <3>3, <4>1, WriteKeepsPromised DEF WriteRow
    <3> QED
      BY <3>2, <3>3
  <2>4. ASSUME NEW w \in Worker, SelectRows(w) PROVE Promised'
    <3> DEFINE rows == CartOf(db, req[w].user)
    <3>1. req[w] \in ListCall /\ Seen(w) = db /\ writer # w /\ pc[w] = "select"
      BY <2>0, <2>4 DEF SelectRows, Typed, CallsMatch, Seen
    <3>2. req[w].list = {} /\ req[w].op = "list"
      BY <3>1 DEF Promised, ListedOK, ListCall
    <3>3. req' = [req EXCEPT ![w].todo = rows] /\ Read(w, Rest(rows))
      BY <2>4, <3>1 DEF SelectRows, CartOf
    <3>4. req'[w] = [req[w] EXCEPT !.todo = rows]
      BY <2>0, <3>3
    <3>5. /\ req'[w].op = "list" /\ req'[w].user = req[w].user
          /\ req'[w].todo = rows /\ req'[w].list = {}
      BY <3>1, <3>2, <3>4 DEF ListCall
    <3> HIDE DEF rows
    <3>6. UNCHANGED tableVars /\ OthersWait(w) /\ pc'[w] = Rest(rows)
      BY <2>0, <3>3 DEF Read, Goto, OthersWait
    <3>7. /\ pc'[w] = "items" \/ (pc'[w] = "commit" /\ rows = {})
      BY <3>6 DEF Rest
    <3>8. CartOf(db, req'[w].user) = rows
      BY <3>5 DEF rows
    <3> QED
      BY <3>1, <3>5, <3>6, <3>7, <3>8, QuietKeepsPromised
  <2>5. ASSUME NEW w \in Worker, SelectItem(w) PROVE Promised'
    <3>1. req[w] \in ListCall /\ writer # w /\ pc[w] = "items"
      BY <2>0, <2>5 DEF SelectItem, Typed, CallsMatch
    <3>2. CASE Fail(w) /\ UNCHANGED req
      <4>1. /\ UNCHANGED tableVars /\ OthersWait(w) /\ pc'[w] = "answer" /\ status'[w] = "error"
        BY <2>0, <3>1, <3>2 DEF Fail, Rollback, OthersWait
      <4> QED
        BY <3>1, <4>1, QuietKeepsPromised
    <3>3. CASE \E row : Itemed(w, row)
      <4>1. PICK row : Itemed(w, row)
        BY <3>3
      <4>2. /\ req'[w].op = "list" /\ req'[w].user = req[w].user
            /\ req'[w].todo = req[w].todo \ {row} /\ req'[w].list = req[w].list \cup {row}
        BY <3>1, <4>1, ItemedFields
      <4>3. /\ UNCHANGED tableVars /\ OthersWait(w) /\ pc'[w] = Rest(req'[w].todo)
            /\ row \in req[w].todo
        BY <2>0, <4>1, <4>2 DEF Itemed, Read, Goto, OthersWait
      <4>4. pc'[w] = "items" \/ (pc'[w] = "commit" /\ req'[w].todo = {})
        BY <4>3 DEF Rest
      <4>5. CartOf(db, req'[w].user) = req'[w].todo \cup req'[w].list
        BY <3>1, <4>2, <4>3 DEF Promised, ListedOK, ListCall
      <4> QED
        BY <3>1, <4>2, <4>3, <4>4, <4>5, QuietKeepsPromised
    <3> QED
      BY <2>5, <3>2, <3>3 DEF SelectItem, Itemed
  <2>6. ASSUME NEW w \in Worker, DeleteRows(w) PROVE Promised'
    <3>1. /\ req[w] \in ClearCall /\ Seen(w) = db /\ db \in Tables /\ pc[w] = "clear"
      BY <2>0, <2>6 DEF DeleteRows, Typed, TypeOK, CallsMatch, Seen
    <3> DEFINE t2 == [db EXCEPT !.cart = {r \in @ : r.user # req[w].user}]
    <3>2. WritesAsked(db, t2, req[w])
      BY <3>1, DeleteWritesAsked
    <3>3. Write(w, t2, "commit") /\ UNCHANGED req
      BY <2>6, <3>1 DEF DeleteRows
    <3> HIDE DEF t2
    <3> QED
      BY <3>1, <3>2, <3>3, WriteKeepsPromised
  <2>7. ASSUME NEW w \in Worker, Finish(w) PROVE Promised'
    <3>1. CASE Commit(w)
      BY <2>7, <3>1, CommitKeepsPromised DEF Finish
    <3>2. CASE LockTimeout(w, Writes)
      <4>1. /\ UNCHANGED <<tableVars, req>> /\ writer # w
            /\ pc'[w] = "answer" /\ status'[w] = "error" /\ OthersWait(w)
        BY <2>0, <2>7, <3>2 DEF Finish, LockTimeout, Fail, Rollback, OthersWait
      <4> QED
        BY <4>1, QuietKeepsPromised
    <3> QED
      BY <2>7, <3>1, <3>2 DEF Finish, CommitFails
  <2>8. ASSUME NEW w \in Worker, Deliver(w) PROVE Promised'
    <3>1. UNCHANGED tableVars /\ pc'[w] = "idle" /\ writer # w /\ OthersWait(w)
      BY <2>0, <2>8 DEF Deliver, Respond, OthersWait
    <3> QED
      BY <3>1, QuietKeepsPromised
  <2>9. ASSUME NEW p \in Product, DeleteProduct(p) PROVE Promised'
    <3>1. /\ db'.cart = db.cart /\ writer = NoWorker
          /\ UNCHANGED <<writer, pc, req, status>>
      BY <2>9 DEF DeleteProduct, Typed, TypeOK, Tables
    <3> QED
      BY <3>1, WorkerAssumption
      DEF Promised, StillThere, WrittenOK, ListedOK, CartOf, AnswersOK
  <2>10. ASSUME ServerCrash PROVE Promised'
    <3>1. writer' = NoWorker /\ \A w \in Worker : pc'[w] = "idle"
      BY <2>10 DEF ServerCrash, Crash
    <3> QED
      BY <3>1, WorkerAssumption DEF Promised, StillThere, WrittenOK, ListedOK, AnswersOK
  <2>11. CASE UNCHANGED vars
    <3>1. StillThere' /\ ListedOK' /\ AnswersOK'
      BY <2>11 DEF Promised, StillThere, ListedOK, CartOf, AnswersOK, vars, serverVars
    <3>2. \A w \in Worker : WritesAsked(db, work, req[w])' = WritesAsked(db, work, req[w])
      BY <2>11 DEF WritesAsked, CartOf, vars, serverVars
    <3>3. WrittenOK'
      BY <2>11, <3>2 DEF Promised, WrittenOK, vars, serverVars
    <3> QED
      BY <3>1, <3>3 DEF Promised
  <2> QED
    BY <2>1, <2>2, <2>3, <2>4, <2>5, <2>6, <2>7, <2>8, <2>9, <2>10, <2>11
    DEF Next, Serve, Handler, Done
<1> QED
  BY <1>1, <1>2, Typing, RowsKeptInvariant, OneRowInvariant, PTL DEF Spec

-----------------------------------------------------------------------------
(* The promise, user by user: a worker that serves somebody is the only one *)
(* that does, and its request is what the user has asked.                   *)
TakenEffect(w) == pc[w] = "answer" /\ status[w] = "ok"

(* The worker that serves a user is where the request of this user is. *)
LEMMA Served ==
  ASSUME OneEach, NEW w \in Worker, pc[w] # "idle", NEW u, req[w].user = u
  PROVE  /\ PhaseOf(u) = IF TakenEffect(w) THEN "done" ELSE "asked"
         /\ AskedOf(u) = Asking(req[w])
<1>1. Serving(u) = {w}
  BY DEF Serving, OneEach, InProgress
<1>2. TheWorker(u) = w
  BY <1>1 DEF TheWorker
<1> QED
  BY <1>1, <1>2 DEF PhaseOf, AskedOf, TakenEffect

(* The same, after a step. *)
LEMMA ServedNext ==
  ASSUME OneEach', NEW w \in Worker, pc'[w] # "idle", NEW u, req'[w].user = u
  PROVE  /\ PhaseOf(u)' = IF TakenEffect(w)' THEN "done" ELSE "asked"
         /\ AskedOf(u)' = Asking(req'[w])
<1>1. Serving(u)' = {w}
  BY DEF Serving, OneEach, InProgress
<1>2. TheWorker(u)' = w
  BY <1>1 DEF TheWorker
<1> QED
  BY <1>1, <1>2 DEF PhaseOf, AskedOf, TakenEffect

(* A user nobody serves has no request. *)
LEMMA Unserved ==
  ASSUME NEW u, \A w \in Worker : pc[w] # "idle" => req[w].user # u
  PROVE  PhaseOf(u) = "idle" /\ AskedOf(u) = NoCall
BY DEF PhaseOf, AskedOf, Serving, InProgress

(* The same, after a step. *)
LEMMA UnservedNext ==
  ASSUME NEW u, \A w \in Worker : pc'[w] # "idle" => req'[w].user # u
  PROVE  PhaseOf(u)' = "idle" /\ AskedOf(u)' = NoCall
BY DEF PhaseOf, AskedOf, Serving, InProgress

SamePlace(u) == PhaseOf(u)' = PhaseOf(u) /\ AskedOf(u)' = AskedOf(u)

(* A step of one worker leaves the requests of other users where they are. *)
LEMMA OthersStay ==
  ASSUME OneEach, OneEach', NEW w \in Worker, OthersWait(w), NEW u,
         pc[w] # "idle" => req[w].user # u,
         pc'[w] # "idle" => req'[w].user # u
  PROVE  SamePlace(u)
<1>1. CASE \E v \in Worker : pc[v] # "idle" /\ req[v].user = u
  <2>1. PICK v \in Worker : pc[v] # "idle" /\ req[v].user = u
    BY <1>1
  <2>2. pc'[v] = pc[v] /\ req'[v] = req[v] /\ status'[v] = status[v]
    BY <2>1 DEF OthersWait
  <2>3. TakenEffect(v)' = TakenEffect(v)
    BY <2>2 DEF TakenEffect
  <2> QED
    BY <2>1, <2>2, <2>3, Served, ServedNext DEF SamePlace
<1>2. CASE \A v \in Worker : pc[v] # "idle" => req[v].user # u
  <2>1. \A v \in Worker : pc'[v] # "idle" => req'[v].user # u
    BY <1>2 DEF OthersWait
  <2> QED
    BY <1>2, <2>1, Unserved, UnservedNext DEF SamePlace
<1> QED
  BY <1>1, <1>2

-----------------------------------------------------------------------------
(* The actions of the promise in the same terms. *)
SameCarts == \A u \in User : CartOf(db, u)' = CartOf(db, u)

(* A step that changes no cart, request or answer is a stutter of the       *)
(* promise.                                                                 *)
LEMMA AsStutter ==
  ASSUME SameCarts, \A u \in User : SamePlace(u) /\ ToldOf(u)' = ToldOf(u)
  PROVE  UNCHANGED Abstract!cartVars
BY DEF SameCarts, SamePlace, Abstract!cartVars

(* A step by which a request of one user appears is Ask. *)
LEMMA AsAsk ==
  ASSUME NEW u \in User, SameCarts, \A v \in User \ {u} : SamePlace(v),
         PhaseOf(u) = "idle", PhaseOf(u)' = "asked",
         AskedOf(u)' \in Abstract!Request,
         ToldOf(u)' = Abstract!NoReply,
         \A v \in User \ {u} : ToldOf(v)' = ToldOf(v)
  PROVE  Abstract!Next
BY DEF SameCarts, SamePlace, Abstract!Next, Abstract!Ask

(* A step by which the cart of one user becomes what was asked is           *)
(* TakeEffect.                                                              *)
LEMMA AsTakeEffect ==
  ASSUME NEW u \in User, \A v \in User \ {u} : SamePlace(v),
         PhaseOf(u) = "asked", PhaseOf(u)' = "done", AskedOf(u)' = AskedOf(u),
         \A v \in User : ToldOf(v)' = ToldOf(v),
         \A v \in User \ {u} : CartOf(db, v)' = CartOf(db, v),
         Contents(CartOf(db, u))' = Abstract!Effect(AskedOf(u), Contents(CartOf(db, u)))
  PROVE  Abstract!Next
BY DEF SamePlace, Abstract!Next, Abstract!TakeEffect

(* A step by which one user gets an answer is AnswerOk, or AnswerError before *)
(* the effect.                                                              *)
LEMMA AsAnswer ==
  ASSUME NEW u \in User, SameCarts, \A v \in User \ {u} : SamePlace(v),
         PhaseOf(u)' = "idle", AskedOf(u)' = Abstract!NoRequest,
         \A v \in User \ {u} : ToldOf(v)' = ToldOf(v),
         \/ /\ PhaseOf(u) = "done"
            /\ ToldOf(u)' = [status |-> "ok",
                             list |-> IF AskedOf(u).op = "list"
                                      THEN Contents(CartOf(db, u)) ELSE Abstract!Empty]
         \/ /\ PhaseOf(u) = "asked"
            /\ ToldOf(u)' = [status |-> "error", list |-> Abstract!Empty]
  PROVE  Abstract!Next
BY DEF SameCarts, SamePlace, Abstract!Next, Abstract!AnswerOk, Abstract!AnswerError,
       Abstract!EndWith

(* No rows are the empty cart. *)
LEMMA EmptyContents == Contents({}) = Abstract!Empty
BY DEF Contents, Abstract!Empty

-----------------------------------------------------------------------------
(* The steps of the server.  Most show nothing to the users. *)
LEMMA StepStutters ==
  ASSUME OneEach, OneEach', NEW w \in Worker, OthersWait(w), SameCarts, UNCHANGED reply,
         pc[w] # "idle", pc'[w] # "idle", req'[w].user = req[w].user,
         ~TakenEffect(w), ~TakenEffect(w)', Asking(req'[w]) = Asking(req[w])
  PROVE  UNCHANGED Abstract!cartVars
<1>1. SamePlace(req[w].user)
  BY Served, ServedNext DEF SamePlace
<1>2. \A u \in User : u # req[w].user => SamePlace(u)
  BY OthersStay
<1>3. \A u \in User : ToldOf(u)' = ToldOf(u)
  BY DEF ToldOf
<1> QED
  BY <1>1, <1>2, <1>3, AsStutter

(* A click of a user who waits is Ask. *)
LEMMA ClickAsks ==
  ASSUME Typed, OneEach, OneEach', Overlap = FALSE,
         NEW w \in Worker, NEW u \in User, Click(w, u)
  PROVE  Abstract!Next
<1>1. PICK label \in {"lookup", "select", "clear"}, call \in AddCall \cup ListCall \cup ClearCall :
        Submit(w, u, label, call) /\ call.user = u
  <2>1. CASE \E p \in Product, q \in Quantity : AddToCart(w, u, p, q)
    <3>1. PICK p \in Product, q \in Quantity : AddToCart(w, u, p, q)
      BY <2>1
    <3> DEFINE call == [op |-> "add", user |-> u, product |-> p, quantity |-> q,
                        row |-> NoRow]
    <3>2. call \in AddCall /\ call.user = u
      BY DEF AddCall, NoRow
    <3>3. Submit(w, u, "lookup", call)
      BY <3>1 DEF AddToCart
    <3> QED
      BY <3>2, <3>3
  <2>2. CASE GetCartList(w, u)
    <3> DEFINE call == [op |-> "list", user |-> u, todo |-> {}, list |-> {}]
    <3>1. call \in ListCall /\ call.user = u
      BY DEF ListCall
    <3>2. Submit(w, u, "select", call)
      BY <2>2 DEF GetCartList
    <3> QED
      BY <3>1, <3>2
  <2>3. CASE DeleteCartList(w, u)
    <3> DEFINE call == [op |-> "clear", user |-> u]
    <3>1. call \in ClearCall /\ call.user = u
      BY DEF ClearCall
    <3>2. Submit(w, u, "clear", call)
      BY <2>3 DEF DeleteCartList
    <3> QED
      BY <3>1, <3>2
  <2> QED
    BY <2>1, <2>2, <2>3 DEF Click
<1>2. /\ pc[w] = "idle" /\ pc'[w] = label /\ req'[w] = call /\ UNCHANGED db
      /\ OthersWait(w)
      /\ \A v \in Worker : pc[v] # "idle" => req[v].user # u
  BY <1>1 DEF Submit, Accept, InProgress, OthersWait, Typed, TypeOK, tableVars
<1>3. ~TakenEffect(w)'
  BY <1>2 DEF TakenEffect
<1>4. PhaseOf(u) = "idle"
  BY <1>2, Unserved
<1>5. PhaseOf(u)' = "asked" /\ AskedOf(u)' = Asking(call)
  BY <1>1, <1>2, <1>3, ServedNext
<1>6. Asking(call) \in Abstract!Request
  BY DEF Asking, Abstract!Request, AddCall, ListCall, ClearCall
<1>7. \A v \in User \ {u} : SamePlace(v)
  BY <1>1, <1>2, OthersStay
<1>8. SameCarts
  BY <1>2 DEF SameCarts, CartOf
<1>9. reply' = [reply EXCEPT ![u] = NoReply] /\ reply \in [User -> Reply]
  BY <1>1 DEF Submit, Typed, TypeOK
<1>10. /\ ToldOf(u)' = Abstract!NoReply
       /\ \A v \in User \ {u} : ToldOf(v)' = ToldOf(v)
  BY <1>9, EmptyContents DEF ToldOf, NoReply, Abstract!NoReply
<1> QED
  BY <1>4, <1>5, <1>6, <1>7, <1>8, <1>10, AsAsk

(* A commit is the moment at which a request takes effect: of a quantity or *)
(* an emptied cart what the holder of the lock has written, of a list none. *)
LEMMA CommitTakesEffect ==
  ASSUME Typed, RowsKept, OneEach, OneEach', Promised,
         NEW w \in Worker, Commit(w), UNCHANGED <<req, reply>>
  PROVE  Abstract!Next
<1>1. /\ pc[w] = "commit" /\ pc'[w] = "answer" /\ status'[w] = "ok" /\ OthersWait(w)
  BY DEF Commit, Typed, TypeOK, OthersWait
<1>2. req[w] \in AddCall \cup ListCall \cup ClearCall
  BY <1>1 DEF Typed, CallsMatch
<1>3. PICK u \in User : req[w].user = u
  BY <1>2 DEF AddCall, ListCall, ClearCall
<1>4. ~TakenEffect(w) /\ TakenEffect(w)'
  BY <1>1 DEF TakenEffect
<1>5. /\ PhaseOf(u) = "asked" /\ AskedOf(u) = Asking(req[w])
      /\ PhaseOf(u)' = "done" /\ AskedOf(u)' = AskedOf(u)
  BY <1>1, <1>3, <1>4, Served, ServedNext
<1>6. \A v \in User \ {u} : SamePlace(v)
  BY <1>1, <1>3, OthersStay
<1>7. \A v \in User : ToldOf(v)' = ToldOf(v)
  BY DEF ToldOf
<1>8. CASE req[w].op = "list"
  <2>1. db' = db
    BY <1>1, <1>8 DEF Promised, WrittenOK, Commit, Seen
  <2>2. \A v \in User : CartOf(db, v)' = CartOf(db, v)
    BY <2>1 DEF CartOf
  <2>3. Asking(req[w]).op = "list"
    BY <1>8 DEF Asking
  <2>4. Contents(CartOf(db, u))' = Abstract!Effect(AskedOf(u), Contents(CartOf(db, u)))
    BY <1>5, <2>1, <2>3 DEF Abstract!Effect, Contents, CartOf
  <2> QED
    BY <1>5, <1>6, <1>7, <2>2, <2>4, AsTakeEffect
<1>9. CASE req[w].op # "list"
  <2>1. req[w].op \in {"add", "clear"}
    BY <1>2, <1>9 DEF AddCall, ListCall, ClearCall
  <2>2. db' = work /\ writer = w /\ WritesAsked(db, work, req[w])
    BY <1>1, <2>1 DEF Promised, WrittenOK, Commit, Seen
  <2>3. \A v \in User \ {u} : CartOf(db, v)' = CartOf(db, v)
    BY <1>3, <2>2 DEF CartOf, RowsKept, WorkOK
  <2>4. Contents(CartOf(db, u))' = Abstract!Effect(AskedOf(u), Contents(CartOf(db, u)))
    BY <1>3, <1>5, <2>2 DEF WritesAsked, Contents, CartOf
  <2> QED
    BY <1>5, <1>6, <1>7, <2>3, <2>4, AsTakeEffect
<1> QED
  BY <1>8, <1>9

(* An answer ends the request it is for, with the list or without. *)
LEMMA DeliverAnswers ==
  ASSUME Typed, OneEach, OneEach', Promised, NEW w \in Worker, Deliver(w)
  PROVE  Abstract!Next
<1>1. /\ pc[w] = "answer" /\ pc'[w] = "idle" /\ UNCHANGED db /\ OthersWait(w)
      /\ status[w] \in {"ok", "error"}
  BY DEF Deliver, Respond, tableVars, Typed, TypeOK, OthersWait, Promised, AnswersOK
<1>2. req[w] \in AddCall \cup ListCall \cup ClearCall
  BY <1>1 DEF Typed, CallsMatch
<1>3. PICK u \in User : req[w].user = u
  BY <1>2 DEF AddCall, ListCall, ClearCall
<1>4. \A v \in Worker : pc'[v] # "idle" => req'[v].user # u
  BY <1>1, <1>3 DEF OneEach, InProgress, OthersWait
<1>5. PhaseOf(u)' = "idle" /\ AskedOf(u)' = Abstract!NoRequest
  BY <1>4, UnservedNext DEF NoCall, Abstract!NoRequest
<1>6. \A v \in User \ {u} : SamePlace(v)
  BY <1>1, <1>3, OthersStay
<1>7. SameCarts
  BY <1>1 DEF SameCarts, CartOf
<1>8. /\ \A v \in User \ {u} : ToldOf(v)' = ToldOf(v)
      /\ reply'[u].status = status[w]
      /\ reply'[u].list = IF status[w] = "ok" THEN Listed(w) ELSE {}
  BY <1>3 DEF Deliver, Typed, TypeOK, ToldOf
<1>9. CASE status[w] = "ok"
  <2>1. TakenEffect(w)
    BY <1>1, <1>9 DEF TakenEffect
  <2>2. PhaseOf(u) = "done" /\ AskedOf(u) = Asking(req[w])
    BY <1>1, <1>3, <2>1, Served
  <2>3. Asking(req[w]).op = req[w].op
    BY DEF Asking
  <2>4. ToldOf(u)' = [status |-> "ok", list |-> Contents(Listed(w))]
    BY <1>8, <1>9 DEF ToldOf
  <2>5. req[w].op = "list" => Listed(w) = CartOf(db, u)
    BY <1>1, <1>3, <1>9 DEF Listed, Promised, ListedOK
  <2>6. req[w].op # "list" => Listed(w) = {}
    BY DEF Listed
  <2>7. ToldOf(u)' = [status |-> "ok",
                      list |-> IF AskedOf(u).op = "list"
                               THEN Contents(CartOf(db, u)) ELSE Abstract!Empty]
    BY <2>2, <2>3, <2>4, <2>5, <2>6, EmptyContents
  <2> QED
    BY <1>5, <1>6, <1>7, <1>8, <2>2, <2>7, AsAnswer
<1>10. CASE status[w] = "error"
  <2>1. ~TakenEffect(w)
    BY <1>1, <1>10 DEF TakenEffect
  <2>2. PhaseOf(u) = "asked"
    BY <1>1, <1>3, <2>1, Served
  <2>3. ToldOf(u)' = [status |-> "error", list |-> Abstract!Empty]
    BY <1>8, <1>10, EmptyContents DEF ToldOf
  <2> QED
    BY <1>5, <1>6, <1>7, <1>8, <2>2, <2>3, AsAnswer
<1> QED
  BY <1>1, <1>9, <1>10

(* The death of the server process is LoseAnswers. *)
LEMMA CrashLoses ==
  ASSUME Typed, ServerCrash
  PROVE  Abstract!Next
<1>1. UNCHANGED db /\ \A w \in Worker : pc'[w] = "idle"
  BY DEF ServerCrash, Crash
<1>2. \A u \in User : CartOf(db, u)' = CartOf(db, u)
  BY <1>1 DEF CartOf
<1>3. \A u \in User : PhaseOf(u)' = "idle" /\ AskedOf(u)' = Abstract!NoRequest
  BY <1>1, UnservedNext DEF NoCall, Abstract!NoRequest
<1>4. ASSUME NEW u \in User
      PROVE  ToldOf(u)' = IF PhaseOf(u) = "idle" THEN ToldOf(u)
                          ELSE [status |-> "lost", list |-> Abstract!Empty]
  <2>1. PhaseOf(u) = "idle" <=> ~ \E w \in Worker : InProgress(w) /\ req[w].user = u
    BY DEF PhaseOf, Serving
  <2>2. CASE \E w \in Worker : InProgress(w) /\ req[w].user = u
    <3>1. reply'[u] = [status |-> "lost", list |-> {}]
      BY <2>2 DEF ServerCrash
    <3> QED
      BY <2>1, <2>2, <3>1, EmptyContents DEF ToldOf
  <2>3. CASE ~ \E w \in Worker : InProgress(w) /\ req[w].user = u
    <3>1. reply'[u] = reply[u]
      BY <2>3 DEF ServerCrash
    <3> QED
      BY <2>1, <2>3, <3>1 DEF ToldOf
  <2> QED
    BY <2>2, <2>3
<1> QED
  BY <1>1, <1>2, <1>3, <1>4 DEF Abstract!Next, Abstract!LoseAnswers

(* Carts, requests and answers as they were: whatever else has changed, the *)
(* users do not see it.                                                     *)
LEMMA NothingSeen ==
  ASSUME db'.cart = db.cart, UNCHANGED <<pc, status, req, reply>>
  PROVE  UNCHANGED Abstract!cartVars
<1>1. \A u \in User : Serving(u)' = Serving(u)
  BY DEF Serving, InProgress
<1>2. \A u \in User : TheWorker(u)' = TheWorker(u)
  BY <1>1 DEF TheWorker
<1>3. \A u \in User : SamePlace(u) /\ ToldOf(u)' = ToldOf(u)
  BY <1>1, <1>2 DEF SamePlace, PhaseOf, AskedOf, ToldOf
<1>4. SameCarts
  BY DEF SameCarts, CartOf
<1> QED
  BY <1>3, <1>4, AsStutter

-----------------------------------------------------------------------------
(* Requests of users who wait take effect at one instant, also the list     *)
(* that is read in many statements, and have no effect when they fail.      *)
THEOREM CartSpecIsImplemented ==
  Overlap = FALSE /\ CommitMayFail = FALSE /\ Spec => ImplementsCartSpec
<1> SUFFICES ASSUME Overlap = FALSE, CommitMayFail = FALSE
             PROVE  Spec => ImplementsCartSpec
  OBVIOUS
<1>1. Init => Abstract!Init
  <2> SUFFICES ASSUME Init PROVE Abstract!Init
    OBVIOUS
  <2>1. /\ db.cart = {} /\ \A w \in Worker : pc[w] = "idle"
        /\ reply = [u \in User |-> NoReply]
    BY DEF Init, ServerInit
  <2>2. \A u \in User : PhaseOf(u) = "idle" /\ AskedOf(u) = Abstract!NoRequest
    BY <2>1, Unserved DEF NoCall, Abstract!NoRequest
  <2>3. \A u \in User : Contents(CartOf(db, u)) = Abstract!Empty
    BY <2>1 DEF CartOf, Contents, Abstract!Empty
  <2>4. \A u \in User : ToldOf(u) = Abstract!NoReply
    BY <2>1, EmptyContents DEF ToldOf, NoReply, Abstract!NoReply
  <2> QED
    BY <2>2, <2>3, <2>4 DEF Abstract!Init
<1>2. Typed /\ RowsKept /\ OneRow /\ OneRow' /\ Promised /\ [Next]_vars
        => [Abstract!Next]_(Abstract!cartVars)
  <2> SUFFICES ASSUME Typed, RowsKept, OneRow, OneRow', Promised, [Next]_vars
               PROVE  Abstract!Next \/ UNCHANGED Abstract!cartVars
    OBVIOUS
  <2>0. /\ OneEach /\ OneEach' /\ pc \in [Worker -> Labels] /\ req \in [Worker -> Call]
        /\ status \in [Worker -> Status]
    BY DEF OneRow, Typed, TypeOK
  <2>1. ASSUME NEW w \in Worker, NEW u \in User, Click(w, u) PROVE Abstract!Next
    BY <2>0, <2>1, ClickAsks
  <2>2. ASSUME NEW w \in Worker, LookupRow(w) PROVE UNCHANGED Abstract!cartVars
    <3>1. req[w] \in AddCall
      BY <2>2 DEF LookupRow, Typed, CallsMatch
    <3>2. PICK i : req' = [req EXCEPT ![w].row = i]
      BY <2>2 DEF LookupRow
    <3>3. req'[w].user = req[w].user /\ Asking(req'[w]) = Asking(req[w])
      BY <2>0, <3>1, <3>2 DEF AddCall, Asking
    <3>4. /\ pc[w] = "lookup" /\ pc'[w] = "write" /\ OthersWait(w)
          /\ UNCHANGED <<db, reply>>
      BY <2>0, <2>2, <3>2 DEF LookupRow, Read, Goto, tableVars, OthersWait
    <3>5. SameCarts /\ ~TakenEffect(w) /\ ~TakenEffect(w)'
      BY <3>4 DEF SameCarts, CartOf, TakenEffect
    <3> QED
      BY <2>0, <3>3, <3>4, <3>5, StepStutters
  <2>3. ASSUME NEW w \in Worker, WriteRow(w) \/ DeleteRows(w)
        PROVE  UNCHANGED Abstract!cartVars
    <3>1. /\ pc[w] \in {"write", "clear"} /\ pc'[w] = "commit" /\ OthersWait(w)
          /\ UNCHANGED <<db, req, reply>>
      BY <2>0, <2>3 DEF WriteRow, DeleteRows, Write, Goto, OthersWait
    <3>2. SameCarts /\ ~TakenEffect(w) /\ ~TakenEffect(w)'
      BY <3>1 DEF SameCarts, CartOf, TakenEffect
    <3> QED
      BY <2>0, <3>1, <3>2, StepStutters
  <2>4. ASSUME NEW w \in Worker, SelectRows(w) PROVE UNCHANGED Abstract!cartVars
    <3>1. req[w] \in ListCall /\ pc[w] = "select"
      BY <2>4 DEF SelectRows, Typed, CallsMatch
    <3>2. PICK rows : req' = [req EXCEPT ![w].todo = rows] /\ Read(w, Rest(rows))
      BY <2>4 DEF SelectRows
    <3>3. req'[w] = [req[w] EXCEPT !.todo = rows]
      BY <2>0, <3>2
    <3>4. req'[w].user = req[w].user /\ Asking(req'[w]) = Asking(req[w])
      BY <3>1, <3>3 DEF ListCall, Asking
    <3>5. /\ pc'[w] \in {"items", "commit"} /\ OthersWait(w) /\ UNCHANGED <<db, reply>>
      BY <2>0, <2>4, <3>2 DEF SelectRows, Read, Goto, Rest, tableVars, OthersWait
    <3>6. SameCarts /\ ~TakenEffect(w) /\ ~TakenEffect(w)'
      BY <3>1, <3>5 DEF SameCarts, CartOf, TakenEffect
    <3> QED
      BY <2>0, <3>1, <3>4, <3>5, <3>6, StepStutters
  <2>5. ASSUME NEW w \in Worker, SelectItem(w) PROVE UNCHANGED Abstract!cartVars
    <3>1. req[w] \in ListCall /\ pc[w] = "items" /\ UNCHANGED reply
      BY <2>5 DEF SelectItem, Typed, CallsMatch
    <3>2. CASE Fail(w) /\ UNCHANGED req
      <4>1. OthersWait(w) /\ UNCHANGED db /\ pc'[w] = "answer" /\ status'[w] = "error"
        BY <2>0, <3>2 DEF Fail, Rollback, OthersWait
      <4>2. SameCarts /\ ~TakenEffect(w) /\ ~TakenEffect(w)'
        BY <3>1, <4>1 DEF SameCarts, CartOf, TakenEffect
      <4> QED
        BY <2>0, <3>1, <3>2, <4>1, <4>2, StepStutters
    <3>3. CASE \E row : Itemed(w, row)
      <4>1. PICK row : Itemed(w, row)
        BY <3>3
      <4>2. req'[w].user = req[w].user /\ Asking(req'[w]) = Asking(req[w])
        BY <3>1, <4>1, ItemedFields
      <4>3. /\ OthersWait(w) /\ UNCHANGED db /\ pc'[w] \in {"items", "commit"}
        BY <2>0, <4>1 DEF Itemed, Read, Goto, Rest, tableVars, OthersWait
      <4>4. SameCarts /\ ~TakenEffect(w) /\ ~TakenEffect(w)'
        BY <3>1, <4>3 DEF SameCarts, CartOf, TakenEffect
      <4> QED
        BY <2>0, <3>1, <4>2, <4>3, <4>4, StepStutters
    <3> QED
      BY <2>5, <3>2, <3>3 DEF SelectItem, Itemed
  <2>6. ASSUME NEW w \in Worker, Finish(w)
        PROVE  Abstract!Next \/ UNCHANGED Abstract!cartVars
    <3>1. CASE Commit(w)
      BY <2>0, <2>6, <3>1, CommitTakesEffect DEF Finish
    <3>2. CASE LockTimeout(w, Writes)
      <4>1. /\ pc[w] \notin {"idle", "commit", "answer"} /\ pc'[w] = "answer"
            /\ status'[w] = "error" /\ OthersWait(w) /\ UNCHANGED <<db, req, reply>>
        BY <2>0, <2>6, <3>2 DEF Finish, LockTimeout, InHandler, Fail, Rollback, OthersWait
      <4>2. SameCarts /\ ~TakenEffect(w) /\ ~TakenEffect(w)'
        BY <4>1 DEF SameCarts, CartOf, TakenEffect
      <4> QED
        BY <2>0, <4>1, <4>2, StepStutters
    <3> QED
      BY <2>6, <3>1, <3>2 DEF Finish, CommitFails
  <2>7. ASSUME NEW w \in Worker, Deliver(w) PROVE Abstract!Next
    BY <2>0, <2>7, DeliverAnswers
  <2>8. ASSUME NEW p \in Product, DeleteProduct(p) PROVE UNCHANGED Abstract!cartVars
    <3>1. db'.cart = db.cart /\ UNCHANGED <<pc, status, req, reply>>
      BY <2>8 DEF DeleteProduct, Typed, TypeOK, Tables
    <3> QED
      BY <3>1, NothingSeen
  <2>9. ASSUME ServerCrash PROVE Abstract!Next
    BY <2>9, CrashLoses
  <2>10. CASE UNCHANGED vars
    BY <2>10, NothingSeen DEF vars, serverVars
  <2> QED
    BY <2>1, <2>2, <2>3, <2>4, <2>5, <2>6, <2>7, <2>8, <2>9, <2>10
    DEF Next, Serve, Handler, Done
<1> QED
  BY <1>1, <1>2, Typing, RowsKeptInvariant, OneRowInvariant, PromisedInvariant, PTL
  DEF Spec, ImplementsCartSpec, Abstract!Spec
=============================================================================
