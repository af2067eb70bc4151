------------------------------ MODULE Store51 ------------------------------
(* The store of hw5_1 (controllers/api.py) for one of its products: carts   *)
(* that are counted up, stars that are averaged on every list, and reviews, *)
(* served concurrently by the workers of WebRequest.  The rows of a product *)
(* reference it: they are deleted with it, and none can be inserted after.  *)
EXTENDS WebRequest, FiniteSets

CONSTANTS
  User, NoUser,
  Value,         \* amounts and ratings of a request, and reviews
  MaxValue,      \* the best rating
  Waits,         \* BOOLEAN: does a user wait for answers
  GridDeletes    \* BOOLEAN: is the product deleted in the grid

ASSUME UserAssumption == NoUser \notin User
ASSUME ValueAssumption == MaxValue \in Nat /\ Value \subseteq 0..MaxValue

VARIABLES
  req    \* req[w]: arguments and local variables of the handler w runs

storeVars == <<serverVars, req>>

NoRow == 0
TableName == {"cart", "star", "review"}
Row == [id : Nat \ {NoRow}, user : User \cup {NoUser}, value : Nat]
Tables == [cart : SUBSET Row, star : SUBSET Row, review : SUBSET Row,
           product : BOOLEAN, next : Nat \ {NoRow}]

(* old is the amount in the cart, row the one update_or_insert has found;   *)
(* todo and sum are of the loop over the stars, and length that of the list *)
(* its last round has selected.                                             *)
NoCall == [op |-> "none", user |-> NoUser, value |-> 0, old |-> 0, row |-> NoRow,
           todo |-> {}, sum |-> 0, length |-> 0]
Table(w) == CASE req[w].op \in {"inc", "clear"} -> "cart"
              [] req[w].op = "review" -> "review"
              [] OTHER -> "star"
OfUser(rows, u) == {r \in rows : r.user = u}
Own(w) == OfUser(Seen(w)[Table(w)], req[w].user)

StoreInit ==
  /\ ServerInit([cart |-> {}, star |-> {}, review |-> {}, product |-> TRUE, next |-> 1])
  /\ req = [w \in Worker |-> NoCall]

Set(w, call) == req' = [req EXCEPT ![w] = call]

-----------------------------------------------------------------------------
Submit(w, u, label, op, value) ==
  /\ Waits => \A v \in Worker : InProgress(v) => req[v].user # u
  /\ Accept(w, label)
  /\ Set(w, [NoCall EXCEPT !.op = op, !.user = u, !.value = value])

(* inc_cart, add_review and set_stars; clear_cart; get_product_list and     *)
(* search, which differ in the products they list only.                     *)
IncCart(w, u, n) == Submit(w, u, "amount", "inc", n)
PostReview(w, u, text) == Submit(w, u, "count", "review", text)
PostStars(w, u, stars) == Submit(w, u, "lookup", "stars", stars)
ClearCart(w, u) == Submit(w, u, "clear", "clear", 0)
GetProductList(w, u) == Submit(w, u, "select", "list", 0)

(* The amount of the last row of the cart, in whatever order they come. *)
SelectAmount(w) ==
  /\ pc[w] = "amount"
  /\ \E old \in IF Own(w) = {} THEN {0} ELSE {r.value : r \in Own(w)} :
       Set(w, [req[w] EXCEPT !.old = old])
  /\ Read(w, "count")

(* Mutant of CountRows: only the rows with the value that was sent. *)
CountRowsByValue(w) ==
  /\ pc[w] = "count"
  /\ Read(w, IF \E r \in Own(w) : r.value = req[w].value THEN "lookup" ELSE "insert")
  /\ UNCHANGED req

CountRows(w) ==
  /\ pc[w] = "count"
  /\ Read(w, IF Own(w) = {} THEN "insert" ELSE "lookup")
  /\ UNCHANGED req

(* update_or_insert: some row of the query, ... *)
LookupRow(w) ==
  /\ pc[w] = "lookup"
  /\ \E i \in IF Own(w) = {} THEN {NoRow} ELSE {r.id : r \in Own(w)} :
       Set(w, [req[w] EXCEPT !.row = i])
  /\ Read(w, "write")

(* Mutant of NewValue: the amount in the cart is forgotten. *)
NewValueOnly(w) == req[w].value

NewValue(w) == req[w].old + req[w].value

(* ...that is updated by its id; without one, what is inserted has only the *)
(* values that were to be updated: of cart and review neither user nor      *)
(* product, of star both.                                                   *)
Updated(w) == {IF r.id = req[w].row THEN [r EXCEPT !.value = NewValue(w)] ELSE r :
                 r \in Seen(w)[Table(w)]}
Inserted(w, u, value) ==
  [Seen(w) EXCEPT ![Table(w)] = @ \cup {[id |-> Seen(w).next, user |-> u, value |-> value]},
                  !.next = @ + 1]

WriteRow(w) ==
  /\ pc[w] = "write"
  /\ \/ /\ req[w].row # NoRow
        /\ Write(w, [Seen(w) EXCEPT ![Table(w)] = Updated(w)], "commit")
     \/ /\ req[w].row = NoRow /\ Table(w) # "star"
        /\ Write(w, Inserted(w, NoUser, NewValue(w)), "commit")
     \/ /\ req[w].row = NoRow /\ Table(w) = "star" /\ Seen(w).product
        /\ Write(w, Inserted(w, req[w].user, NewValue(w)), "commit")
  /\ UNCHANGED req

(* A first amount, or review. *)
InsertRow(w) ==
  /\ pc[w] = "insert" /\ Seen(w).product
  /\ Write(w, Inserted(w, req[w].user, req[w].value), "commit")
  /\ UNCHANGED req

(* FOREIGN KEY constraint failed *)
RefuseRow(w) ==
  /\ ~Seen(w).product /\ writer \in {NoWorker, w}
  /\ pc[w] = "insert" \/ (pc[w] = "write" /\ req[w].row = NoRow /\ Table(w) = "star")
  /\ Fail(w)
  /\ UNCHANGED req

DeleteRows(w) ==
  /\ pc[w] = "clear"
  /\ Write(w, [Seen(w) EXCEPT !.cart = @ \ Own(w)], "commit")
  /\ UNCHANGED req

-----------------------------------------------------------------------------
(* The stars of the product, and then for each of them all of them again. *)
SelectStars(w) ==
  /\ pc[w] = "select"
  /\ Set(w, [req[w] EXCEPT !.todo = Seen(w).star])
  /\ Read(w, IF Seen(w).star = {} THEN "commit" ELSE "divide")

(* Mutant of Length: the other users' only. *)
LengthOfOthers(w) == Cardinality(Seen(w).star \ Own(w))

Length(w) == Cardinality(Seen(w).star)

(* sum / len(...): a ZeroDivisionError when there are none by now. *)
Divide(w) ==
  /\ pc[w] = "divide"
  /\ \/ /\ Length(w) = 0
        /\ Fail(w) /\ UNCHANGED req
     \/ /\ Length(w) # 0
        /\ \E r \in req[w].todo :
             /\ Set(w, [req[w] EXCEPT !.todo = @ \ {r}, !.sum = @ + r.value,
                                      !.length = Length(w)])
             /\ Read(w, IF req[w].todo = {r} THEN "commit" ELSE "divide")

-----------------------------------------------------------------------------
Handler(w) ==
  \/ SelectAmount(w) \/ CountRows(w) \/ LookupRow(w) \/ WriteRow(w) \/ InsertRow(w)
  \/ RefuseRow(w) \/ DeleteRows(w) \/ SelectStars(w) \/ Divide(w)

Finish(w) ==
  \/ (Commit(w) \/ LockTimeout(w, {"write", "insert", "clear"})) /\ UNCHANGED req
  \/ Respond(w) /\ Set(w, NoCall)

(* ON DELETE CASCADE; a row of NULL references nothing. *)
DeleteProduct ==
  /\ GridDeletes /\ db.product /\ writer = NoWorker
  /\ db' = [db EXCEPT !.product = FALSE, !.star = {}, !.cart = OfUser(@, NoUser),
                      !.review = OfUser(@, NoUser)]
  /\ work' = db'
  /\ UNCHANGED <<writer, pc, status, accepted, req>>

StoreCrash == Crash /\ req' = [w \in Worker |-> NoCall]

StoreNext ==
  \/ \E w \in Worker :
       \/ \E u \in User :
            \/ \E n \in Value : IncCart(w, u, n) \/ PostReview(w, u, n) \/ PostStars(w, u, n)
            \/ ClearCart(w, u) \/ GetProductList(w, u)
       \/ Handler(w) \/ Finish(w)
  \/ DeleteProduct \/ StoreCrash
  \/ Quiescent /\ UNCHANGED storeVars

StoreSpec == StoreInit /\ [][StoreNext]_storeVars

-----------------------------------------------------------------------------
(* For users who wait and a product that stays, the cart grows by just the  *)
(* amount that was posted, between whose SELECT, COUNT and UPDATE others    *)
(* may write: a user with one row, or none, has one row after it.           *)
Holds(rows, n) ==
  \/ rows = {} /\ n = 0
  \/ \E r \in rows : rows = {r} /\ r.value = n
IncrementsAddUp ==
  [][\A w \in Worker :
       Waits /\ Commit(w) /\ req[w].op = "inc" /\ db.product =>
         \E r \in db'.cart : /\ OfUser(db'.cart, req[w].user) = {r}
                             /\ Holds(OfUser(db.cart, req[w].user), r.value - req[w].value)
    ]_storeVars

(* For users who wait, no table has two rows of one user, and while the     *)
(* product stays none has a row without user.                               *)
Owned(tables) ==
  \A t \in TableName : \A r \in tables[t] :
    IF r.user = NoUser THEN ~tables.product
    ELSE \A s \in tables[t] : s.user = r.user => r = s
RowsAreOwned == Waits => Owned(db)

(* No list fails while the product stays, and no average is above the best  *)
(* rating: stars are set between the SELECT that is summed and the one that *)
(* is counted, but never taken back.                                        *)
AveragesAreInRange ==
  \A w \in Worker :
    /\ pc[w] = "divide" /\ db.product => Seen(w).star # {}
    /\ req[w].length > 0 => req[w].sum <= req[w].length * MaxValue
=============================================================================
