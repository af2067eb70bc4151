------------------------------- MODULE Cart -------------------------------
(* The shopping cart of the store hw5_2: the handlers add_to_cart,          *)
(* get_cart_list and delete_cart_list of controllers/api.py, served         *)
(* concurrently by the workers of WebRequest, and the deletion of a product *)
(* by the administrator (appadmin).                                         *)
EXTENDS WebRequest, FiniteSets

CONSTANTS
  User, Product,
  Quantity,      \* the quantities a page posts
  Overlap,       \* BOOLEAN: may a user have several requests outstanding
  AdminDeletes   \* BOOLEAN: may the administrator delete products

ASSUME QuantityAssumption == Quantity \subseteq Nat
ASSUME SwitchAssumption == Overlap \in BOOLEAN /\ AdminDeletes \in BOOLEAN

VARIABLES
  req,    \* req[w]: arguments and local variables of the handler w runs
  reply   \* reply[u]: the last answer the page of u has received

vars == <<serverVars, req, reply>>

NoRow == 0
RowId == Nat \ {NoRow}
CartRow == [id : RowId, user : User, product : Product, quantity : Quantity]
Tables == [product : SUBSET Product, cart : SUBSET CartRow, nextCart : RowId]

Op == {"add", "list", "clear"}
Labels == {"idle", "lookup", "write", "select", "items", "clear",
           "commit", "answer"}
Writes == {"write", "clear"}

AddCall == [op : {"add"}, user : User, product : Product,
            quantity : Quantity, row : Nat]
ListCall == [op : {"list"}, user : User, todo : SUBSET CartRow,
             list : SUBSET CartRow]
ClearCall == [op : {"clear"}, user : User]
NoCall == [op |-> "none"]
Call == AddCall \cup ListCall \cup ClearCall \cup {NoCall}

Listed(w) == IF req[w].op = "list" THEN req[w].list ELSE {}
Reply == [status : Status \cup {"lost"}, list : SUBSET CartRow]
NoReply == [status |-> "none", list |-> {}]

Init ==
  /\ ServerInit([product |-> Product, cart |-> {}, nextCart |-> 1])
  /\ req = [w \in Worker |-> NoCall]
  /\ reply = [u \in User |-> NoReply]

-----------------------------------------------------------------------------
(* A request of user u reaches worker w.  A user who waits for answers has  *)
(* one request at a time; a second click, a second tab or a second device   *)
(* makes them overlap.                                                      *)
Submit(w, u, label, call) ==
  /\ Overlap \/ \A v \in Worker : InProgress(v) => req[v].user # u
  /\ Accept(w, label)
  /\ req' = [req EXCEPT ![w] = call]
  /\ reply' = [reply EXCEPT ![u] = NoReply]

(* add_to_cart: update_or_insert looks for a row of this user and product,  *)
(* then updates the row it has found or inserts one.                        *)
AddToCart(w, u, p, q) ==
  Submit(w, u, "lookup", [op |-> "add", user |-> u, product |-> p,
                          quantity |-> q, row |-> NoRow])

RowsOf(cart, u, p) == {r \in cart : r.user = u /\ r.product = p}

(* Table.__call__ selects with limitby=(0, 1) and no order: the id of some   *)
(* row, if there is one.                                                    *)
SomeRow(rows) == IF rows = {} THEN {NoRow} ELSE {r.id : r \in rows}

(* Mutant of LookupRow: update_or_insert called without its key searches    *)
(* for a row equal to all the values.                                       *)
LookupRowByAllValues(w) ==
  /\ pc[w] = "lookup"
  /\ \E i \in SomeRow({r \in RowsOf(Seen(w).cart, req[w].user, req[w].product) :
                          r.quantity = req[w].quantity}) :
       req' = [req EXCEPT ![w].row = i]
  /\ Read(w, "write")
  /\ UNCHANGED reply

LookupRow(w) ==
  /\ pc[w] = "lookup"
  /\ \E i \in SomeRow(RowsOf(Seen(w).cart, req[w].user, req[w].product)) :
       req' = [req EXCEPT ![w].row = i]
  /\ Read(w, "write")
  /\ UNCHANGED reply

(* Mutant of RowFor: the columns of the user and the product swapped. *)
RowForSwapped(i, call) == [id |-> i, user |-> call.product,
                           product |-> call.user, quantity |-> call.quantity]

RowFor(i, call) == [id |-> i, user |-> call.user, product |-> call.product,
                    quantity |-> call.quantity]

(* UPDATE ... WHERE id = row changes nothing when the row is gone.          *)
UpdateRow(tables, call) ==
  [tables EXCEPT !.cart = {IF r.id = call.row THEN RowFor(r.id, call) ELSE r :
                             r \in tables.cart}]

(* The ids are AUTOINCREMENT: an id is never given twice. *)
InsertRow(tables, call) ==
  [tables EXCEPT !.cart = @ \cup {RowFor(tables.nextCart, call)},
                 !.nextCart = @ + 1]

WriteRow(w) ==
  /\ pc[w] = "write"
  /\ \/ req[w].row # NoRow /\ Write(w, UpdateRow(Seen(w), req[w]), "commit")
     \/ req[w].row = NoRow /\ Write(w, InsertRow(Seen(w), req[w]), "commit")
  /\ UNCHANGED <<req, reply>>

(* get_cart_list: one SELECT of the rows of the user, then one of the       *)
(* product of each row.                                                     *)
GetCartList(w, u) ==
  Submit(w, u, "select", [op |-> "list", user |-> u, todo |-> {}, list |-> {}])

Rest(todo) == IF todo = {} THEN "commit" ELSE "items"

SelectRows(w) ==
  LET rows == {r \in Seen(w).cart : r.user = req[w].user} IN
  /\ pc[w] = "select"
  /\ req' = [req EXCEPT ![w].todo = rows]
  /\ Read(w, Rest(rows))
  /\ UNCHANGED reply

(* Mutant of SelectItem: the loop does not advance. *)
SelectItemAgain(w) ==
  /\ pc[w] = "items"
  /\ \E row \in req[w].todo :
       /\ row.product \in Seen(w).product
       /\ req' = [req EXCEPT ![w].list = @ \cup {row}]
       /\ Read(w, "items")
  /\ UNCHANGED reply

(* item[0] of a product that no longer exists raises IndexError. *)
SelectItem(w) ==
  /\ pc[w] = "items"
  /\ \E row \in req[w].todo :
       \/ /\ row.product \in Seen(w).product
          /\ req' = [req EXCEPT ![w].todo = @ \ {row},
                                ![w].list = @ \cup {row}]
          /\ Read(w, Rest(req[w].todo \ {row}))
       \/ /\ row.product \notin Seen(w).product
          /\ Fail(w)
          /\ UNCHANGED req
  /\ UNCHANGED reply

(* delete_cart_list: one DELETE of all the rows of the user. *)
DeleteCartList(w, u) == Submit(w, u, "clear", [op |-> "clear", user |-> u])

(* Mutant of DeleteRows: a DELETE without its condition. *)
DeleteAllRows(w) ==
  /\ pc[w] = "clear"
  /\ Write(w, [Seen(w) EXCEPT !.cart = {}], "commit")
  /\ UNCHANGED <<req, reply>>

DeleteRows(w) ==
  /\ pc[w] = "clear"
  /\ Write(w, [Seen(w) EXCEPT !.cart = {r \in @ : r.user # req[w].user}],
           "commit")
  /\ UNCHANGED <<req, reply>>

-----------------------------------------------------------------------------
(* The page of the user receives the answer. *)
Deliver(w) ==
  /\ Respond(w)
  /\ reply' = [reply EXCEPT ![req[w].user] =
                 [status |-> status[w],
                  list |-> IF status[w] = "ok" THEN Listed(w) ELSE {}]]
  /\ req' = [req EXCEPT ![w] = NoCall]

ServerCrash ==
  /\ Crash
  /\ req' = [w \in Worker |-> NoCall]
  /\ reply' = [u \in User |->
                 IF \E w \in Worker : InProgress(w) /\ req[w].user = u
                 THEN [status |-> "lost", list |-> {}] ELSE reply[u]]

(* The administrator deletes a product.  A cart holds the product's number  *)
(* as plain text and not as a reference, so its rows stay.                  *)
DeleteProduct(p) ==
  /\ AdminDeletes
  /\ writer = NoWorker
  /\ p \in db.product
  /\ db' = [db EXCEPT !.product = @ \ {p}]
  /\ work' = db'
  /\ UNCHANGED <<writer, pc, status, accepted, req, reply>>

Handler(w) ==
  \/ LookupRow(w) \/ WriteRow(w)
  \/ SelectRows(w) \/ SelectItem(w)
  \/ DeleteRows(w)

Finish(w) ==
  /\ Commit(w) \/ CommitFails(w) \/ LockTimeout(w, Writes)
  /\ UNCHANGED <<req, reply>>

(* What the server does on its own with the request of worker w. *)
Serve(w) == Handler(w) \/ Finish(w) \/ Deliver(w)

Click(w, u) ==
  \/ \E p \in Product, q \in Quantity : AddToCart(w, u, p, q)
  \/ GetCartList(w, u)
  \/ DeleteCartList(w, u)

Done == Quiescent /\ UNCHANGED vars

Next ==
  \/ \E w \in Worker, u \in User : Click(w, u)
  \/ \E w \in Worker : Serve(w)
  \/ \E p \in Product : DeleteProduct(p)
  \/ ServerCrash
  \/ Done

Spec == Init /\ [][Next]_vars

(* A worker thread runs until its request is answered; the lock wait of a   *)
(* statement is bounded by the timeout of the driver.  Users, the           *)
(* administrator and crashes are not fair.                                  *)
Fairness == \A w \in Worker : WF_vars(Serve(w))
FairSpec == Spec /\ Fairness

-----------------------------------------------------------------------------
TypeOK ==
  /\ db \in Tables /\ work \in Tables
  /\ writer \in Worker \cup {NoWorker}
  /\ pc \in [Worker -> Labels]
  /\ status \in [Worker -> Status]
  /\ accepted \in Nat
  /\ req \in [Worker -> Call]
  /\ reply \in [User -> Reply]

(* A user who waits for answers has at most one row per product in the      *)
(* cart: update_or_insert looks first and writes later, without the lock in *)
(* between.                                                                 *)
UniqueRows ==
  \A r, s \in db.cart : r.user = s.user /\ r.product = s.product => r = s

(* Every product in a cart exists, so that the cart can be listed.          *)
CartIsListable == \A r \in db.cart : r.product \in db.product

(* A request changes the rows of its own user only, even when the row it    *)
(* had found was deleted in between: UPDATE goes by an id looked up before. *)
OthersUntouched ==
  [][\A w \in Worker, u \in User :
       Commit(w) /\ req[w].user # u
         => {r \in db.cart : r.user = u} = {r \in db'.cart : r.user = u}]_vars

(* A page that is told its quantity was written finds it in the database    *)
(* (no other request of the user being served).                             *)
AckedIsStored ==
  [][\A w \in Worker :
       Deliver(w) /\ status[w] = "ok" /\ req[w].op = "add"
         => \E r \in RowsOf(db.cart, req[w].user, req[w].product) :
              r.quantity = req[w].quantity]_vars

(* Every accepted request is answered or dies with the server: a request    *)
(* that waits for the write lock is never left waiting.                     *)
EveryRequestEnds == \A w \in Worker : InProgress(w) ~> ~InProgress(w)

(* The promise of CartSpec, for users who wait for answers. *)
Contents(rows) ==
  [p \in Product |-> {r.quantity : r \in {s \in rows : s.product = p}}]
Serving(u) == {w \in Worker : InProgress(w) /\ req[w].user = u}
TheWorker(u) == CHOOSE w \in Serving(u) : TRUE

CartOf(tables, u) == {r \in tables.cart : r.user = u}
PhaseOf(u) ==
  IF Serving(u) = {} THEN "idle"
  ELSE IF pc[TheWorker(u)] = "answer" /\ status[TheWorker(u)] = "ok" THEN "done" ELSE "asked"
Asking(call) ==
  IF call.op = "add"
  THEN [op |-> "add", product |-> call.product, quantity |-> call.quantity]
  ELSE [op |-> call.op]
AskedOf(u) == IF Serving(u) = {} THEN NoCall ELSE Asking(req[TheWorker(u)])
ToldOf(u) == [status |-> reply[u].status, list |-> Contents(reply[u].list)]

Abstract == INSTANCE CartSpec WITH
  cart  <- [u \in User |-> Contents(CartOf(db, u))],
  phase <- [u \in User |-> PhaseOf(u)],
  asked <- [u \in User |-> AskedOf(u)],
  reply <- [u \in User |-> ToldOf(u)]

(* Every request of a user who waits for answers takes effect at one        *)
(* instant: a list that is read in several statements is the cart at the    *)
(* end, and an error has changed nothing.                                   *)
ImplementsCartSpec == Abstract!Spec
=============================================================================
