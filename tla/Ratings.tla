------------------------------ MODULE Ratings ------------------------------
(* The star ratings of the store hw5_2 and the catalogue that shows them:   *)
(* the handlers set_stars, get_product_list and search of                   *)
(* controllers/api.py, the create and edit forms of the products grid       *)
(* (controllers/default.py) and the deletion of a product by the            *)
(* administrator (appadmin), served concurrently by the workers of          *)
(* WebRequest.                                                              *)
(*                                                                          *)
(* The rating of a product is kept twice: as the star rows its users have   *)
(* set, and as the column product_rating, their average, which set_stars    *)
(* recomputes and every list shows.                                         *)
EXTENDS WebRequest, Integers, FiniteSets, FiniteSetsExt

CONSTANTS
  User,
  Stars,         \* the ratings the page can post, out of 1..5
  Initially,     \* how many products there are at the start
  Typed,         \* the ratings a user may type into a form of the grid
  Overlap,       \* BOOLEAN: may a user have several requests outstanding
  GridEdits,     \* BOOLEAN: are products created and edited in the grid
  AdminDeletes   \* BOOLEAN: may the administrator delete products

ASSUME StarsAssumption == Stars \subseteq 1..5 /\ Typed \subseteq 0..5
ASSUME CatalogueAssumption == Initially \in Nat
ASSUME SwitchAssumption ==
  /\ Overlap \in BOOLEAN /\ GridEdits \in BOOLEAN /\ AdminDeletes \in BOOLEAN

VARIABLES
  req,    \* req[w]: arguments and local variables of the handler w runs
  form    \* form[u]: what the edit form open in the browser of u shows

vars == <<serverVars, req, form>>

NoRow == 0
RowId == Nat \ {NoRow}

(* product: the rows of the table by id; a product without a name has NULL  *)
(* (None) there.  star: a set of rows.                                      *)
StarRow == [id : RowId, user : User, product : RowId, stars : Stars]
IsTables(t) ==
  /\ DOMAIN t = {"product", "nextProduct", "star", "nextStar"}
  /\ DOMAIN t.product \subseteq RowId
  /\ \A p \in DOMAIN t.product : t.product[p] \in [named : BOOLEAN, rating : 0..5]
  /\ t.star \subseteq StarRow
  /\ t.nextProduct \in RowId /\ t.nextStar \in RowId

SetCall == [op : {"set"}, user : User, product : RowId, stars : Stars,
            row : Nat, average : 0..5]
SearchCall == [op : {"search"}]
EditCall == [op : {"edit"}, product : RowId, rating : 0..5]
CreateCall == [op : {"create"}, rating : 0..5]
NoCall == [op |-> "none"]
Call == SetCall \cup SearchCall \cup EditCall \cup CreateCall \cup {NoCall}

NoForm == [product |-> NoRow, rating |-> 0]

Labels == {"idle", "lookup", "star", "sum", "rate", "search", "edit",
           "create", "commit", "answer"}
Writes == {"star", "edit", "create"}

Init ==
  /\ ServerInit([product |-> [p \in 1..Initially |-> [named |-> TRUE, rating |-> 0]],
                 nextProduct |-> Initially + 1,
                 star |-> {}, nextStar |-> 1])
  /\ req = [w \in Worker |-> NoCall]
  /\ form = [u \in User |-> NoForm]

-----------------------------------------------------------------------------
Submit(w, label, call) ==
  /\ Accept(w, label)
  /\ req' = [req EXCEPT ![w] = call]

(* set_stars, posted by the page for a product of its list, which may be    *)
(* an old list.                                                             *)
SetStars(w, u, p, s) ==
  /\ Overlap \/ \A v \in Worker :
                  InProgress(v) /\ req[v].op = "set" => req[v].user # u
  /\ p < db.nextProduct
  /\ Submit(w, "lookup", [op |-> "set", user |-> u, product |-> p, stars |-> s,
                          row |-> NoRow, average |-> 0])
  /\ UNCHANGED form

StarsOf(star, p) == {r \in star : r.product = p}

(* Table.__call__ selects with limitby=(0, 1) and no order: the id of some   *)
(* row, if there is one.                                                    *)
SomeRow(rows) == IF rows = {} THEN {NoRow} ELSE {r.id : r \in rows}

(* Mutant of LookupStar: update_or_insert called without its key searches   *)
(* for a row equal to all the values.                                       *)
LookupStarByAllValues(w) ==
  /\ pc[w] = "lookup"
  /\ \E i \in SomeRow({r \in StarsOf(Seen(w).star, req[w].product) :
                          r.user = req[w].user /\ r.stars = req[w].stars}) :
       req' = [req EXCEPT ![w].row = i]
  /\ Read(w, "star")
  /\ UNCHANGED form

LookupStar(w) ==
  /\ pc[w] = "lookup"
  /\ \E i \in SomeRow({r \in StarsOf(Seen(w).star, req[w].product) :
                          r.user = req[w].user}) :
       req' = [req EXCEPT ![w].row = i]
  /\ Read(w, "star")
  /\ UNCHANGED form

StarFor(i, call) == [id |-> i, user |-> call.user, product |-> call.product,
                     stars |-> call.stars]

UpdateStar(tables, call) ==
  [tables EXCEPT !.star = {IF r.id = call.row THEN StarFor(r.id, call) ELSE r :
                             r \in tables.star}]

InsertStar(tables, call) ==
  [tables EXCEPT !.star = @ \cup {StarFor(tables.nextStar, call)},
                 !.nextStar = @ + 1]

(* Mutant of WriteStar: an update where there may be nothing to update. *)
WriteStarByUpdate(w) ==
  /\ pc[w] = "star"
  /\ Write(w, UpdateStar(Seen(w), req[w]), "sum")
  /\ UNCHANGED <<req, form>>

WriteStar(w) ==
  /\ pc[w] = "star"
  /\ \/ req[w].row # NoRow /\ Write(w, UpdateStar(Seen(w), req[w]), "sum")
     \/ req[w].row = NoRow /\ Write(w, InsertStar(Seen(w), req[w]), "sum")
  /\ UNCHANGED <<req, form>>

(* star_points / star_rating_count, a division of integers. *)
AverageOf(rows) ==
  MapThenSumSet(LAMBDA r : r.stars, rows) \div Cardinality(rows)

(* Mutant of SumStars: the rows are read on another connection, outside the *)
(* transaction of the request.                                              *)
SumCommittedStars(w) ==
  LET rows == StarsOf(db.star, req[w].product) IN
  /\ pc[w] = "sum"
  /\ req' = [req EXCEPT ![w].average = IF rows = {} THEN 0 ELSE AverageOf(rows)]
  /\ Read(w, "rate")
  /\ UNCHANGED form

SumStars(w) ==
  /\ pc[w] = "sum"
  /\ StarsOf(Seen(w).star, req[w].product) # {}
  /\ req' = [req EXCEPT ![w].average =
               AverageOf(StarsOf(Seen(w).star, req[w].product))]
  /\ Read(w, "rate")
  /\ UNCHANGED form

SetRating(tables, p, rating) ==
  [tables EXCEPT !.product[p].rating = rating]

InsertProduct(tables, row) ==
  [tables EXCEPT
     !.product = [q \in DOMAIN tables.product \cup {tables.nextProduct} |->
                    IF q = tables.nextProduct THEN row ELSE tables.product[q]],
     !.nextProduct = @ + 1]

(* Mutant of RateProduct: nothing to do for a product that is gone. *)
RateExistingProduct(w) ==
  /\ pc[w] = "rate"
  /\ req[w].product \in DOMAIN Seen(w).product
  /\ Write(w, SetRating(Seen(w), req[w].product, req[w].average), "commit")
  /\ UNCHANGED <<req, form>>

(* product.update_or_insert: a product that is gone is inserted anew, under *)
(* another id, with a rating and nothing else.                              *)
RateProduct(w) ==
  LET p == req[w].product
      tables == Seen(w) IN
  /\ pc[w] = "rate"
  /\ \/ /\ p \in DOMAIN tables.product
        /\ Write(w, SetRating(tables, p, req[w].average), "commit")
     \/ /\ p \notin DOMAIN tables.product
        /\ Write(w, InsertProduct(tables, [named |-> FALSE,
                                           rating |-> req[w].average]),
                 "commit")
  /\ UNCHANGED <<req, form>>

(* search: the name of every product is asked whether it starts with the    *)
(* text typed; None has no startswith.                                      *)
Search(w) ==
  /\ Submit(w, "search", [op |-> "search"])
  /\ UNCHANGED form

SearchProducts(w) ==
  LET product == Seen(w).product IN
  /\ pc[w] = "search"
  /\ \/ (\A p \in DOMAIN product : product[p].named) /\ Read(w, "commit")
     \/ (\E p \in DOMAIN product : ~product[p].named) /\ Fail(w)
  /\ UNCHANGED <<req, form>>

-----------------------------------------------------------------------------
(* The grid: a user opens the edit form of a product, which shows the row   *)
(* as it is then, and later posts it with every field of the row, the       *)
(* rating among them, changed or not.                                       *)
OpenForm(u, p) ==
  /\ GridEdits
  /\ form[u] = NoForm
  /\ p \in DOMAIN db.product
  /\ form' = [form EXCEPT ![u] = [product |-> p, rating |-> db.product[p].rating]]
  /\ UNCHANGED <<serverVars, req>>

PostForm(w, u) ==
  /\ form[u] # NoForm
  /\ \E r \in Typed \cup {form[u].rating} :
       Submit(w, "edit", [op |-> "edit", product |-> form[u].product, rating |-> r])
  /\ form' = [form EXCEPT ![u] = NoForm]

(* UPDATE ... WHERE id = product, a product that is gone stays so.          *)
EditProduct(w) ==
  LET p == req[w].product
      tables == Seen(w) IN
  /\ pc[w] = "edit"
  /\ Write(w, IF p \in DOMAIN tables.product
              THEN [tables EXCEPT !.product[p] = [named |-> TRUE,
                                                  rating |-> req[w].rating]]
              ELSE tables, "commit")
  /\ UNCHANGED <<req, form>>

PostNewProduct(w) ==
  /\ \E r \in Typed \cup {0} : Submit(w, "create", [op |-> "create", rating |-> r])
  /\ UNCHANGED form

CreateProduct(w) ==
  /\ pc[w] = "create"
  /\ Write(w, InsertProduct(Seen(w), [named |-> TRUE, rating |-> req[w].rating]),
           "commit")
  /\ UNCHANGED <<req, form>>

(* The administrator deletes a product; star_product_id is plain text and   *)
(* not a reference, so its stars stay.                                      *)
DeleteProduct(p) ==
  /\ AdminDeletes
  /\ writer = NoWorker
  /\ p \in DOMAIN db.product
  /\ db' = [db EXCEPT !.product = [q \in DOMAIN @ \ {p} |-> @[q]]]
  /\ work' = db'
  /\ UNCHANGED <<writer, pc, status, accepted, req, form>>

-----------------------------------------------------------------------------
Deliver(w) ==
  /\ Respond(w)
  /\ req' = [req EXCEPT ![w] = NoCall]
  /\ UNCHANGED form

ServerCrash ==
  /\ Crash
  /\ req' = [w \in Worker |-> NoCall]
  /\ UNCHANGED form

Handler(w) ==
  \/ LookupStar(w) \/ WriteStar(w) \/ SumStars(w) \/ RateProduct(w)
  \/ SearchProducts(w) \/ EditProduct(w) \/ CreateProduct(w)

Finish(w) ==
  /\ Commit(w) \/ CommitFails(w) \/ LockTimeout(w, Writes)
  /\ UNCHANGED <<req, form>>

(* What the server does on its own with the request of worker w. *)
Serve(w) == Handler(w) \/ Finish(w) \/ Deliver(w)

Click(w) ==
  \/ \E u \in User, p \in 1..db.nextProduct, s \in Stars : SetStars(w, u, p, s)
  \/ Search(w)
  \/ \E u \in User : PostForm(w, u)
  \/ PostNewProduct(w)

Done == Quiescent /\ UNCHANGED vars

Next ==
  \/ \E w \in Worker : Click(w)
  \/ \E w \in Worker : Serve(w)
  \/ \E u \in User, p \in DOMAIN db.product : OpenForm(u, p)
  \/ \E p \in DOMAIN db.product : DeleteProduct(p)
  \/ ServerCrash
  \/ Done

Spec == Init /\ [][Next]_vars

(* A worker thread runs until its request is answered; users, the           *)
(* administrator and crashes are not fair.                                  *)
Fairness == \A w \in Worker : WF_vars(Serve(w))
FairSpec == Spec /\ Fairness

-----------------------------------------------------------------------------
TypeOK ==
  /\ IsTables(db) /\ IsTables(work)
  /\ writer \in Worker \cup {NoWorker}
  /\ pc \in [Worker -> Labels]
  /\ status \in [Worker -> Status]
  /\ accepted \in Nat
  /\ req \in [Worker -> Call]
  /\ form \in [User -> [product : Nat, rating : 0..5]]

Averaged(tables) ==
  \A p \in DOMAIN tables.product :
    StarsOf(tables.star, p) # {}
      => tables.product[p].rating = AverageOf(StarsOf(tables.star, p))

(* The rating every list shows for a product is the average of the stars    *)
(* its users have set, whatever requests run at the same time and whichever *)
(* of them fail.                                                            *)
RatingIsAverage == Averaged(db)

(* A user who waits for answers has at most one star row per product. *)
OneStarPerUser ==
  \A r, s \in db.star : r.user = s.user /\ r.product = s.product => r = s

(* The average is never divided by a count of zero. *)
NoDivisionByZero ==
  \A w \in Worker :
    pc[w] = "sum" => StarsOf(Seen(w).star, req[w].product) # {}

(* A set_stars that commits leaves the product, if it exists, with the      *)
(* average of all its stars, also while the grid edits ratings.             *)
RatingFollowsStars ==
  [][\A w \in Worker :
       LET p == req[w].product IN
       Commit(w) /\ req[w].op = "set" /\ p \in DOMAIN db'.product
         => db'.product[p].rating = AverageOf(StarsOf(db'.star, p))]_vars

(* Every accepted request is answered or dies with the server: the write    *)
(* lock set_stars keeps over three statements is always given up.           *)
EveryRequestEnds == \A w \in Worker : InProgress(w) ~> ~InProgress(w)

(* Every product of the catalogue can be displayed and searched. *)
CatalogueIsNice == \A p \in DOMAIN db.product : db.product[p].named
=============================================================================
