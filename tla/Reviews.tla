------------------------------ MODULE Reviews ------------------------------
(* The reviews of the store hw5_2: the handlers add_review and              *)
(* get_review_list of controllers/api.py, served concurrently by the        *)
(* workers of WebRequest, next to the stars that set_stars writes.          *)
(*                                                                          *)
(* get_review_list joins the reviews of a product with its stars by the     *)
(* email of their users, so that what is listed depends on both tables.     *)
EXTENDS WebRequest, Integers

CONSTANTS
  User, Product,
  Content,   \* the texts of reviews
  Overlap    \* BOOLEAN: may a user have several requests outstanding

VARIABLES
  req,    \* req[w]: arguments and local variables of the handler w runs
  reply   \* reply[u]: the last answer the page of u has received

vars == <<serverVars, req, reply>>

NoRow == 0
RowId == Nat \ {NoRow}

(* A star is only told by its user and product: they have at most one       *)
(* (OneStarPerUser of Ratings), and its points play no part here.           *)
ReviewRow == [id : RowId, user : User, product : Product, content : Content]
Tables == [review : SUBSET ReviewRow, nextReview : RowId,
           star : SUBSET (User \X Product)]

Labels == {"idle", "lookup", "write", "select", "commit", "answer"}
Writes == {"write"}

AddCall == [op : {"add"}, user : User, product : Product, content : Content,
            row : Nat]
ListCall == [op : {"list"}, user : User, product : Product,
             list : SUBSET ReviewRow]
NoCall == [op |-> "none"]
Call == AddCall \cup ListCall \cup {NoCall}

Reply == [status : Status \cup {"lost"}, list : SUBSET ReviewRow]
NoReply == [status |-> "none", list |-> {}]

Init ==
  /\ ServerInit([review |-> {}, nextReview |-> 1, star |-> {}])
  /\ req = [w \in Worker |-> NoCall]
  /\ reply = [u \in User |-> NoReply]

-----------------------------------------------------------------------------
(* Somebody who may add a review is signed in; the list is public, but its  *)
(* page too waits for answers or does not.                                  *)
Submit(w, u, label, call) ==
  /\ Overlap \/ \A v \in Worker : InProgress(v) => req[v].user # u
  /\ Accept(w, label)
  /\ req' = [req EXCEPT ![w] = call]
  /\ reply' = [reply EXCEPT ![u] = NoReply]

(* The Submit button.  The page sends no empty review; it calls             *)
(* disableElement, which does not keep the button from sending the next.    *)
AddReview(w, u, p, c) ==
  Submit(w, u, "lookup", [op |-> "add", user |-> u, product |-> p,
                          content |-> c, row |-> NoRow])

ReviewsOf(review, u, p) == {r \in review : r.user = u /\ r.product = p}

(* Table.__call__ selects with limitby=(0, 1) and no order. *)
SomeRow(rows) == IF rows = {} THEN {NoRow} ELSE {r.id : r \in rows}

(* Mutant of LookupReview: the key without the email of the user. *)
LookupReviewOfProduct(w) ==
  /\ pc[w] = "lookup"
  /\ \E i \in SomeRow({r \in Seen(w).review : r.product = req[w].product}) :
       req' = [req EXCEPT ![w].row = i]
  /\ Read(w, "write")
  /\ UNCHANGED reply

LookupReview(w) ==
  /\ pc[w] = "lookup"
  /\ \E i \in SomeRow(ReviewsOf(Seen(w).review, req[w].user, req[w].product)) :
       req' = [req EXCEPT ![w].row = i]
  /\ Read(w, "write")
  /\ UNCHANGED reply

(* The update leaves the user and the name of the row, the insert takes     *)
(* them from the defaults of the table, the user who is signed in.          *)
UpdateReview(tables, call) ==
  [tables EXCEPT !.review = {IF r.id = call.row
                             THEN [r EXCEPT !.product = call.product,
                                            !.content = call.content]
                             ELSE r : r \in tables.review}]

InsertReview(tables, call) ==
  [tables EXCEPT
     !.review = @ \cup {[id |-> tables.nextReview, user |-> call.user,
                         product |-> call.product, content |-> call.content]},
     !.nextReview = @ + 1]

WriteReview(w) ==
  /\ pc[w] = "write"
  /\ \/ /\ req[w].row # NoRow
        /\ Write(w, UpdateReview(Seen(w), req[w]), "commit")
     \/ /\ req[w].row = NoRow
        /\ Write(w, InsertReview(Seen(w), req[w]), "commit")
  /\ UNCHANGED <<req, reply>>

GetReviewList(w, u, p) ==
  Submit(w, u, "select", [op |-> "list", user |-> u, product |-> p, list |-> {}])

(* One SELECT that joins the two tables. *)
Joined(tables, p) ==
  {r \in tables.review : r.product = p /\ <<r.user, p>> \in tables.star}

SelectReviews(w) ==
  /\ pc[w] = "select"
  /\ req' = [req EXCEPT ![w].list = Joined(Seen(w), req[w].product)]
  /\ Read(w, "commit")
  /\ UNCHANGED reply

(* A set_stars of user u commits (Ratings): it takes effect at once, when   *)
(* nobody holds the write lock.                                             *)
RateProduct(u, p) ==
  /\ writer = NoWorker
  /\ db' = [db EXCEPT !.star = @ \cup {<<u, p>>}]
  /\ work' = db'
  /\ UNCHANGED <<writer, pc, status, accepted, req, reply>>

-----------------------------------------------------------------------------
(* The page of the user receives the answer. *)
Deliver(w) ==
  /\ Respond(w)
  /\ reply' = [reply EXCEPT ![req[w].user] =
                 [status |-> status[w],
                  list |-> IF status[w] = "ok" /\ req[w].op = "list"
                           THEN req[w].list ELSE {}]]
  /\ req' = [req EXCEPT ![w] = NoCall]

ServerCrash ==
  /\ Crash
  /\ req' = [w \in Worker |-> NoCall]
  /\ reply' = [u \in User |->
                 IF \E w \in Worker : InProgress(w) /\ req[w].user = u
                 THEN [status |-> "lost", list |-> {}] ELSE reply[u]]

Handler(w) == LookupReview(w) \/ WriteReview(w) \/ SelectReviews(w)

Finish(w) ==
  /\ Commit(w) \/ CommitFails(w) \/ LockTimeout(w, Writes)
  /\ UNCHANGED <<req, reply>>

(* What the server does on its own with the request of worker w. *)
Serve(w) == Handler(w) \/ Finish(w) \/ Deliver(w)

Click(w, u) ==
  \E p \in Product :
    \/ \E c \in Content : AddReview(w, u, p, c)
    \/ GetReviewList(w, u, p)

Done == Quiescent /\ UNCHANGED vars

Next ==
  \/ \E w \in Worker, u \in User : Click(w, u)
  \/ \E w \in Worker : Serve(w)
  \/ \E u \in User, p \in Product : RateProduct(u, p)
  \/ ServerCrash
  \/ Done

Spec == Init /\ [][Next]_vars

-----------------------------------------------------------------------------
TypeOK ==
  /\ db \in Tables /\ work \in Tables
  /\ writer \in Worker \cup {NoWorker}
  /\ pc \in [Worker -> Labels]
  /\ status \in [Worker -> Status]
  /\ accepted \in Nat
  /\ req \in [Worker -> Call]
  /\ reply \in [User -> Reply]

(* A user has at most one review per product, whatever other users review   *)
(* at the same time; a second submission replaces the first.                *)
OneReviewPerUser ==
  \A r, s \in db.review : r.user = s.user /\ r.product = s.product => r = s

(* The promise of ReviewSpec, for users who wait for answers.               *)
Texts(rows) == {[user |-> r.user, content |-> r.content] : r \in rows}
Serving(u) == {w \in Worker : InProgress(w) /\ req[w].user = u}
TheWorker(u) == CHOOSE w \in Serving(u) : TRUE

(* A list is taken at its SELECT, a review stored at its commit. *)
TakenEffect(w) ==
  \/ pc[w] = "answer" /\ status[w] = "ok"
  \/ pc[w] = "commit" /\ req[w].op = "list"

ContentsOf(tables, u, p) == {r.content : r \in ReviewsOf(tables.review, u, p)}
StoredOf(u) == [p \in Product |-> ContentsOf(db, u, p)]
PhaseOf(u) ==
  IF Serving(u) = {} THEN "idle"
  ELSE IF TakenEffect(TheWorker(u)) THEN "done" ELSE "asked"
Asking(call) ==
  IF call.op = "add"
  THEN [op |-> "add", product |-> call.product, content |-> call.content]
  ELSE [op |-> "list", product |-> call.product]
AskedOf(u) == IF Serving(u) = {} THEN NoCall ELSE Asking(req[TheWorker(u)])
ResultOf(u) ==
  IF PhaseOf(u) = "done" /\ req[TheWorker(u)].op = "list"
  THEN Texts(req[TheWorker(u)].list) ELSE {}
ToldOf(u) == [status |-> reply[u].status, list |-> Texts(reply[u].list)]

Abstract == INSTANCE ReviewSpec WITH
  review <- [u \in User |-> StoredOf(u)],
  star   <- db.star,
  phase  <- [u \in User |-> PhaseOf(u)],
  asked  <- [u \in User |-> AskedOf(u)],
  result <- [u \in User |-> ResultOf(u)],
  reply  <- [u \in User |-> ToldOf(u)]

(* Every request of a user who waits for answers takes effect at one        *)
(* instant: a list shows exactly what is stored then, also what others have *)
(* just written, and a review never replaces that of somebody else.         *)
ImplementsReviewSpec == Abstract!Spec
=============================================================================
