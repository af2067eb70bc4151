--------------------------- MODULE RatingsProofs ---------------------------
(* Theorems about Ratings: the average stored with a product is the average *)
(* of its stars, for every number of users, products, workers and requests, *)
(* however they overlap and whichever of them fail.                         *)
(*                                                                          *)
(* What AverageOf computes plays no part: it is some function of the set of *)
(* the star rows of a product.                                              *)
EXTENDS Ratings, TLAPS

(* The values a rating can have, as far as these proofs need to know.       *)
Value == Int \cup {AverageOf(rows) : rows \in SUBSET StarRow}

ProductRow == [named : BOOLEAN, rating : Value]
Tables == [product : UNION {[ids -> ProductRow] : ids \in SUBSET RowId},
           nextProduct : RowId, star : SUBSET StarRow, nextStar : RowId]

SetArgs == [op : {"set"}, user : User, product : RowId, stars : Stars,
            row : Nat, average : Value]
OtherArgs == [op : {"search"}] \cup [op : {"none"}]
               \cup [op : {"edit"}, product : Nat, rating : Value]
               \cup [op : {"create"}, rating : Value]

WellTyped ==
  /\ db \in Tables /\ work \in Tables
  /\ writer \in Worker \cup {NoWorker}
  /\ pc \in [Worker -> Labels]
  /\ req \in [Worker -> SetArgs \cup OtherArgs]
  /\ form \in [User -> [product : Nat, rating : Value]]
  /\ \A w \in Worker :
       /\ pc[w] \in {"lookup", "star", "sum", "rate"} => req[w] \in SetArgs
       /\ pc[w] = "edit" => req[w].op = "edit"
       /\ pc[w] = "create" => req[w].op = "create"
       /\ pc[w] = "search" => req[w].op = "search"

(* set_stars holds the write lock from the write of the star to the commit, *)
(* the forms of the grid from their only write.                             *)
LockOK ==
  /\ writer = NoWorker => work = db
  /\ \A w \in Worker :
       /\ writer = w => pc[w] \in {"sum", "rate", "commit"}
       /\ pc[w] \in {"sum", "rate"} => writer = w
       /\ pc[w] = "commit" /\ req[w].op = "set" => writer = w

IdsOK(t) ==
  /\ \A r \in t.star : r.id < t.nextStar
  /\ \A r, s \in t.star : r.id = s.id => r = s

(* Stars and requests are for products that exist or have existed, so the   *)
(* id of the next product has no stars yet.                                 *)
KnownOK ==
  /\ db.nextProduct <= work.nextProduct
  /\ \A r \in db.star \cup work.star : r.product < db.nextProduct
  /\ \A w \in Worker :
       pc[w] \in {"lookup", "star", "sum", "rate"}
         => req[w].product < db.nextProduct

(* The star row set_stars has found stays, and stays for this product.      *)
FoundOK ==
  \A w \in Worker :
    pc[w] = "star" /\ req[w].row # NoRow =>
      \E r \in db.star : r.id = req[w].row /\ r.product = req[w].product

(* No star row of t is missing from t2. *)
KeepsStars(t, t2) ==
  \A r \in t.star : \E s \in t2.star : s.id = r.id /\ s.product = r.product

(* How far the holder of the lock has come with set_stars. *)
SetOK ==
  \A w \in Worker :
    LET p == req[w].product
        stars == StarsOf(work.star, p) IN
    /\ pc[w] \in {"sum", "rate"} => stars # {}
    /\ pc[w] = "rate" => req[w].average = AverageOf(stars)
    /\ pc[w] = "commit" /\ req[w].op = "set" /\ p \in DOMAIN work.product
         => work.product[p].rating = AverageOf(stars)

Kept == LockOK /\ IdsOK(db) /\ IdsOK(work) /\ KnownOK /\ FoundOK
          /\ KeepsStars(db, work) /\ SetOK

-----------------------------------------------------------------------------
(* What the two ways of writing a star do to the tables. *)
StarWritten(t, t2, p) ==
  /\ t2 \in Tables
  /\ t2.product = t.product /\ t2.nextProduct = t.nextProduct
  /\ IdsOK(t2)
  /\ KeepsStars(t, t2)
  /\ StarsOf(t2.star, p) # {}
  /\ \A r \in t2.star : r \in t.star \/ r.product = p
  /\ \A q \in RowId \ {p} : StarsOf(t2.star, q) = StarsOf(t.star, q)

(* Changing a star changes the stars of its product only. *)
LEMMA UpdateStarWrites ==
  ASSUME NEW t \in Tables, NEW call \in SetArgs, IdsOK(t),
         \E r \in t.star : r.id = call.row /\ r.product = call.product
  PROVE  StarWritten(t, UpdateStar(t, call), call.product)
<1> DEFINE new(r) == IF r.id = call.row THEN StarFor(r.id, call) ELSE r
           t2 == UpdateStar(t, call)
<1>1. /\ t2.star = {new(r) : r \in t.star} /\ t2.nextStar = t.nextStar
      /\ t2.product = t.product /\ t2.nextProduct = t.nextProduct
  BY DEF UpdateStar, Tables
<1>2. \A r \in t.star : r.id = call.row => r.product = call.product
  BY DEF IdsOK
<1>3. \A r \in t.star : new(r).id = r.id /\ new(r).product = r.product
  BY <1>2 DEF StarFor
<1>4. \A r \in t.star : new(r) = r \/ new(r).product = call.product
  BY DEF StarFor
<1>5. \A r \in t.star : new(r) \in StarRow
  BY DEF StarFor, StarRow, Tables, SetArgs
<1>6. t2 \in Tables
  <2>1. {new(r) : r \in t.star} \in SUBSET StarRow
    BY <1>5
  <2> QED
    BY <2>1 DEF UpdateStar, Tables
<1> HIDE DEF new, t2
<1>7. IdsOK(t2) /\ KeepsStars(t, t2)
  BY <1>1, <1>3 DEF IdsOK, KeepsStars
<1>8. StarsOf(t2.star, call.product) # {}
  BY <1>1, <1>3 DEF StarsOf
<1>9. \A q \in RowId \ {call.product} : StarsOf(t2.star, q) = StarsOf(t.star, q)
  BY <1>1, <1>3, <1>4 DEF StarsOf
<1>10. StarWritten(t, t2, call.product)
  BY <1>1, <1>4, <1>6, <1>7, <1>8, <1>9 DEF StarWritten
<1> QED
  BY <1>10 DEF t2

(* Inserting a star changes the stars of its product only. *)
LEMMA InsertStarWrites ==
  ASSUME NEW t \in Tables, NEW call \in SetArgs, IdsOK(t)
  PROVE  StarWritten(t, InsertStar(t, call), call.product)
<1> DEFINE new == StarFor(t.nextStar, call)
           t2 == InsertStar(t, call)
<1>1. /\ t2.star = t.star \cup {new} /\ t2.nextStar = t.nextStar + 1
      /\ t2.product = t.product /\ t2.nextProduct = t.nextProduct
  BY DEF InsertStar, Tables
<1>2. /\ new.id = t.nextStar /\ new.product = call.product /\ new \in StarRow
      /\ t.nextStar \in Nat /\ t.nextStar + 1 \in RowId
      /\ \A r \in t.star : r.id \in Nat
  BY DEF StarFor, StarRow, Tables, SetArgs, RowId, NoRow
<1>3. t2 \in Tables
  BY <1>2 DEF InsertStar, Tables
<1> HIDE DEF new, t2
<1>4. IdsOK(t2) /\ KeepsStars(t, t2)
  BY <1>1, <1>2 DEF IdsOK, KeepsStars
<1>5. StarWritten(t, t2, call.product)
  BY <1>1, <1>2, <1>3, <1>4 DEF StarWritten, StarsOf
<1> QED
  BY <1>5 DEF t2

(* What writing a product does to the tables. *)
ProductWritten(t, t2) ==
  /\ t2 \in Tables
  /\ t2.star = t.star /\ t2.nextStar = t.nextStar
  /\ t.nextProduct <= t2.nextProduct

(* Setting the rating of a product changes nothing else. *)
LEMMA SetRatingWrites ==
  ASSUME NEW t \in Tables, NEW p \in DOMAIN t.product, NEW v \in Value
  PROVE  /\ ProductWritten(t, SetRating(t, p, v))
         /\ DOMAIN SetRating(t, p, v).product = DOMAIN t.product
         /\ SetRating(t, p, v).product[p].rating = v
         /\ \A q \in DOMAIN t.product \ {p} :
              SetRating(t, p, v).product[q] = t.product[q]
<1> DEFINE t2 == SetRating(t, p, v)
<1>1. PICK ids \in SUBSET RowId : t.product \in [ids -> ProductRow]
  BY DEF Tables
<1>2. t.product[p] \in ProductRow
  BY <1>1
<1>3. [t.product[p] EXCEPT !.rating = v] \in ProductRow
  BY <1>2 DEF ProductRow
<1>4. t2.product = [t.product EXCEPT ![p] = [t.product[p] EXCEPT !.rating = v]]
  BY DEF SetRating, Tables
<1>5. t2.product \in [ids -> ProductRow]
  BY <1>1, <1>3, <1>4
<1>6. t2 \in Tables
  BY <1>5 DEF SetRating, Tables
<1>7. /\ t2.star = t.star /\ t2.nextStar = t.nextStar
      /\ t2.nextProduct = t.nextProduct /\ t.nextProduct \in Nat
  BY DEF SetRating, Tables, RowId
<1>8. t2.product[p].rating = v
  BY <1>1, <1>2, <1>4 DEF ProductRow
<1> HIDE DEF t2
<1>9. /\ ProductWritten(t, t2) /\ DOMAIN t2.product = DOMAIN t.product
      /\ \A q \in DOMAIN t.product \ {p} : t2.product[q] = t.product[q]
  BY <1>1, <1>4, <1>6, <1>7 DEF ProductWritten
<1> QED
  BY <1>8, <1>9 DEF t2

(* Inserting a product changes no other product and takes a new id. *)
LEMMA InsertProductWrites ==
  ASSUME NEW t \in Tables, NEW row \in ProductRow
  PROVE  /\ ProductWritten(t, InsertProduct(t, row))
         /\ DOMAIN InsertProduct(t, row).product
              = DOMAIN t.product \cup {t.nextProduct}
         /\ \A q \in DOMAIN t.product \ {t.nextProduct} :
              InsertProduct(t, row).product[q] = t.product[q]
<1> DEFINE t2 == InsertProduct(t, row)
           ids == DOMAIN t.product \cup {t.nextProduct}
<1>1. /\ t2.star = t.star /\ t2.nextStar = t.nextStar
      /\ t2.nextProduct = t.nextProduct + 1
      /\ t2.product = [q \in ids |-> IF q = t.nextProduct THEN row
                                     ELSE t.product[q]]
  BY DEF InsertProduct, Tables
<1>2. t.nextProduct \in RowId /\ t.nextProduct \in Nat /\ t.nextProduct + 1 \in RowId
  BY DEF Tables, RowId, NoRow
<1>3. DOMAIN t.product \subseteq RowId /\ \A q \in DOMAIN t.product :
                                            t.product[q] \in ProductRow
  BY DEF Tables
<1>4. t2.product \in [ids -> ProductRow] /\ ids \in SUBSET RowId
  BY <1>1, <1>2, <1>3
<1>5. t2 \in Tables
  BY <1>2, <1>4 DEF InsertProduct, Tables
<1> HIDE DEF t2
<1>6. /\ ProductWritten(t, t2)
      /\ DOMAIN t2.product = DOMAIN t.product \cup {t.nextProduct}
      /\ \A q \in DOMAIN t.product \ {t.nextProduct} : t2.product[q] = t.product[q]
  BY <1>1, <1>2, <1>5 DEF ProductWritten
<1> QED
  BY <1>6 DEF t2

-----------------------------------------------------------------------------
(* Typing. *)
LEMMA SeenType ==
  ASSUME WellTyped, NEW w \in Worker
  PROVE  Seen(w) \in Tables
BY DEF WellTyped, Seen

(* The average of the stars of a product is a value. *)
LEMMA AverageIsValue ==
  ASSUME NEW t \in Tables, NEW p
  PROVE  AverageOf(StarsOf(t.star, p)) \in Value
<1>1. StarsOf(t.star, p) \in SUBSET StarRow
  BY DEF Tables, StarsOf
<1> QED
  BY <1>1 DEF Value

(* A step of worker w that changes its label, its arguments to new ones and *)
(* the tables to others of the right type.                                  *)
LEMMA StepTyped ==
  ASSUME WellTyped, NEW w \in Worker, NEW label \in Labels,
         NEW call \in SetArgs \cup OtherArgs,
         pc' = [pc EXCEPT ![w] = label], req' = [req EXCEPT ![w] = call],
         db' \in Tables, work' \in Tables,
         writer' \in Worker \cup {NoWorker}, UNCHANGED form,
         label \in {"lookup", "star", "sum", "rate"} => call \in SetArgs,
         label = "edit" => call.op = "edit",
         label = "create" => call.op = "create",
         label = "search" => call.op = "search"
  PROVE  WellTyped'
BY DEF WellTyped

(* Writing well-typed tables keeps the types. *)
LEMMA WriteTyped ==
  ASSUME WellTyped, NEW w \in Worker, NEW t \in Tables, NEW label \in {"sum", "commit"},
         Write(w, t, label), UNCHANGED <<req, form>>,
         label = "sum" => req[w] \in SetArgs
  PROVE  WellTyped'
BY DEF WellTyped, Write, Goto, Labels

(* A rollback keeps the types. *)
LEMMA FailTyped ==
  ASSUME WellTyped, NEW w \in Worker, Rollback(w), UNCHANGED <<req, form>>,
         pc' = [pc EXCEPT ![w] = "answer"]
  PROVE  WellTyped'
BY DEF WellTyped, Rollback, Labels

(* Every variable keeps its type, whatever AverageOf returns.               *)
THEOREM Typing == Spec => []WellTyped
<1>1. Init => WellTyped
  <2> SUFFICES ASSUME Init PROVE WellTyped
    OBVIOUS
  <2> DEFINE start == [product |-> [p \in 1..Initially |->
                                      [named |-> TRUE, rating |-> 0]],
                       nextProduct |-> Initially + 1,
                       star |-> {}, nextStar |-> 1]
  <2>1. 1..Initially \in SUBSET RowId /\ Initially + 1 \in RowId /\ 1 \in RowId
    BY CatalogueAssumption DEF RowId, NoRow
  <2>2. [p \in 1..Initially |-> [named |-> TRUE, rating |-> 0]]
          \in [1..Initially -> ProductRow]
    BY DEF ProductRow, Value
  <2>3. start \in Tables
    BY <2>1, <2>2 DEF Tables
  <2>4. /\ db = start /\ work = start /\ writer = NoWorker
        /\ pc = [w \in Worker |-> "idle"] /\ req = [w \in Worker |-> NoCall]
        /\ form = [u \in User |-> NoForm]
    BY DEF Init, ServerInit
  <2> HIDE DEF start
  <2>5. NoForm \in [product : Nat, rating : Value]
    BY DEF NoForm, NoRow, Value
  <2>6. NoCall \in SetArgs \cup OtherArgs
    BY DEF NoCall, OtherArgs
  <2> QED
    BY <2>3, <2>4, <2>5, <2>6 DEF WellTyped, Labels
<1>2. WellTyped /\ [Next]_vars => WellTyped'
  <2> SUFFICES ASSUME WellTyped, [Next]_vars PROVE WellTyped'
    OBVIOUS
  <2>0. /\ \A v \in 0..5 : v \in Value
        /\ Typed \subseteq Value
        /\ pc \in [Worker -> Labels] /\ req \in [Worker -> SetArgs \cup OtherArgs]
        /\ db \in Tables /\ work \in Tables /\ writer \in Worker \cup {NoWorker}
    BY StarsAssumption DEF Value, WellTyped
  <2>1. ASSUME NEW w \in Worker, Click(w) PROVE WellTyped'
    <3>1. CASE \E u \in User, p \in 1..db.nextProduct, s \in Stars :
                 SetStars(w, u, p, s)
      <4>1. PICK u \in User, p \in 1..db.nextProduct, s \in Stars :
                   SetStars(w, u, p, s)
        BY <3>1
      <4>2. p \in RowId
        BY <2>0 DEF Tables, RowId, NoRow
      <4> DEFINE call == [op |-> "set", user |-> u, product |-> p, stars |-> s,
                          row |-> NoRow, average |-> 0]
      <4>3. call \in SetArgs
        BY <2>0, <4>2 DEF SetArgs, NoRow
      <4>4. Submit(w, "lookup", call) /\ UNCHANGED form
        BY <4>1 DEF SetStars
      <4> HIDE DEF call
      <4> QED
        BY <2>0, <4>3, <4>4, StepTyped DEF Submit, Accept, tableVars, Labels
    <3>2. CASE Search(w)
      <4>1. [op |-> "search"] \in OtherArgs
        BY DEF OtherArgs
      <4> QED
        BY <2>0, <3>2, <4>1, StepTyped
        DEF Search, Submit, Accept, tableVars, Labels
    <3>3. CASE \E u \in User : PostForm(w, u)
      <4>1. PICK u \in User : PostForm(w, u)
        BY <3>3
      <4>2. form[u] \in [product : Nat, rating : Value]
        BY DEF WellTyped
      <4>3. PICK r \in Typed \cup {form[u].rating} :
              Submit(w, "edit", [op |-> "edit", product |-> form[u].product,
                                 rating |-> r])
        BY <4>1 DEF PostForm
      <4> DEFINE call == [op |-> "edit", product |-> form[u].product, rating |-> r]
      <4>4. call \in OtherArgs /\ call.op = "edit"
        BY <2>0, <4>2 DEF OtherArgs
      <4>5. Submit(w, "edit", call)
        BY <4>3
      <4>6. NoForm \in [product : Nat, rating : Value]
        BY DEF NoForm, NoRow, Value
      <4>7. form' \in [User -> [product : Nat, rating : Value]]
        BY <4>1, <4>6 DEF PostForm, WellTyped
      <4> HIDE DEF call
      <4> QED
        BY <4>4, <4>5, <4>7 DEF WellTyped, Submit, Accept, tableVars, Labels
    <3>4. CASE PostNewProduct(w)
      <4>1. PICK r \in Typed \cup {0} :
              Submit(w, "create", [op |-> "create", rating |-> r])
        BY <3>4 DEF PostNewProduct
      <4> DEFINE call == [op |-> "create", rating |-> r]
      <4>2. call \in OtherArgs /\ call.op = "create"
        BY <2>0 DEF OtherArgs
      <4>3. Submit(w, "create", call) /\ UNCHANGED form
        BY <3>4, <4>1 DEF PostNewProduct
      <4> HIDE DEF call
      <4> QED
        BY <2>0, <4>2, <4>3, StepTyped DEF Submit, Accept, tableVars, Labels
    <3> QED
      BY <2>1, <3>1, <3>2, <3>3, <3>4 DEF Click
  <2>2. ASSUME NEW w \in Worker, LookupStar(w) PROVE WellTyped'
    <3>1. req[w] \in SetArgs
      BY <2>2 DEF LookupStar, WellTyped
    <3>2. PICK i \in SomeRow({r \in StarsOf(Seen(w).star, req[w].product) :
                                r.user = req[w].user}) :
            req' = [req EXCEPT ![w].row = i]
      BY <2>2 DEF LookupStar
    <3>3. i \in Nat
      BY <3>2, SeenType DEF SomeRow, StarsOf, Tables, StarRow, RowId, NoRow
    <3> DEFINE call == [req[w] EXCEPT !.row = i]
    <3>4. call \in SetArgs /\ req' = [req EXCEPT ![w] = call]
      BY <3>1, <3>2, <3>3 DEF SetArgs
    <3> HIDE DEF call
    <3> QED
      BY <2>0, <2>2, <3>4, StepTyped DEF LookupStar, Read, Goto, tableVars, Labels
  <2>3. ASSUME NEW w \in Worker, WriteStar(w) PROVE WellTyped'
    <3>1. req[w] \in SetArgs /\ Seen(w) \in Tables
      BY <2>3, SeenType DEF WriteStar, WellTyped
    <3>2. UpdateStar(Seen(w), req[w]) \in Tables
      <4>1. \A r \in Seen(w).star : StarFor(r.id, req[w]) \in StarRow
        BY <3>1 DEF StarFor, StarRow, Tables, SetArgs
      <4>2. {IF r.id = req[w].row THEN StarFor(r.id, req[w]) ELSE r :
               r \in Seen(w).star} \in SUBSET StarRow
        BY <3>1, <4>1 DEF Tables
      <4> QED
        BY <3>1, <4>2 DEF UpdateStar, Tables
    <3>3. InsertStar(Seen(w), req[w]) \in Tables
      <4>1. StarFor(Seen(w).nextStar, req[w]) \in StarRow
        BY <3>1 DEF StarFor, StarRow, Tables, SetArgs
      <4>2. Seen(w).nextStar + 1 \in RowId
        BY <3>1 DEF Tables, RowId, NoRow
      <4> QED
        BY <3>1, <4>1, <4>2 DEF InsertStar, Tables
    <3> QED
      BY <2>3, <3>1, <3>2, <3>3, WriteTyped DEF WriteStar
  <2>4. ASSUME NEW w \in Worker, SumStars(w) PROVE WellTyped'
    <3> DEFINE average == AverageOf(StarsOf(Seen(w).star, req[w].product))
               call == [req[w] EXCEPT !.average = average]
    <3>1. req[w] \in SetArgs /\ average \in Value
      BY <2>4, SeenType, AverageIsValue DEF SumStars, WellTyped
    <3>2. req' = [req EXCEPT ![w] = call]
      BY <2>4 DEF SumStars
    <3> HIDE DEF average
    <3>3. call \in SetArgs
      BY <3>1 DEF SetArgs
    <3> HIDE DEF call
    <3> QED
      BY <2>0, <2>4, <3>2, <3>3, StepTyped
      DEF SumStars, Read, Goto, tableVars, Labels
  <2>5. ASSUME NEW w \in Worker, RateProduct(w) PROVE WellTyped'
    <3>1. req[w].average \in Value /\ Seen(w) \in Tables
      BY <2>5, SeenType DEF RateProduct, WellTyped, SetArgs
    <3>2. CASE req[w].product \in DOMAIN Seen(w).product
      <4>1. SetRating(Seen(w), req[w].product, req[w].average) \in Tables
        BY <3>1, <3>2, SetRatingWrites DEF ProductWritten
      <4> QED
        BY <2>5, <3>2, <4>1, WriteTyped DEF RateProduct
    <3>3. CASE req[w].product \notin DOMAIN Seen(w).product
      <4>1. [named |-> FALSE, rating |-> req[w].average] \in ProductRow
        BY <3>1 DEF ProductRow
      <4>2. InsertProduct(Seen(w), [named |-> FALSE, rating |-> req[w].average])
              \in Tables
        BY <3>1, <4>1, InsertProductWrites DEF ProductWritten
      <4> QED
        BY <2>5, <3>3, <4>2, WriteTyped DEF RateProduct
    <3> QED
      BY <3>2, <3>3
  <2>6. ASSUME NEW w \in Worker, SearchProducts(w) PROVE WellTyped'
    <3>1. CASE Read(w, "commit")
      BY <2>6, <3>1 DEF SearchProducts, Read, Goto, tableVars, WellTyped, Labels
    <3>2. CASE Fail(w)
      BY <2>6, <3>2, FailTyped DEF SearchProducts, Fail
    <3> QED
      BY <2>6, <3>1, <3>2 DEF SearchProducts
  <2>7. ASSUME NEW w \in Worker, EditProduct(w) PROVE WellTyped'
    <3> DEFINE t == Seen(w)
               p == req[w].product
               row == [named |-> TRUE, rating |-> req[w].rating]
               t2 == IF p \in DOMAIN t.product
                     THEN [t EXCEPT !.product[p] = row] ELSE t
    <3>1. req[w].op = "edit" /\ req[w] \in SetArgs \cup OtherArgs /\ t \in Tables
      BY <2>7, SeenType DEF EditProduct, WellTyped
    <3>2. req[w].rating \in Value
      BY <3>1 DEF SetArgs, OtherArgs
    <3>3. row \in ProductRow
      BY <3>2 DEF ProductRow
    <3>4. PICK ids \in SUBSET RowId : t.product \in [ids -> ProductRow]
      BY <3>1 DEF Tables
    <3> HIDE DEF row
    <3>5. [t.product EXCEPT ![p] = row] \in [ids -> ProductRow]
      BY <3>3, <3>4
    <3>6. t2 \in Tables
      BY <3>1, <3>5 DEF Tables
    <3>7. Write(w, t2, "commit") /\ UNCHANGED <<req, form>>
      BY <2>7 DEF EditProduct, row
    <3> HIDE DEF t2
    <3> QED
      BY <3>6, <3>7, WriteTyped
  <2>8. ASSUME NEW w \in Worker, CreateProduct(w) PROVE WellTyped'
    <3>1. req[w].op = "create" /\ req[w] \in SetArgs \cup OtherArgs
      BY <2>8 DEF CreateProduct, WellTyped
    <3>2. [named |-> TRUE, rating |-> req[w].rating] \in ProductRow
      BY <3>1 DEF SetArgs, OtherArgs, ProductRow
    <3>3. InsertProduct(Seen(w), [named |-> TRUE, rating |-> req[w].rating])
            \in Tables
      BY <3>2, SeenType, InsertProductWrites DEF ProductWritten
    <3> QED
      BY <2>8, <3>3, WriteTyped DEF CreateProduct
  <2>9. ASSUME NEW w \in Worker, Finish(w) PROVE WellTyped'
    <3>1. CASE Commit(w)
      BY <2>9, <3>1, SeenType DEF Finish, WellTyped, Commit, Labels
    <3>2. CASE CommitFails(w)
      BY <2>9, <3>2, FailTyped DEF Finish, CommitFails
    <3>3. CASE LockTimeout(w, Writes)
      BY <2>9, <3>3, FailTyped DEF Finish, LockTimeout, Fail
    <3> QED
      BY <2>9, <3>1, <3>2, <3>3 DEF Finish
  <2>10. ASSUME NEW w \in Worker, Deliver(w) PROVE WellTyped'
    <3>1. NoCall \in OtherArgs
      BY DEF NoCall, OtherArgs
    <3> QED
      BY <2>0, <2>10, <3>1, StepTyped DEF Deliver, Respond, tableVars, Labels
  <2>11. ASSUME NEW u \in User, NEW p \in DOMAIN db.product, OpenForm(u, p)
         PROVE  WellTyped'
    <3>1. p \in Nat /\ db.product[p] \in ProductRow
      BY <2>0 DEF Tables, RowId
    <3>2. [product |-> p, rating |-> db.product[p].rating]
            \in [product : Nat, rating : Value]
      BY <3>1 DEF ProductRow
    <3>3. form' \in [User -> [product : Nat, rating : Value]]
      BY <2>11, <3>2 DEF OpenForm, WellTyped
    <3> QED
      BY <2>11, <3>3 DEF OpenForm, WellTyped, serverVars
  <2>12. ASSUME NEW p \in DOMAIN db.product, DeleteProduct(p) PROVE WellTyped'
    <3>1. PICK ids \in SUBSET RowId : db.product \in [ids -> ProductRow]
      BY <2>0 DEF Tables
    <3>2. [q \in DOMAIN db.product \ {p} |-> db.product[q]]
            \in [ids \ {p} -> ProductRow]
      BY <3>1
    <3>3. ids \ {p} \in SUBSET RowId
      OBVIOUS
    <3>4. db' \in Tables
      BY <2>0, <2>12, <3>2, <3>3 DEF DeleteProduct, Tables
    <3> QED
      BY <2>12, <3>4 DEF DeleteProduct, WellTyped
  <2>13. ASSUME ServerCrash PROVE WellTyped'
    <3>1. NoCall \in OtherArgs
      BY DEF NoCall, OtherArgs
    <3> QED
      BY <2>13, <3>1 DEF ServerCrash, Crash, WellTyped, Labels
  <2>14. CASE UNCHANGED vars
    BY <2>14 DEF WellTyped, vars, serverVars
  <2> QED
    BY <2>1, <2>2, <2>3, <2>4, <2>5, <2>6, <2>7, <2>8, <2>9, <2>10, <2>11,
       <2>12, <2>13, <2>14
    DEF Next, Serve, Handler, Done
<1> QED
  BY <1>1, <1>2, PTL DEF Spec

-----------------------------------------------------------------------------
(* Kept, step by step. *)

(* A step of worker w that leaves the tables alone. *)
LEMMA QuietKeeps ==
  ASSUME Kept, NEW w \in Worker, writer # w, UNCHANGED tableVars,
         \A v \in Worker \ {w} : pc'[v] = pc[v] /\ req'[v] = req[v],
         pc'[w] \notin {"sum", "rate"},
         pc'[w] = "commit" => req'[w].op # "set",
         pc'[w] \in {"lookup", "star"} => req'[w].product < db.nextProduct,
         pc'[w] = "star" /\ req'[w].row # NoRow =>
           \E r \in db.star : r.id = req'[w].row /\ r.product = req'[w].product
  PROVE  Kept'
<1> USE DEF Kept, tableVars
<1>1. LockOK'
  BY DEF LockOK
<1>2. KnownOK'
  BY DEF KnownOK
<1>3. FoundOK'
  BY DEF FoundOK
<1>4. SetOK'
  BY DEF SetOK
<1>5. IdsOK(db)' /\ IdsOK(work)' /\ KeepsStars(db, work)'
  BY DEF IdsOK, KeepsStars
<1> QED
  BY <1>1, <1>2, <1>3, <1>4, <1>5

(* A rollback keeps what is known of the holder of the lock. *)
LEMMA RollbackKeeps ==
  ASSUME WellTyped, Kept, NEW w \in Worker, Rollback(w), UNCHANGED req,
         pc' = [pc EXCEPT ![w] = "answer"]
  PROVE  Kept'
<1> USE DEF Kept
<1>1. /\ db' = db /\ pc \in [Worker -> Labels]
      /\ \/ writer = w /\ work' = db /\ writer' = NoWorker
         \/ writer # w /\ work' = work /\ writer' = writer
  BY DEF Rollback, WellTyped
<1>2. LockOK'
  BY <1>1, WorkerAssumption DEF LockOK
<1>3. KnownOK'
  <2>1. db.nextProduct <= db.nextProduct
    BY DEF WellTyped, Tables, RowId
  <2> QED
    BY <1>1, <2>1 DEF KnownOK
<1>4. FoundOK'
  BY <1>1 DEF FoundOK
<1>5. SetOK'
  BY <1>1 DEF SetOK, LockOK
<1>6. IdsOK(db)' /\ IdsOK(work)' /\ KeepsStars(db, work)'
  BY <1>1 DEF IdsOK, KeepsStars
<1> QED
  BY <1>2, <1>3, <1>4, <1>5, <1>6

(* A commit keeps what is known of the holder of the lock, of which there   *)
(* is none then.                                                            *)
LEMMA CommitKeeps ==
  ASSUME WellTyped, Kept, NEW w \in Worker, Commit(w), UNCHANGED req
  PROVE  Kept'
<1> USE DEF Kept
<1>1. /\ work' = work /\ pc \in [Worker -> Labels] /\ pc[w] = "commit"
      /\ pc' = [pc EXCEPT ![w] = "answer"]
      /\ \/ writer = w /\ db' = work /\ writer' = NoWorker
         \/ writer # w /\ db' = db /\ writer' = writer
  BY DEF Commit, Seen, WellTyped
<1>2. LockOK'
  BY <1>1, WorkerAssumption DEF LockOK
<1>3. KnownOK'
  <2>1. /\ work.nextProduct \in Nat /\ db.nextProduct \in Nat
        /\ work.nextProduct <= work.nextProduct
        /\ db.nextProduct <= work.nextProduct
        /\ \A r \in db.star \cup work.star : r.product \in Nat
    BY DEF WellTyped, Tables, StarRow, RowId, KnownOK
  <2>2. \A v \in Worker :
          pc[v] \in {"lookup", "star", "sum", "rate"} => req[v].product \in Nat
    BY DEF WellTyped, SetArgs, RowId
  <2>3. /\ db'.nextProduct <= work'.nextProduct
        /\ db.nextProduct <= db'.nextProduct /\ db'.nextProduct \in Nat
    BY <1>1, <2>1
  <2>4. \A r \in db'.star \cup work'.star : r.product < db'.nextProduct
    BY <1>1, <2>1, <2>3 DEF KnownOK
  <2>5. \A v \in Worker : pc'[v] \in {"lookup", "star", "sum", "rate"}
                             => req[v].product < db'.nextProduct
    BY <1>1, <2>1, <2>2, <2>3 DEF KnownOK
  <2> QED
    BY <2>3, <2>4, <2>5 DEF KnownOK
<1>4. FoundOK'
  BY <1>1 DEF FoundOK, KeepsStars
<1>5. SetOK'
  BY <1>1 DEF SetOK
<1>6. IdsOK(db)' /\ IdsOK(work)' /\ KeepsStars(db, work)'
  BY <1>1 DEF IdsOK, KeepsStars
<1> QED
  BY <1>2, <1>3, <1>4, <1>5, <1>6

(* The write of a star, which takes the lock. *)
LEMMA WriteStarKeeps ==
  ASSUME WellTyped, Kept, NEW w \in Worker, pc[w] = "star", NEW t2,
         StarWritten(db, t2, req[w].product), Write(w, t2, "sum"), UNCHANGED req
  PROVE  Kept'
<1> USE DEF Kept
<1>1. /\ db' = db /\ work' = t2 /\ writer' = w /\ writer = NoWorker
      /\ pc \in [Worker -> Labels] /\ pc' = [pc EXCEPT ![w] = "sum"]
  BY DEF Write, Goto, WellTyped, LockOK
<1>2. \A v \in Worker : /\ pc[v] \notin {"sum", "rate"}
                        /\ pc[v] = "commit" => req[v].op # "set"
  BY <1>1, WorkerAssumption DEF LockOK
<1>3. LockOK'
  BY <1>1, <1>2, WorkerAssumption DEF LockOK
<1>4. KnownOK'
  <2>1. t2.nextProduct = db.nextProduct /\ db.nextProduct <= db.nextProduct
    BY DEF StarWritten, WellTyped, Tables, RowId
  <2>2. req[w].product < db.nextProduct
    BY DEF KnownOK
  <2>3. \A r \in t2.star : r.product < db.nextProduct
    BY <2>2 DEF StarWritten, KnownOK
  <2> QED
    BY <1>1, <2>1, <2>2, <2>3 DEF KnownOK
<1>5. FoundOK'
  BY <1>1 DEF FoundOK
<1>6. SetOK'
  BY <1>1, <1>2 DEF SetOK, StarWritten
<1>7. IdsOK(db)' /\ IdsOK(work)' /\ KeepsStars(db, work)'
  BY <1>1 DEF IdsOK, KeepsStars, StarWritten
<1> QED
  BY <1>3, <1>4, <1>5, <1>6, <1>7

(* The write of a product, by set_stars or by a form of the grid. *)
LEMMA WriteProductKeeps ==
  ASSUME WellTyped, Kept, NEW w \in Worker, NEW t2,
         \/ pc[w] = "rate"
         \/ pc[w] \in {"edit", "create"} /\ req[w].op # "set",
         ProductWritten(Seen(w), t2), Write(w, t2, "commit"), UNCHANGED req,
         pc[w] = "rate" /\ req[w].product \in DOMAIN t2.product
           => t2.product[req[w].product].rating = req[w].average
  PROVE  Kept'
<1> USE DEF Kept
<1>1. /\ db' = db /\ work' = t2 /\ writer' = w /\ writer \in {NoWorker, w}
      /\ pc \in [Worker -> Labels] /\ pc' = [pc EXCEPT ![w] = "commit"]
      /\ Seen(w) = work /\ t2.star = work.star /\ t2.nextStar = work.nextStar
      /\ work.nextProduct <= t2.nextProduct /\ t2 \in Tables
  BY DEF Write, Goto, WellTyped, LockOK, Seen, ProductWritten
<1>2. \A v \in Worker \ {w} : /\ pc[v] \notin {"sum", "rate"}
                              /\ pc[v] = "commit" => req[v].op # "set"
  BY <1>1, WorkerAssumption DEF LockOK
<1>3. LockOK'
  BY <1>1, <1>2, WorkerAssumption DEF LockOK
<1>4. KnownOK'
  <2>1. /\ db.nextProduct \in Nat /\ work.nextProduct \in Nat
        /\ t2.nextProduct \in Nat
    BY <1>1 DEF WellTyped, Tables, RowId
  <2>2. db.nextProduct <= t2.nextProduct
    BY <1>1, <2>1 DEF KnownOK
  <2> QED
    BY <1>1, <2>2 DEF KnownOK
<1>5. FoundOK'
  BY <1>1 DEF FoundOK
<1>6. SetOK'
  BY <1>1, <1>2 DEF SetOK
<1>7. IdsOK(db)' /\ IdsOK(work)' /\ KeepsStars(db, work)'
  BY <1>1 DEF IdsOK, KeepsStars
<1> QED
  BY <1>3, <1>4, <1>5, <1>6, <1>7

(* set_stars writes the star, sums and writes the average under one hold of *)
(* the write lock, on rows that cannot disappear.                           *)
THEOREM KeptInvariant == Spec => []Kept
<1>1. Init => Kept
  <2> SUFFICES ASSUME Init PROVE Kept
    OBVIOUS
  <2>1. /\ db.star = {} /\ db.nextProduct = Initially + 1 /\ work = db
        /\ writer = NoWorker /\ \A w \in Worker : pc[w] = "idle"
    BY DEF Init, ServerInit
  <2>2. db.nextProduct <= work.nextProduct
    BY <2>1, CatalogueAssumption
  <2> QED
    BY <2>1, <2>2, WorkerAssumption
    DEF Kept, LockOK, IdsOK, KnownOK, FoundOK, KeepsStars, SetOK
<1>2. WellTyped /\ Kept /\ [Next]_vars => Kept'
  <2> SUFFICES ASSUME WellTyped, Kept, [Next]_vars PROVE Kept'
    OBVIOUS
  <2>0. /\ pc \in [Worker -> Labels] /\ req \in [Worker -> SetArgs \cup OtherArgs]
        /\ \A w \in Worker :
             pc[w] \notin {"sum", "rate", "commit"} => writer # w
    BY DEF WellTyped, Kept, LockOK
  <2>1. ASSUME NEW w \in Worker, Click(w) PROVE Kept'
    <3>1. ASSUME NEW label \in {"lookup", "search", "edit", "create"}, NEW call,
                 Submit(w, label, call),
                 label = "lookup" => call.product < db.nextProduct
          PROVE  Kept'
      <4>1. /\ UNCHANGED tableVars /\ pc[w] = "idle"
            /\ pc' = [pc EXCEPT ![w] = label] /\ req' = [req EXCEPT ![w] = call]
        BY <3>1 DEF Submit, Accept, InProgress
      <4>2. writer # w
        BY <2>0, <4>1
      <4>3. /\ pc'[w] = label /\ req'[w] = call
            /\ \A v \in Worker \ {w} : pc'[v] = pc[v] /\ req'[v] = req[v]
        BY <2>0, <4>1
      <4>4. pc'[w] \notin {"star", "sum", "rate", "commit"}
        BY <4>3
      <4> QED
        BY <3>1, <4>1, <4>2, <4>3, <4>4, QuietKeeps
    <3> QED
      BY <2>1, <3>1 DEF Click, SetStars, Search, PostForm, PostNewProduct
  <2>2. ASSUME NEW w \in Worker, LookupStar(w) PROVE Kept'
    <3>1. pc[w] = "lookup" /\ writer # w /\ Seen(w) = db /\ req[w] \in SetArgs
      BY <2>0, <2>2 DEF LookupStar, Seen, WellTyped
    <3>2. PICK i \in SomeRow({r \in StarsOf(db.star, req[w].product) :
                                r.user = req[w].user}) :
            req' = [req EXCEPT ![w].row = i]
      BY <2>2, <3>1 DEF LookupStar
    <3>3. i # NoRow =>
            \E r \in db.star : r.id = i /\ r.product = req[w].product
      BY <3>2 DEF SomeRow, StarsOf
    <3>4. /\ req'[w].row = i /\ req'[w].product = req[w].product
          /\ \A v \in Worker \ {w} : req'[v] = req[v]
      BY <2>0, <3>1, <3>2 DEF SetArgs
    <3>5. /\ UNCHANGED tableVars /\ pc'[w] = "star"
          /\ \A v \in Worker \ {w} : pc'[v] = pc[v]
      BY <2>0, <2>2 DEF LookupStar, Read, Goto
    <3>6. req[w].product < db.nextProduct
      BY <3>1 DEF Kept, KnownOK
    <3> QED
      BY <3>1, <3>3, <3>4, <3>5, <3>6, QuietKeeps
  <2>3. ASSUME NEW w \in Worker, WriteStar(w) PROVE Kept'
    <3>1. /\ pc[w] = "star" /\ Seen(w) = db /\ req[w] \in SetArgs
          /\ db \in Tables /\ IdsOK(db)
      BY <2>0, <2>3 DEF WriteStar, Seen, WellTyped, Kept
    <3>2. CASE req[w].row # NoRow
      <4>1. StarWritten(db, UpdateStar(db, req[w]), req[w].product)
        BY <3>1, <3>2, UpdateStarWrites DEF Kept, FoundOK
      <4> QED
        BY <2>3, <3>1, <3>2, <4>1, WriteStarKeeps DEF WriteStar
    <3>3. CASE req[w].row = NoRow
      <4>1. StarWritten(db, InsertStar(db, req[w]), req[w].product)
        BY <3>1, InsertStarWrites
      <4> QED
        BY <2>3, <3>1, <3>3, <4>1, WriteStarKeeps DEF WriteStar
    <3> QED
      BY <3>2, <3>3
  <2>4. ASSUME NEW w \in Worker, SumStars(w) PROVE Kept'
    <3>1. pc[w] = "sum" /\ writer = w /\ Seen(w) = work /\ req[w] \in SetArgs
      BY <2>4 DEF SumStars, Seen, WellTyped, Kept, LockOK
    <3>2. /\ req' = [req EXCEPT ![w].average =
                       AverageOf(StarsOf(work.star, req[w].product))]
          /\ pc' = [pc EXCEPT ![w] = "rate"] /\ UNCHANGED tableVars
      BY <2>4, <3>1 DEF SumStars, Read, Goto
    <3>3. /\ req'[w].average = AverageOf(StarsOf(work.star, req[w].product))
          /\ req'[w].product = req[w].product
          /\ pc'[w] = "rate"
          /\ \A v \in Worker \ {w} : pc'[v] = pc[v] /\ req'[v] = req[v]
      BY <2>0, <3>1, <3>2 DEF SetArgs
    <3>4. LockOK'
      BY <3>1, <3>2, <3>3 DEF Kept, LockOK, tableVars
    <3>5. KnownOK' /\ FoundOK'
      BY <3>1, <3>2, <3>3 DEF Kept, KnownOK, FoundOK, tableVars
    <3>6. SetOK'
      <4>1. StarsOf(work.star, req[w].product) # {}
        BY <3>1 DEF Kept, SetOK
      <4> QED
        BY <3>2, <3>3, <4>1 DEF Kept, SetOK, tableVars
    <3> QED
      BY <3>2, <3>4, <3>5, <3>6 DEF Kept, IdsOK, KeepsStars, tableVars
  <2>5. ASSUME NEW w \in Worker, RateProduct(w) PROVE Kept'
    <3> DEFINE p == req[w].product
               v == req[w].average
    <3>1. /\ pc[w] = "rate" /\ Seen(w) = work /\ work \in Tables /\ v \in Value
          /\ req[w] \in SetArgs
      BY <2>5 DEF RateProduct, Seen, WellTyped, Kept, LockOK, SetArgs
    <3>2. CASE p \in DOMAIN work.product
      <4>1. /\ ProductWritten(work, SetRating(work, p, v))
            /\ SetRating(work, p, v).product[p].rating = v
        BY <3>1, <3>2, SetRatingWrites
      <4> QED
        BY <2>5, <3>1, <3>2, <4>1, WriteProductKeeps DEF RateProduct
    <3>3. CASE p \notin DOMAIN work.product
      <4> DEFINE row == [named |-> FALSE, rating |-> v]
                 t2 == InsertProduct(work, row)
      <4>1. row \in ProductRow
        BY <3>1 DEF ProductRow
      <4>2. p # work.nextProduct
        BY <3>1 DEF Kept, KnownOK, WellTyped, SetArgs, Tables, RowId
      <4>3. Write(w, t2, "commit") /\ UNCHANGED req
        BY <2>5, <3>1, <3>3 DEF RateProduct
      <4> HIDE DEF row
      <4>4. ProductWritten(work, t2) /\ p \notin DOMAIN t2.product
        BY <3>1, <3>3, <4>1, <4>2, InsertProductWrites
      <4> HIDE DEF t2
      <4> QED
        BY <3>1, <4>3, <4>4, WriteProductKeeps
    <3> QED
      BY <3>2, <3>3
  <2>6. ASSUME NEW w \in Worker, SearchProducts(w) PROVE Kept'
    <3>1. pc[w] = "search" /\ req[w].op = "search" /\ writer # w /\ UNCHANGED req
      BY <2>0, <2>6 DEF SearchProducts, WellTyped
    <3>2. CASE Read(w, "commit")
      <4>1. /\ UNCHANGED tableVars /\ pc'[w] = "commit"
            /\ \A u \in Worker \ {w} : pc'[u] = pc[u]
        BY <2>0, <3>2 DEF Read, Goto
      <4> QED
        BY <3>1, <4>1, QuietKeeps
    <3>3. CASE Fail(w)
      BY <3>1, <3>3, RollbackKeeps DEF Fail
    <3> QED
      BY <2>6, <3>2, <3>3 DEF SearchProducts
  <2>7. ASSUME NEW w \in Worker, EditProduct(w) PROVE Kept'
    <3> DEFINE t == Seen(w)
               p == req[w].product
               row == [named |-> TRUE, rating |-> req[w].rating]
               t2 == IF p \in DOMAIN t.product
                     THEN [t EXCEPT !.product[p] = row] ELSE t
    <3>1. /\ pc[w] = "edit" /\ req[w].op = "edit" /\ t \in Tables
          /\ req[w] \in SetArgs \cup OtherArgs
      BY <2>7, SeenType DEF EditProduct, WellTyped
    <3>2. row \in ProductRow
      BY <3>1 DEF SetArgs, OtherArgs, ProductRow
    <3>3. PICK ids \in SUBSET RowId : t.product \in [ids -> ProductRow]
      BY <3>1 DEF Tables
    <3> HIDE DEF row
    <3>4. [t.product EXCEPT ![p] = row] \in [ids -> ProductRow]
      BY <3>2, <3>3
    <3>5. t.nextProduct <= t.nextProduct
      BY <3>1 DEF Tables, RowId
    <3>6. ProductWritten(t, t2)
      BY <3>1, <3>4, <3>5 DEF ProductWritten, Tables
    <3>7. Write(w, t2, "commit") /\ UNCHANGED req
      BY <2>7 DEF EditProduct, row
    <3> HIDE DEF t2
    <3> QED
      BY <3>1, <3>6, <3>7, WriteProductKeeps
  <2>8. ASSUME NEW w \in Worker, CreateProduct(w) PROVE Kept'
    <3> DEFINE row == [named |-> TRUE, rating |-> req[w].rating]
    <3>1. /\ pc[w] = "create" /\ req[w].op = "create"
          /\ req[w] \in SetArgs \cup OtherArgs
      BY <2>8 DEF CreateProduct, WellTyped
    <3>2. row \in ProductRow
      BY <3>1 DEF SetArgs, OtherArgs, ProductRow
    <3>3. Write(w, InsertProduct(Seen(w), row), "commit") /\ UNCHANGED req
      BY <2>8 DEF CreateProduct
    <3> HIDE DEF row
    <3>4. ProductWritten(Seen(w), InsertProduct(Seen(w), row))
      BY <3>2, SeenType, InsertProductWrites
    <3> QED
      BY <3>1, <3>3, <3>4, WriteProductKeeps
  <2>9. ASSUME NEW w \in Worker, Finish(w) PROVE Kept'
    <3>1. UNCHANGED req
      BY <2>9 DEF Finish
    <3> QED
      BY <2>9, <3>1, CommitKeeps, RollbackKeeps
      DEF Finish, CommitFails, LockTimeout, Fail
  <2>10. ASSUME NEW w \in Worker, Deliver(w) PROVE Kept'
    <3>1. /\ writer # w /\ UNCHANGED tableVars /\ pc'[w] = "idle"
          /\ \A v \in Worker \ {w} : pc'[v] = pc[v] /\ req'[v] = req[v]
      BY <2>0, <2>10 DEF Deliver, Respond
    <3> QED
      BY <3>1, QuietKeeps
  <2>11. ASSUME NEW u \in User, NEW p \in DOMAIN db.product, OpenForm(u, p)
         PROVE  Kept'
    BY <2>11 DEF OpenForm, serverVars, Kept, LockOK, IdsOK, KnownOK, FoundOK,
       KeepsStars, SetOK
  <2>12. ASSUME NEW p \in DOMAIN db.product, DeleteProduct(p) PROVE Kept'
    <3>1. /\ db'.star = db.star /\ db'.nextStar = db.nextStar
          /\ db'.nextProduct = db.nextProduct
          /\ work' = db' /\ work = db /\ writer = NoWorker
          /\ UNCHANGED <<writer, pc, req>>
      BY <2>12 DEF DeleteProduct, WellTyped, Tables, Kept, LockOK
    <3>2. \A w \in Worker : /\ pc[w] \notin {"sum", "rate"}
                            /\ pc[w] = "commit" => req[w].op # "set"
      BY <3>1, WorkerAssumption DEF Kept, LockOK
    <3> QED
      BY <3>1, <3>2, WorkerAssumption
      DEF Kept, LockOK, IdsOK, KnownOK, FoundOK, KeepsStars, SetOK
  <2>13. ASSUME ServerCrash PROVE Kept'
    <3>1. /\ UNCHANGED db /\ work' = db /\ writer' = NoWorker
          /\ \A w \in Worker : pc'[w] = "idle"
      BY <2>13 DEF ServerCrash, Crash
    <3>2. db.nextProduct <= db.nextProduct
      BY DEF WellTyped, Tables, RowId
    <3> QED
      BY <3>1, <3>2, WorkerAssumption
      DEF Kept, LockOK, IdsOK, KnownOK, FoundOK, KeepsStars, SetOK
  <2>14. CASE UNCHANGED vars
    BY <2>14 DEF vars, serverVars, Kept, LockOK, IdsOK, KnownOK, FoundOK,
       KeepsStars, SetOK
  <2> QED
    BY <2>1, <2>2, <2>3, <2>4, <2>5, <2>6, <2>7, <2>8, <2>9, <2>10, <2>11,
       <2>12, <2>13, <2>14
    DEF Next, Serve, Handler, Done
<1> QED
  BY <1>1, <1>2, Typing, PTL DEF Spec

(* set_stars never divides by a count of zero, whatever products are        *)
(* deleted under it: the row it has written is still there when it counts,  *)
(* because it has held the write lock since.                                *)
THEOREM NeverDividesByZero == Spec => []NoDivisionByZero
<1>1. Kept => NoDivisionByZero
  BY DEF Kept, LockOK, SetOK, NoDivisionByZero, Seen
<1> QED
  BY <1>1, KeptInvariant, PTL

(* A set_stars that commits leaves its product with the average of its      *)
(* stars, also while the grid edits ratings and products are deleted.       *)
THEOREM CommittedRatingFollows == Spec => RatingFollowsStars
<1>1. Kept =>
        [\A w \in Worker :
           LET p == req[w].product IN
           Commit(w) /\ req[w].op = "set" /\ p \in DOMAIN db'.product
             => db'.product[p].rating = AverageOf(StarsOf(db'.star, p))]_vars
  BY DEF Kept, LockOK, SetOK, Commit, Seen
<1> QED
  BY <1>1, KeptInvariant, PTL DEF RatingFollowsStars

-----------------------------------------------------------------------------
(* The average of every product, as long as nobody edits ratings in the     *)
(* grid: between the write of a star and the write of the rating only the   *)
(* product of that star, in the tables of the holder of the lock alone, has *)
(* a rating that is not the average.                                        *)
AveragedBut(t, p) ==
  \A q \in DOMAIN t.product \ {p} :
    StarsOf(t.star, q) # {} => t.product[q].rating = AverageOf(StarsOf(t.star, q))

NoEdits ==
  /\ \A u \in User : form[u] = NoForm
  /\ \A w \in Worker : pc[w] # "edit"

RatingsOK ==
  /\ NoEdits
  /\ Averaged(db)
  /\ \A w \in Worker :
       /\ writer = w /\ pc[w] = "commit" => Averaged(work)
       /\ pc[w] \in {"sum", "rate"} => AveragedBut(work, req[w].product)

(* Writing a star disturbs the average of its product only. *)
LEMMA StarWrittenAverages ==
  ASSUME NEW t \in Tables, NEW t2, NEW p, StarWritten(t, t2, p), Averaged(t)
  PROVE  AveragedBut(t2, p)
<1>1. DOMAIN t.product \subseteq RowId
  BY DEF Tables
<1> QED
  BY <1>1 DEF StarWritten, Averaged, AveragedBut

(* Writing the average of a product makes every rating an average again. *)
LEMMA SetRatingAverages ==
  ASSUME NEW t \in Tables, NEW p \in DOMAIN t.product, NEW v \in Value,
         v = AverageOf(StarsOf(t.star, p)), AveragedBut(t, p)
  PROVE  Averaged(SetRating(t, p, v))
<1> DEFINE t2 == SetRating(t, p, v)
<1>1. /\ t2.star = t.star /\ DOMAIN t2.product = DOMAIN t.product
      /\ t2.product[p].rating = v
      /\ \A q \in DOMAIN t.product \ {p} : t2.product[q] = t.product[q]
  BY SetRatingWrites DEF ProductWritten
<1> HIDE DEF t2
<1>2. Averaged(t2)
  BY <1>1 DEF Averaged, AveragedBut
<1> QED
  BY <1>2 DEF t2

(* A product is inserted under an id that has no stars. *)
LEMMA InsertProductAverages ==
  ASSUME NEW t \in Tables, NEW row \in ProductRow, NEW p,
         p \notin DOMAIN t.product, AveragedBut(t, p),
         \A r \in t.star : r.product # t.nextProduct
  PROVE  Averaged(InsertProduct(t, row))
<1> DEFINE t2 == InsertProduct(t, row)
<1>1. /\ t2.star = t.star
      /\ DOMAIN t2.product = DOMAIN t.product \cup {t.nextProduct}
      /\ \A q \in DOMAIN t.product \ {t.nextProduct} :
           t2.product[q] = t.product[q]
  BY InsertProductWrites DEF ProductWritten
<1> HIDE DEF t2
<1>2. Averaged(t2)
  BY <1>1 DEF Averaged, AveragedBut, StarsOf
<1> QED
  BY <1>2 DEF t2

(* A step of worker w that neither takes the lock nor begins to commit, or  *)
(* that only reads while it has the lock.                                   *)
LEMMA QuietKeepsRatings ==
  ASSUME Kept, RatingsOK, NEW w \in Worker, UNCHANGED <<db, work, writer, form>>,
         \A v \in Worker \ {w} : pc'[v] = pc[v] /\ req'[v] = req[v],
         pc'[w] # "edit", pc'[w] = "commit" => writer # w,
         pc'[w] \in {"sum", "rate"} =>
           pc[w] \in {"sum", "rate"} /\ req'[w].product = req[w].product
  PROVE  RatingsOK'
BY DEF RatingsOK, NoEdits, Averaged, AveragedBut

(* A write keeps the invariant when at most the product being rated has     *)
(* another rating.                                                          *)
LEMMA WriteKeepsRatings ==
  ASSUME WellTyped, Kept, RatingsOK, NEW w \in Worker, NEW t2,
         NEW label \in {"sum", "commit"}, Write(w, t2, label),
         UNCHANGED <<req, form>>,
         label = "sum" => AveragedBut(t2, req[w].product),
         label = "commit" => Averaged(t2)
  PROVE  RatingsOK'
<1>1. /\ db' = db /\ work' = t2 /\ writer' = w /\ writer \in {NoWorker, w}
      /\ pc' = [pc EXCEPT ![w] = label] /\ pc \in [Worker -> Labels]
      /\ UNCHANGED <<req, form>>
  BY DEF Write, Goto, WellTyped
<1>2. \A v \in Worker \ {w} : pc[v] \notin {"sum", "rate"}
  BY <1>1, WorkerAssumption DEF Kept, LockOK
<1>3. NoEdits'
  BY <1>1 DEF RatingsOK, NoEdits
<1>4. Averaged(db)'
  BY <1>1 DEF RatingsOK, Averaged
<1>5. \A v \in Worker :
        /\ writer' = v /\ pc'[v] = "commit" => Averaged(work')
        /\ pc'[v] \in {"sum", "rate"} => AveragedBut(work', req'[v].product)
  BY <1>1, <1>2
<1> QED
  BY <1>3, <1>4, <1>5 DEF RatingsOK, Averaged, AveragedBut

(* A rollback keeps the invariant. *)
LEMMA RollbackKeepsRatings ==
  ASSUME WellTyped, Kept, RatingsOK, NEW w \in Worker, Rollback(w),
         UNCHANGED <<req, form>>, pc' = [pc EXCEPT ![w] = "answer"]
  PROVE  RatingsOK'
<1>1. /\ db' = db /\ pc \in [Worker -> Labels]
      /\ \/ writer = w /\ work' = db /\ writer' = NoWorker
         \/ writer # w /\ work' = work /\ writer' = writer
  BY DEF Rollback, WellTyped
<1>2. NoEdits'
  BY <1>1 DEF RatingsOK, NoEdits
<1>3. Averaged(db)'
  BY <1>1 DEF RatingsOK, Averaged
<1>4. \A v \in Worker :
        /\ writer' = v /\ pc'[v] = "commit" => Averaged(work')
        /\ pc'[v] \in {"sum", "rate"} => AveragedBut(work', req'[v].product)
  BY <1>1, WorkerAssumption DEF Kept, LockOK, RatingsOK
<1> QED
  BY <1>2, <1>3, <1>4 DEF RatingsOK, Averaged, AveragedBut

(* A commit keeps the invariant: what is committed has averages everywhere. *)
LEMMA CommitKeepsRatings ==
  ASSUME WellTyped, Kept, RatingsOK, NEW w \in Worker, Commit(w),
         UNCHANGED <<req, form>>
  PROVE  RatingsOK'
<1>1. /\ work' = work /\ pc \in [Worker -> Labels] /\ pc[w] = "commit"
      /\ pc' = [pc EXCEPT ![w] = "answer"]
      /\ \/ writer = w /\ db' = work /\ writer' = NoWorker
         \/ writer # w /\ db' = db /\ writer' = writer
  BY DEF Commit, Seen, WellTyped
<1>2. NoEdits'
  BY <1>1 DEF RatingsOK, NoEdits
<1>3. Averaged(db')
  BY <1>1 DEF RatingsOK
<1>4. \A v \in Worker :
        /\ writer' = v /\ pc'[v] = "commit" => Averaged(work')
        /\ pc'[v] \in {"sum", "rate"} => AveragedBut(work', req'[v].product)
  BY <1>1, WorkerAssumption DEF RatingsOK
<1> QED
  BY <1>2, <1>3, <1>4 DEF RatingsOK, Averaged, AveragedBut

(* Without edits in the grid the rating every list shows is the average of  *)
(* the stars, for every number of users, products, workers and requests,    *)
(* whatever overlaps, fails, crashes or is deleted.                         *)
THEOREM RatingsAreAverages == GridEdits = FALSE /\ Spec => []RatingIsAverage
<1> SUFFICES ASSUME GridEdits = FALSE PROVE Spec => []RatingIsAverage
  OBVIOUS
<1>1. Init => RatingsOK
  <2> SUFFICES ASSUME Init PROVE RatingsOK
    OBVIOUS
  <2>1. /\ db.star = {} /\ work = db /\ \A w \in Worker : pc[w] = "idle"
        /\ \A u \in User : form[u] = NoForm
    BY DEF Init, ServerInit
  <2> QED
    BY <2>1 DEF RatingsOK, NoEdits, Averaged, StarsOf
<1>2. WellTyped /\ Kept /\ RatingsOK /\ [Next]_vars => RatingsOK'
  <2> SUFFICES ASSUME WellTyped, Kept, RatingsOK, [Next]_vars PROVE RatingsOK'
    OBVIOUS
  <2>0. /\ pc \in [Worker -> Labels] /\ req \in [Worker -> SetArgs \cup OtherArgs]
        /\ db \in Tables /\ work \in Tables
        /\ \A w \in Worker :
             pc[w] \notin {"sum", "rate", "commit"} => writer # w
    BY DEF WellTyped, Kept, LockOK
  <2>1. ASSUME NEW w \in Worker, Click(w) PROVE RatingsOK'
    <3>1. ASSUME NEW label \in {"lookup", "search", "create"}, NEW call,
                 Submit(w, label, call), UNCHANGED form
          PROVE  RatingsOK'
      <4>1. /\ UNCHANGED <<db, work, writer, form>>
            /\ pc' = [pc EXCEPT ![w] = label] /\ req' = [req EXCEPT ![w] = call]
        BY <3>1 DEF Submit, Accept, tableVars
      <4>2. /\ pc'[w] = label
            /\ \A v \in Worker \ {w} : pc'[v] = pc[v] /\ req'[v] = req[v]
        BY <2>0, <4>1
      <4>3. pc'[w] \notin {"edit", "commit", "sum", "rate"}
        BY <4>2
      <4> QED
        BY <4>1, <4>2, <4>3, QuietKeepsRatings
    <3>2. \A u \in User : ~PostForm(w, u)
      BY DEF PostForm, RatingsOK, NoEdits
    <3> QED
      BY <2>1, <3>1, <3>2 DEF Click, SetStars, Search, PostNewProduct
  <2>2. ASSUME NEW w \in Worker, LookupStar(w) PROVE RatingsOK'
    <3>1. /\ UNCHANGED <<db, work, writer, form>> /\ pc'[w] = "star"
          /\ \A v \in Worker \ {w} : pc'[v] = pc[v] /\ req'[v] = req[v]
      BY <2>0, <2>2 DEF LookupStar, Read, Goto, tableVars
    <3> QED
      BY <3>1, QuietKeepsRatings
  <2>3. ASSUME NEW w \in Worker, WriteStar(w) PROVE RatingsOK'
    <3>1. /\ pc[w] = "star" /\ Seen(w) = db /\ req[w] \in SetArgs /\ IdsOK(db)
          /\ Averaged(db) /\ UNCHANGED <<req, form>>
      BY <2>0, <2>3 DEF WriteStar, Seen, WellTyped, Kept, RatingsOK
    <3>2. CASE req[w].row # NoRow
      <4>1. StarWritten(db, UpdateStar(db, req[w]), req[w].product)
        BY <2>0, <3>1, <3>2, UpdateStarWrites DEF Kept, FoundOK
      <4>2. AveragedBut(UpdateStar(db, req[w]), req[w].product)
        BY <2>0, <3>1, <4>1, StarWrittenAverages
      <4> QED
        BY <2>3, <3>1, <3>2, <4>2, WriteKeepsRatings DEF WriteStar
    <3>3. CASE req[w].row = NoRow
      <4>1. StarWritten(db, InsertStar(db, req[w]), req[w].product)
        BY <2>0, <3>1, InsertStarWrites
      <4>2. AveragedBut(InsertStar(db, req[w]), req[w].product)
        BY <2>0, <3>1, <4>1, StarWrittenAverages
      <4> QED
        BY <2>3, <3>1, <3>3, <4>2, WriteKeepsRatings DEF WriteStar
    <3> QED
      BY <3>2, <3>3
  <2>4. ASSUME NEW w \in Worker, SumStars(w) PROVE RatingsOK'
    <3>1. pc[w] = "sum" /\ req[w] \in SetArgs
      BY <2>4 DEF SumStars, WellTyped
    <3>2. /\ UNCHANGED <<db, work, writer, form>> /\ pc'[w] = "rate"
          /\ req'[w].product = req[w].product
          /\ \A v \in Worker \ {w} : pc'[v] = pc[v] /\ req'[v] = req[v]
      BY <2>0, <2>4, <3>1 DEF SumStars, Read, Goto, tableVars, SetArgs
    <3> QED
      BY <3>1, <3>2, QuietKeepsRatings
  <2>5. ASSUME NEW w \in Worker, RateProduct(w) PROVE RatingsOK'
    <3> DEFINE p == req[w].product
               v == req[w].average
    <3>1. /\ pc[w] = "rate" /\ Seen(w) = work /\ v \in Value
          /\ UNCHANGED <<req, form>> /\ AveragedBut(work, p)
          /\ v = AverageOf(StarsOf(work.star, p))
      BY <2>5
      DEF RateProduct, Seen, WellTyped, Kept, LockOK, SetOK, SetArgs, RatingsOK
    <3>2. CASE p \in DOMAIN work.product
      <4>1. Averaged(SetRating(work, p, v))
        BY <2>0, <3>1, <3>2, SetRatingAverages
      <4> QED
        BY <2>5, <3>1, <3>2, <4>1, WriteKeepsRatings DEF RateProduct
    <3>3. CASE p \notin DOMAIN work.product
      <4> DEFINE row == [named |-> FALSE, rating |-> v]
                 t2 == InsertProduct(work, row)
      <4>1. row \in ProductRow
        BY <3>1 DEF ProductRow
      <4>2. Write(w, t2, "commit")
        BY <2>5, <3>1, <3>3 DEF RateProduct
      <4> HIDE DEF row
      <4>3. \A r \in work.star : r.product # work.nextProduct
        BY <2>0 DEF Kept, KnownOK, Tables, StarRow, RowId
      <4>4. Averaged(t2)
        BY <2>0, <3>1, <3>3, <4>1, <4>3, InsertProductAverages
      <4> HIDE DEF t2
      <4> QED
        BY <3>1, <4>2, <4>4, WriteKeepsRatings
    <3> QED
      BY <3>2, <3>3
  <2>6. ASSUME NEW w \in Worker, SearchProducts(w) PROVE RatingsOK'
    <3>1. pc[w] = "search" /\ writer # w /\ UNCHANGED <<req, form>>
      BY <2>0, <2>6 DEF SearchProducts
    <3>2. CASE Read(w, "commit")
      <4>1. /\ UNCHANGED <<db, work, writer>> /\ pc'[w] = "commit"
            /\ \A v \in Worker \ {w} : pc'[v] = pc[v] /\ req'[v] = req[v]
        BY <2>0, <3>1, <3>2 DEF Read, Goto, tableVars
      <4> QED
        BY <3>1, <4>1, QuietKeepsRatings
    <3>3. CASE Fail(w)
      BY <3>1, <3>3, RollbackKeepsRatings DEF Fail
    <3> QED
      BY <2>6, <3>2, <3>3 DEF SearchProducts
  <2>7. ASSUME NEW w \in Worker, EditProduct(w) PROVE RatingsOK'
    BY <2>7 DEF EditProduct, RatingsOK, NoEdits
  <2>8. ASSUME NEW w \in Worker, CreateProduct(w) PROVE RatingsOK'
    <3> DEFINE row == [named |-> TRUE, rating |-> req[w].rating]
               t2 == InsertProduct(work, row)
    <3>1. /\ pc[w] = "create" /\ req[w].op = "create" /\ writer = NoWorker
          /\ req[w] \in SetArgs \cup OtherArgs /\ UNCHANGED <<req, form>>
      BY <2>0, <2>8 DEF CreateProduct, WellTyped, Write
    <3>2. row \in ProductRow
      BY <3>1 DEF SetArgs, OtherArgs, ProductRow
    <3>3. work = db /\ Seen(w) = work
      BY <3>1 DEF Kept, LockOK, Seen
    <3>4. Write(w, t2, "commit")
      BY <2>8, <3>3 DEF CreateProduct
    <3> HIDE DEF row
    <3>5. /\ \A r \in work.star : r.product # work.nextProduct
          /\ NoRow \notin DOMAIN work.product
      BY <2>0, <3>3 DEF Kept, KnownOK, Tables, StarRow, RowId
    <3>6. AveragedBut(work, NoRow)
      BY <3>3 DEF RatingsOK, Averaged, AveragedBut
    <3>7. Averaged(t2)
      BY <2>0, <3>2, <3>5, <3>6, InsertProductAverages
    <3> HIDE DEF t2
    <3> QED
      BY <3>1, <3>4, <3>7, WriteKeepsRatings
  <2>9. ASSUME NEW w \in Worker, Finish(w) PROVE RatingsOK'
    <3>1. UNCHANGED <<req, form>>
      BY <2>9 DEF Finish
    <3> QED
      BY <2>9, <3>1, CommitKeepsRatings, RollbackKeepsRatings
      DEF Finish, CommitFails, LockTimeout, Fail
  <2>10. ASSUME NEW w \in Worker, Deliver(w) PROVE RatingsOK'
    <3>1. /\ UNCHANGED <<db, work, writer, form>> /\ pc'[w] = "idle"
          /\ \A v \in Worker \ {w} : pc'[v] = pc[v] /\ req'[v] = req[v]
      BY <2>0, <2>10 DEF Deliver, Respond, tableVars
    <3> QED
      BY <3>1, QuietKeepsRatings
  <2>11. ASSUME NEW u \in User, NEW p \in DOMAIN db.product, OpenForm(u, p)
         PROVE  RatingsOK'
    BY <2>11 DEF OpenForm
  <2>12. ASSUME NEW p \in DOMAIN db.product, DeleteProduct(p) PROVE RatingsOK'
    <3>1. /\ db'.star = db.star
          /\ db'.product = [q \in DOMAIN db.product \ {p} |-> db.product[q]]
          /\ work' = db' /\ writer = NoWorker
          /\ UNCHANGED <<writer, pc, req, form>>
      BY <2>0, <2>12 DEF DeleteProduct, Tables
    <3>2. \A w \in Worker : pc[w] \notin {"sum", "rate"}
      BY <3>1, WorkerAssumption DEF Kept, LockOK
    <3>3. Averaged(db')
      BY <3>1 DEF RatingsOK, Averaged
    <3> QED
      BY <3>1, <3>2, <3>3, WorkerAssumption
      DEF RatingsOK, NoEdits, Averaged, AveragedBut
  <2>13. ASSUME ServerCrash PROVE RatingsOK'
    <3>1. /\ UNCHANGED <<db, form>> /\ \A w \in Worker : pc'[w] = "idle"
      BY <2>13 DEF ServerCrash, Crash
    <3> QED
      BY <3>1 DEF RatingsOK, NoEdits, Averaged
  <2>14. CASE UNCHANGED vars
    BY <2>14 DEF vars, serverVars, RatingsOK, NoEdits, Averaged, AveragedBut
  <2> QED
    BY <2>1, <2>2, <2>3, <2>4, <2>5, <2>6, <2>7, <2>8, <2>9, <2>10, <2>11,
       <2>12, <2>13, <2>14
    DEF Next, Serve, Handler, Done
<1>3. RatingsOK => RatingIsAverage
  BY DEF RatingsOK, RatingIsAverage
<1> QED
  BY <1>1, <1>2, <1>3, Typing, KeptInvariant, PTL DEF Spec

-----------------------------------------------------------------------------
(* One star per user and product, for users who wait for answers: between   *)
(* the lookup of set_stars and its write nobody else writes a star of the   *)
(* same user, so that what it has found, or that it has found nothing, is   *)
(* still true.                                                              *)
Rating(w) == pc[w] # "idle" /\ req[w].op = "set"

OneEach ==
  \A v, w \in Worker : Rating(v) /\ Rating(w) /\ req[v].user = req[w].user => v = w

Unique(t) ==
  \A r, s \in t.star : r.user = s.user /\ r.product = s.product => r = s

(* Stars of the user and for the product of a request. *)
IsFor(r, call) == r.user = call.user /\ r.product = call.product

LookupOK ==
  \A w \in Worker : pc[w] = "star" =>
    \/ req[w].row = NoRow /\ \A r \in db.star : ~IsFor(r, req[w])
    \/ req[w].row # NoRow /\ \E r \in db.star : r.id = req[w].row /\ IsFor(r, req[w])

(* Only stars of the user of the request differ. *)
Apart(t, t2, call) ==
  \/ t2.star = t.star
  \/ call.op = "set" /\ \A r : r.user # call.user => (r \in t.star <=> r \in t2.star)

ApartOK == \A w \in Worker : writer = w => Apart(db, work, req[w])

OneStar == OneEach /\ Unique(db) /\ Unique(work) /\ LookupOK /\ ApartOK

(* What every step that serves worker w does to OneEach. *)
LEMMA StepKeepsOneEach ==
  ASSUME OneEach, NEW w \in Worker, pc[w] # "idle",
         req'[w].op = req[w].op, req[w].op = "set" => req'[w].user = req[w].user,
         \A v \in Worker \ {w} : pc'[v] = pc[v] /\ req'[v] = req[v]
  PROVE  OneEach'
BY DEF OneEach, Rating

(* Changing the star a lookup found adds no second one and touches no       *)
(* other.                                                                   *)
LEMMA UpdateStarIsUnique ==
  ASSUME NEW t \in Tables, NEW call \in SetArgs, IdsOK(t), Unique(t),
         \E r \in t.star : r.id = call.row /\ IsFor(r, call)
  PROVE  Unique(UpdateStar(t, call)) /\ Apart(t, UpdateStar(t, call), call)
<1> DEFINE new(r) == IF r.id = call.row THEN StarFor(r.id, call) ELSE r
           t2 == UpdateStar(t, call)
<1>1. t2.star = {new(r) : r \in t.star}
  BY DEF UpdateStar, Tables
<1>2. \A r \in t.star : r.id = call.row => IsFor(r, call)
  BY DEF IdsOK
<1>3. \A r \in t.star : new(r).user = r.user /\ new(r).product = r.product
  BY <1>2 DEF StarFor, IsFor
<1>4. \A r \in t.star : new(r) = r \/ (r.user = call.user /\ new(r).user = call.user)
  BY <1>2 DEF StarFor, IsFor
<1>5. call.op = "set"
  BY DEF SetArgs
<1> HIDE DEF new, t2
<1>6. Unique(t2)
  BY <1>1, <1>3 DEF Unique
<1>7. Apart(t, t2, call)
  BY <1>1, <1>4, <1>5 DEF Apart
<1> QED
  BY <1>6, <1>7 DEF t2

(* Inserting a star adds no second one where the lookup found none, and     *)
(* touches no other.                                                        *)
LEMMA InsertStarIsUnique ==
  ASSUME NEW t \in Tables, NEW call \in SetArgs, Unique(t),
         \A r \in t.star : ~IsFor(r, call)
  PROVE  Unique(InsertStar(t, call)) /\ Apart(t, InsertStar(t, call), call)
<1> DEFINE new == StarFor(t.nextStar, call)
           t2 == InsertStar(t, call)
<1>1. t2.star = t.star \cup {new}
  BY DEF InsertStar, Tables
<1>2. IsFor(new, call) /\ call.op = "set"
  BY DEF StarFor, IsFor, SetArgs
<1> HIDE DEF new, t2
<1>3. Unique(t2)
  BY <1>1, <1>2 DEF Unique, IsFor
<1>4. Apart(t, t2, call)
  BY <1>1, <1>2 DEF Apart, IsFor
<1> QED
  BY <1>3, <1>4 DEF t2

(* A step of worker w that leaves the tables alone. *)
LEMMA QuietKeepsStars ==
  ASSUME OneStar, OneEach', NEW w \in Worker, UNCHANGED <<db, work, writer>>,
         \A v \in Worker \ {w} : pc'[v] = pc[v] /\ req'[v] = req[v],
         pc'[w] # "star",
         writer = w => req'[w].op = req[w].op /\ req'[w].user = req[w].user
  PROVE  OneStar'
BY DEF OneStar, Unique, LookupOK, IsFor, ApartOK, Apart

(* A write that touches the star of its own user only keeps the invariant. *)
LEMMA WriteKeepsOneStar ==
  ASSUME WellTyped, OneStar, NEW w \in Worker, NEW t2, NEW label \in {"sum", "commit"},
         pc[w] # "idle", Write(w, t2, label), UNCHANGED <<req, form>>,
         Unique(t2), Apart(db, t2, req[w])
  PROVE  OneStar'
<1>1. /\ db' = db /\ work' = t2 /\ writer' = w /\ req' = req
      /\ pc' = [pc EXCEPT ![w] = label] /\ pc \in [Worker -> Labels]
  BY DEF Write, Goto, WellTyped
<1>2. OneEach'
  BY <1>1, StepKeepsOneEach DEF OneStar
<1>3. LookupOK'
  BY <1>1 DEF OneStar, LookupOK
<1>4. ApartOK'
  BY <1>1 DEF ApartOK
<1>5. Unique(db)' /\ Unique(work)'
  BY <1>1 DEF OneStar, Unique
<1> QED
  BY <1>2, <1>3, <1>4, <1>5 DEF OneStar

(* A rollback keeps the invariant. *)
LEMMA RollbackKeepsOneStar ==
  ASSUME WellTyped, OneStar, NEW w \in Worker, pc[w] # "idle", Rollback(w),
         UNCHANGED <<req, form>>, pc' = [pc EXCEPT ![w] = "answer"]
  PROVE  OneStar'
<1>1. /\ db' = db /\ req' = req /\ pc \in [Worker -> Labels]
      /\ \/ writer = w /\ work' = db /\ writer' = NoWorker
         \/ writer # w /\ work' = work /\ writer' = writer
  BY DEF Rollback, WellTyped
<1>2. OneEach'
  BY <1>1, StepKeepsOneEach DEF OneStar
<1>3. LookupOK'
  BY <1>1 DEF OneStar, LookupOK
<1>4. ApartOK'
  BY <1>1, WorkerAssumption DEF OneStar, ApartOK
<1>5. Unique(db)' /\ Unique(work)'
  BY <1>1 DEF OneStar, Unique
<1> QED
  BY <1>2, <1>3, <1>4, <1>5 DEF OneStar

(* A commit keeps the invariant: no other request of its user is in         *)
(* progress.                                                                *)
LEMMA CommitKeepsOneStar ==
  ASSUME WellTyped, OneStar, NEW w \in Worker, Commit(w), UNCHANGED <<req, form>>
  PROVE  OneStar'
<1>1. /\ work' = work /\ req' = req /\ pc \in [Worker -> Labels] /\ pc[w] = "commit"
      /\ pc' = [pc EXCEPT ![w] = "answer"]
      /\ \/ writer = w /\ db' = work /\ writer' = NoWorker
         \/ writer # w /\ db' = db /\ writer' = writer
  BY DEF Commit, Seen, WellTyped
<1>2. OneEach'
  BY <1>1, StepKeepsOneEach DEF OneStar
<1>3. Unique(db)' /\ Unique(work)'
  BY <1>1 DEF OneStar, Unique
<1>4. ApartOK'
  BY <1>1, WorkerAssumption DEF OneStar, ApartOK
<1>5. LookupOK'
  <2>1. CASE db'.star = db.star
    BY <1>1, <2>1 DEF OneStar, LookupOK
  <2>2. CASE db'.star # db.star
    <3>1. /\ db' = work /\ req[w].op = "set"
          /\ \A r : r.user # req[w].user => (r \in db.star <=> r \in work.star)
      BY <1>1, <2>2 DEF OneStar, ApartOK, Apart
    <3>2. ASSUME NEW v \in Worker, pc'[v] = "star"
          PROVE  /\ pc[v] = "star"
                 /\ \A r : IsFor(r, req[v]) => (r \in db.star <=> r \in db'.star)
      <4>1. pc[v] = "star" /\ v # w
        BY <1>1, <3>2
      <4>2. req[v].op = "set"
        BY <4>1 DEF WellTyped, SetArgs
      <4>3. req[v].user # req[w].user
        BY <1>1, <3>1, <4>1, <4>2 DEF OneStar, OneEach, Rating
      <4> QED
        BY <3>1, <4>1, <4>3 DEF IsFor
    <3> QED
      BY <1>1, <3>2 DEF OneStar, LookupOK
  <2> QED
    BY <2>1, <2>2
<1> QED
  BY <1>2, <1>3, <1>4, <1>5 DEF OneStar

(* A user who waits for the answer of one rating before giving the next has *)
(* one star per product, whatever other users, the grid and the             *)
(* administrator do and whichever requests fail.                            *)
THEOREM StarsAreUnique == Overlap = FALSE /\ Spec => []OneStarPerUser
<1> SUFFICES ASSUME Overlap = FALSE PROVE Spec => []OneStarPerUser
  OBVIOUS
<1>1. Init => OneStar
  <2> SUFFICES ASSUME Init PROVE OneStar
    OBVIOUS
  <2>1. /\ db.star = {} /\ work = db /\ writer = NoWorker
        /\ \A w \in Worker : pc[w] = "idle"
    BY DEF Init, ServerInit
  <2> QED
    BY <2>1 DEF OneStar, OneEach, Rating, Unique, LookupOK, ApartOK, Apart
<1>2. WellTyped /\ Kept /\ OneStar /\ [Next]_vars => OneStar'
  <2> SUFFICES ASSUME WellTyped, Kept, OneStar, [Next]_vars PROVE OneStar'
    OBVIOUS
  <2>0. /\ pc \in [Worker -> Labels] /\ req \in [Worker -> SetArgs \cup OtherArgs]
        /\ db \in Tables /\ work \in Tables
        /\ \A w \in Worker :
             pc[w] \notin {"sum", "rate", "commit"} => writer # w
        /\ \A w \in Worker : Apart(db, Seen(w), req[w]) /\ Unique(Seen(w))
    BY DEF WellTyped, Kept, LockOK, Seen, OneStar, ApartOK, Apart
  <2>1. ASSUME NEW w \in Worker, Click(w) PROVE OneStar'
    <3>1. ASSUME NEW label \in {"lookup", "search", "edit", "create"}, NEW call,
                 Submit(w, label, call),
                 call.op = "set" => \A v \in Worker : Rating(v) => req[v].user # call.user
          PROVE  OneStar'
      <4>1. /\ UNCHANGED <<db, work, writer>> /\ pc[w] = "idle"
            /\ pc' = [pc EXCEPT ![w] = label] /\ req' = [req EXCEPT ![w] = call]
        BY <3>1 DEF Submit, Accept, tableVars, InProgress
      <4>2. /\ pc'[w] = label /\ req'[w] = call
            /\ \A v \in Worker \ {w} : pc'[v] = pc[v] /\ req'[v] = req[v]
        BY <2>0, <4>1
      <4>3. OneEach'
        BY <3>1, <4>2 DEF OneStar, OneEach, Rating
      <4> QED
        BY <2>0, <4>1, <4>2, <4>3, QuietKeepsStars
    <3>2. ASSUME NEW u \in User, NEW p \in 1..db.nextProduct, NEW s \in Stars,
                 SetStars(w, u, p, s)
          PROVE  OneStar'
      <4> DEFINE call == [op |-> "set", user |-> u, product |-> p, stars |-> s,
                          row |-> NoRow, average |-> 0]
      <4>1. Submit(w, "lookup", call) /\ call.user = u
        BY <3>2 DEF SetStars
      <4>2. \A v \in Worker : Rating(v) => req[v].user # u
        BY <3>2 DEF SetStars, Rating, InProgress
      <4> HIDE DEF call
      <4> QED
        BY <3>1, <4>1, <4>2
    <3>3. CASE Search(w)
      BY <3>1, <3>3 DEF Search
    <3>4. ASSUME NEW u \in User, PostForm(w, u) PROVE OneStar'
      <4>1. PICK r : Submit(w, "edit", [op |-> "edit", product |-> form[u].product,
                                        rating |-> r])
        BY <3>4 DEF PostForm
      <4> QED
        BY <3>1, <4>1
    <3>5. CASE PostNewProduct(w)
      BY <3>1, <3>5 DEF PostNewProduct
    <3> QED
      BY <2>1, <3>2, <3>3, <3>4, <3>5 DEF Click
  <2>2. ASSUME NEW w \in Worker, LookupStar(w) PROVE OneStar'
    <3>1. req[w] \in SetArgs /\ Seen(w) = db /\ pc[w] = "lookup"
      BY <2>0, <2>2 DEF LookupStar, WellTyped, Seen
    <3>2. PICK i \in SomeRow({r \in StarsOf(db.star, req[w].product) :
                                r.user = req[w].user}) :
            req' = [req EXCEPT ![w].row = i]
      BY <2>2, <3>1 DEF LookupStar
    <3>3. /\ req'[w].row = i /\ req'[w].user = req[w].user /\ req'[w].op = req[w].op
          /\ req'[w].product = req[w].product
          /\ \A v \in Worker \ {w} : req'[v] = req[v]
      BY <2>0, <3>1, <3>2 DEF SetArgs
    <3>4. \A r \in db.star : r.id # NoRow
      BY <2>0 DEF Tables, StarRow, RowId
    <3>5. \/ i = NoRow /\ \A r \in db.star : ~IsFor(r, req[w])
          \/ i # NoRow /\ \E r \in db.star : r.id = i /\ IsFor(r, req[w])
      BY <3>2, <3>4 DEF SomeRow, StarsOf, IsFor
    <3>6. /\ UNCHANGED <<db, work, writer>> /\ writer # w
          /\ \A v \in Worker \ {w} : pc'[v] = pc[v]
      BY <2>0, <2>2 DEF LookupStar, Read, Goto, tableVars
    <3>7. OneEach'
      BY <3>1, <3>3, <3>6, StepKeepsOneEach DEF OneStar
    <3>8. LookupOK'
      BY <3>3, <3>5, <3>6 DEF OneStar, LookupOK, IsFor
    <3> QED
      BY <3>3, <3>6, <3>7, <3>8 DEF OneStar, Unique, ApartOK
  <2>3. ASSUME NEW w \in Worker, WriteStar(w) PROVE OneStar'
    <3>1. /\ pc[w] = "star" /\ Seen(w) = db /\ req[w] \in SetArgs /\ IdsOK(db)
          /\ Unique(db) /\ UNCHANGED <<req, form>>
      BY <2>0, <2>3 DEF WriteStar, Seen, WellTyped, Kept, OneStar
    <3>2. \/ req[w].row = NoRow /\ \A r \in db.star : ~IsFor(r, req[w])
          \/ req[w].row # NoRow /\ \E r \in db.star : r.id = req[w].row /\ IsFor(r, req[w])
      BY <3>1 DEF OneStar, LookupOK
    <3>3. CASE req[w].row # NoRow
      BY <2>0, <2>3, <3>1, <3>2, <3>3, UpdateStarIsUnique, WriteKeepsOneStar
      DEF WriteStar
    <3>4. CASE req[w].row = NoRow
      BY <2>0, <2>3, <3>1, <3>2, <3>4, InsertStarIsUnique, WriteKeepsOneStar
      DEF WriteStar
    <3> QED
      BY <3>3, <3>4
  <2>4. ASSUME NEW w \in Worker, SumStars(w) PROVE OneStar'
    <3>1. pc[w] = "sum" /\ req[w] \in SetArgs
      BY <2>4 DEF SumStars, WellTyped
    <3>2. /\ UNCHANGED <<db, work, writer>> /\ pc'[w] = "rate"
          /\ req'[w].user = req[w].user /\ req'[w].op = req[w].op
          /\ \A v \in Worker \ {w} : pc'[v] = pc[v] /\ req'[v] = req[v]
      BY <2>0, <2>4, <3>1 DEF SumStars, Read, Goto, tableVars, SetArgs
    <3>3. OneEach'
      BY <3>1, <3>2, StepKeepsOneEach DEF OneStar
    <3> QED
      BY <3>2, <3>3, QuietKeepsStars
  <2>5. ASSUME NEW w \in Worker, NEW t2, NEW label \in {"commit"}, pc[w] # "idle",
               Write(w, t2, label), UNCHANGED <<req, form>>, t2.star = Seen(w).star
        PROVE  OneStar'
    <3>1. Unique(t2) /\ Apart(db, t2, req[w])
      BY <2>0, <2>5 DEF Unique, Apart
    <3> QED
      BY <2>5, <3>1, WriteKeepsOneStar
  <2>6. ASSUME NEW w \in Worker, RateProduct(w) \/ EditProduct(w) \/ CreateProduct(w)
        PROVE  OneStar'
    <3>1. PICK t2 : Write(w, t2, "commit") /\ t2.star = Seen(w).star
      <4>1. Seen(w) \in Tables
        BY SeenType
      <4>2. \A p, v : SetRating(Seen(w), p, v).star = Seen(w).star
        BY <4>1 DEF SetRating, Tables
      <4>3. \A row : InsertProduct(Seen(w), row).star = Seen(w).star
        BY <4>1 DEF InsertProduct, Tables
      <4>4. \A p, row : [Seen(w) EXCEPT !.product[p] = row].star = Seen(w).star
        BY <4>1 DEF Tables
      <4> QED
        BY <2>6, <4>2, <4>3, <4>4 DEF RateProduct, EditProduct, CreateProduct
    <3>2. pc[w] # "idle" /\ UNCHANGED <<req, form>>
      BY <2>6 DEF RateProduct, EditProduct, CreateProduct
    <3> QED
      BY <2>5, <3>1, <3>2
  <2>7. ASSUME NEW w \in Worker, SearchProducts(w) PROVE OneStar'
    <3>1. pc[w] = "search" /\ writer # w /\ UNCHANGED <<req, form>>
      BY <2>0, <2>7 DEF SearchProducts
    <3>2. CASE Read(w, "commit")
      <4>1. /\ UNCHANGED <<db, work, writer>> /\ pc'[w] = "commit"
            /\ \A v \in Worker \ {w} : pc'[v] = pc[v] /\ req'[v] = req[v]
        BY <2>0, <3>1, <3>2 DEF Read, Goto, tableVars
      <4>2. OneEach'
        BY <3>1, <4>1, StepKeepsOneEach DEF OneStar
      <4> QED
        BY <3>1, <4>1, <4>2, QuietKeepsStars
    <3>3. CASE Fail(w)
      BY <3>1, <3>3, RollbackKeepsOneStar DEF Fail
    <3> QED
      BY <2>7, <3>2, <3>3 DEF SearchProducts
  <2>8. ASSUME NEW w \in Worker, Finish(w) PROVE OneStar'
    <3>1. UNCHANGED <<req, form>>
      BY <2>8 DEF Finish
    <3> QED
      BY <2>8, <3>1, CommitKeepsOneStar, RollbackKeepsOneStar
      DEF Finish, CommitFails, LockTimeout, InHandler, Fail
  <2>9. ASSUME NEW w \in Worker, Deliver(w) PROVE OneStar'
    <3>1. /\ UNCHANGED <<db, work, writer>> /\ pc'[w] = "idle" /\ writer # w
          /\ \A v \in Worker \ {w} : pc'[v] = pc[v] /\ req'[v] = req[v]
      BY <2>0, <2>9 DEF Deliver, Respond, tableVars
    <3>2. OneEach'
      BY <3>1 DEF OneStar, OneEach, Rating
    <3> QED
      BY <3>1, <3>2, QuietKeepsStars
  <2>10. ASSUME NEW u \in User, NEW p \in DOMAIN db.product, OpenForm(u, p)
         PROVE  OneStar'
    BY <2>10 DEF OpenForm, serverVars, OneStar, OneEach, Rating, Unique, LookupOK,
                 ApartOK, Apart
  <2>11. ASSUME NEW p \in DOMAIN db.product, DeleteProduct(p) PROVE OneStar'
    <3>1. /\ db'.star = db.star /\ work' = db' /\ writer = NoWorker
          /\ UNCHANGED <<writer, pc, req>>
      BY <2>0, <2>11 DEF DeleteProduct, Tables
    <3> QED
      BY <3>1, WorkerAssumption
      DEF OneStar, OneEach, Rating, Unique, LookupOK, ApartOK
  <2>12. ASSUME ServerCrash PROVE OneStar'
    <3>1. /\ db' = db /\ work' = db /\ writer' = NoWorker
          /\ \A w \in Worker : pc'[w] = "idle"
      BY <2>12 DEF ServerCrash, Crash
    <3> QED
      BY <3>1, WorkerAssumption
      DEF OneStar, OneEach, Rating, Unique, LookupOK, ApartOK
  <2>13. CASE UNCHANGED vars
    BY <2>13 DEF vars, serverVars, OneStar, OneEach, Rating, Unique, LookupOK,
                 ApartOK, Apart
  <2> QED
    BY <2>1, <2>2, <2>3, <2>4, <2>6, <2>7, <2>8, <2>9, <2>10, <2>11, <2>12, <2>13
    DEF Next, Serve, Handler, Done
<1>3. OneStar => OneStarPerUser
  BY DEF OneStar, Unique, OneStarPerUser
<1> QED
  BY <1>1, <1>2, <1>3, Typing, KeptInvariant, PTL DEF Spec

=============================================================================
