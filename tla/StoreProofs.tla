---------------------------- MODULE StoreProofs -----------------------------
(* What is proved of the stores: the page of the new one and the server of  *)
(* the old one.                                                             *)
EXTENDS Shop, Store51, FiniteSetTheorems, TLAPS

(* Theorems about StorePage, for every catalogue, every result of a search  *)
(* and every order of answers, and about Shop, for all prices.              *)

(* The items of the list are records on which "opened" can be set; an index *)
(* that points outside of the list points to nothing that is open.          *)
IsItem(r) == r = [id |-> r.id, rating |-> r.rating, opened |-> r.opened]

(* An item opened or closed, and an item with other stars. *)
Opened(r, x) == [r EXCEPT !.opened = x]
Rated(r, x) == [r EXCEPT !.rating = x]

ItemsOK ==
  /\ product_list = [i \in DOMAIN product_list |-> product_list[i]]
  /\ \A i \in DOMAIN product_list : IsItem(product_list[i])

(* Indices begin at 1: no list, and no answer that becomes one, has an item *)
(* at the index that stands for null.                                       *)
NetOK ==
  \A m \in net :
    /\ m = [op |-> m.op, product |-> m.product, arg |-> m.arg, n |-> m.n,
            answer |-> m.answer]
    /\ m.op \in {"list", "search"} =>
         m.arg \in SearchStrings /\ (m.answer # NoAnswer => null \notin DOMAIN m.answer)

ListOK ==
  NetOK /\ ItemsOK /\ null \notin DOMAIN product_list /\ OnlyDisplayedIsOpen

(* The list of reviews is a record, too. *)
PairOK == review_list = [of |-> review_list.of, mine |-> review_list.mine]

(* A record with these fields is an item of the list. *)
LEMMA MakeItem ==
  ASSUME NEW id, NEW rating, NEW opened
  PROVE  IsItem([id |-> id, rating |-> rating, opened |-> opened])
BY DEF IsItem

(* Opening, closing and rating an item leave it an item. *)
LEMMA EditItem ==
  ASSUME NEW r, IsItem(r), NEW x
  PROVE  /\ IsItem(Opened(r, x)) /\ Opened(r, x).opened = x
         /\ IsItem(Rated(r, x)) /\ Rated(r, x).opened = r.opened
<1>1. r = [id |-> r.id, rating |-> r.rating, opened |-> r.opened]
  BY DEF IsItem
<1>2. Opened(r, x) = [id |-> r.id, rating |-> r.rating, opened |-> x]
  BY <1>1 DEF Opened
<1>3. Rated(r, x) = [id |-> r.id, rating |-> x, opened |-> r.opened]
  BY <1>1 DEF Rated
<1> QED
  BY <1>2, <1>3, MakeItem

(* Opening or closing an item changes nothing else of the list. *)
LEMMA SetOpenedOnly ==
  ASSUME ItemsOK, NEW i \in DOMAIN product_list, NEW opened
  PROVE  /\ DOMAIN SetOpened(i, opened) = DOMAIN product_list
         /\ SetOpened(i, opened)
              = [j \in DOMAIN product_list |-> SetOpened(i, opened)[j]]
         /\ IsItem(SetOpened(i, opened)[i]) /\ SetOpened(i, opened)[i].opened = opened
         /\ \A j \in DOMAIN product_list \ {i} :
              SetOpened(i, opened)[j] = product_list[j]
<1>1. SetOpened(i, opened)[i] = Opened(product_list[i], opened)
  BY DEF SetOpened, Opened
<1>2. IsItem(product_list[i])
  BY DEF ItemsOK
<1> QED
  BY <1>1, <1>2, EditItem DEF SetOpened

(* A request that is made, and one that is answered, keep NetOK. *)
LEMMA AskKeepsNet ==
  ASSUME NetOK, NEW op, NEW p, NEW arg, Ask(op, p, arg),
         op \in {"list", "search"} => arg \in SearchStrings
  PROVE  NetOK'
BY DEF NetOK, Ask, Request

(* An answer to a request keeps the requests on their way in order. *)
LEMMA AnswerKeepsNet ==
  ASSUME NetOK, NEW m \in net, NEW answer, AnswerWith(m, answer),
         m.op \in {"list", "search"} => null \notin DOMAIN answer
  PROVE  NetOK'
<1>1. [m EXCEPT !.answer = answer]
        = [op |-> m.op, product |-> m.product, arg |-> m.arg, n |-> m.n,
           answer |-> answer]
  BY DEF NetOK
<1> QED
  BY <1>1 DEF NetOK, AnswerWith

(* A list of the server has no item at the index that stands for null. *)
LEMMA ProductListType ==
  ASSUME NEW s \in SearchStrings
  PROVE  null \notin DOMAIN ProductList(Result[s])
<1>1. Result[s] \in Seq(Product)
  BY SearchAssumption
<1> QED
  BY <1>1 DEF ProductList, null

(* The list that open_reviews leaves: only the item clicked on is open. *)
LEMMA OpenOnlyOne ==
  ASSUME ListOK, NEW i \in DOMAIN product_list,
         product_displayed \in DOMAIN product_list \cup {null},
         product_list' = [CloseDisplayed EXCEPT ![i].opened = TRUE],
         product_displayed' = i
  PROVE  ItemsOK' /\ null \notin DOMAIN product_list' /\ OnlyDisplayedIsOpen'
<1> DEFINE closed == CloseDisplayed
<1>1. /\ DOMAIN closed = DOMAIN product_list
      /\ closed = [j \in DOMAIN closed |-> closed[j]]
      /\ \A j \in DOMAIN closed :
           IsItem(closed[j]) /\ ~closed[j].opened
  <2>1. CASE product_displayed = null
    BY <2>1 DEF CloseDisplayed, ListOK, ItemsOK, OnlyDisplayedIsOpen
  <2>2. CASE product_displayed # null
    <3>1. closed = SetOpened(product_displayed, FALSE)
          /\ product_displayed \in DOMAIN product_list
      BY <2>2 DEF CloseDisplayed
    <3> HIDE DEF closed
    <3>2. /\ DOMAIN closed = DOMAIN product_list
          /\ closed = [j \in DOMAIN product_list |-> closed[j]]
          /\ IsItem(closed[product_displayed])
          /\ ~closed[product_displayed].opened
          /\ \A j \in DOMAIN product_list \ {product_displayed} :
               closed[j] = product_list[j]
      <4>1. ItemsOK
        BY DEF ListOK
      <4> DEFINE set == SetOpened(product_displayed, FALSE)
      <4>2. /\ DOMAIN set = DOMAIN product_list
            /\ set = [j \in DOMAIN product_list |-> set[j]]
            /\ IsItem(set[product_displayed]) /\ ~set[product_displayed].opened
            /\ \A j \in DOMAIN product_list \ {product_displayed} :
                 set[j] = product_list[j]
        BY <3>1, <4>1, SetOpenedOnly
      <4> HIDE DEF set
      <4>3. closed = set
        BY <3>1 DEF set
      <4> QED
        BY <4>2, <4>3
    <3>3. \A j \in DOMAIN product_list \ {product_displayed} :
            IsItem(product_list[j]) /\ ~product_list[j].opened
      BY DEF ListOK, ItemsOK, OnlyDisplayedIsOpen
    <3> QED
      BY <3>2, <3>3
  <2> QED
    BY <2>1, <2>2
<1> HIDE DEF closed
<1>2. product_list' = [closed EXCEPT ![i].opened = TRUE]
  BY DEF closed
<1>3. /\ DOMAIN product_list' = DOMAIN closed
      /\ \A j \in DOMAIN closed \ {i} : product_list'[j] = closed[j]
      /\ product_list'[i] = Opened(closed[i], TRUE)
      /\ product_list' = [j \in DOMAIN closed |-> product_list'[j]]
  BY <1>1, <1>2 DEF Opened
<1>4. IsItem(product_list'[i])
  <2>1. IsItem(closed[i]) /\ product_list'[i] = Opened(closed[i], TRUE)
    BY <1>1, <1>3
  <2>2. IsItem(Opened(closed[i], TRUE))
    BY <2>1, EditItem
  <2> QED
    BY <2>1, <2>2
<1> QED
  BY <1>1, <1>3, <1>4 DEF ListOK, ItemsOK, OnlyDisplayedIsOpen

(* Every list, answer and request keeps the shape that ListOK states: what  *)
(* process_products makes of an answer is a list without open items.        *)
THEOREM ListKept == Spec => []ListOK
<1>1. Init => ListOK
  BY SearchAssumption
  DEF Init, ListOK, NetOK, ItemsOK, OnlyDisplayedIsOpen, null
<1>2. ListOK /\ [Next]_vars => ListOK'
  <2> SUFFICES ASSUME ListOK, [Next]_vars PROVE ListOK'
    OBVIOUS
  <2>1. ASSUME NEW s \in SearchStrings, DoSearch(s) PROVE ListOK'
    BY <2>1, AskKeepsNet DEF DoSearch, ListOK, ItemsOK, OnlyDisplayedIsOpen
  <2>2. ASSUME NEW i \in DOMAIN product_list, OpenReviews(i) PROVE ListOK'
    <3>1. NetOK'
      BY <2>2, AskKeepsNet DEF OpenReviews, ListOK
    <3>2. CASE UNCHANGED <<product_list, product_displayed>>
      BY <3>1, <3>2 DEF ListOK, ItemsOK, OnlyDisplayedIsOpen
    <3>3. CASE ~UNCHANGED <<product_list, product_displayed>>
      BY <2>2, <3>1, <3>3, OpenOnlyOne DEF OpenReviews, ListOK
    <3> QED
      BY <3>2, <3>3
  <2>3. ASSUME NEW i \in DOMAIN product_list, CloseReviews(i) PROVE ListOK'
    <3>1. product_displayed = i /\ product_list' = SetOpened(i, FALSE)
      BY <2>3 DEF CloseReviews, CloseDisplayed, ListOK, OnlyDisplayedIsOpen
    <3>2. /\ DOMAIN product_list' = DOMAIN product_list /\ ItemsOK'
          /\ \A j \in DOMAIN product_list : ~product_list'[j].opened
      <4> DEFINE closed == SetOpened(i, FALSE)
      <4>1. /\ DOMAIN closed = DOMAIN product_list
            /\ closed = [j \in DOMAIN product_list |-> closed[j]]
            /\ IsItem(closed[i]) /\ ~closed[i].opened
            /\ \A j \in DOMAIN product_list \ {i} : closed[j] = product_list[j]
        BY SetOpenedOnly DEF ListOK
      <4> HIDE DEF closed
      <4>2. \A j \in DOMAIN product_list \ {i} :
              IsItem(product_list[j]) /\ ~product_list[j].opened
        BY <3>1 DEF ListOK, ItemsOK, OnlyDisplayedIsOpen
      <4>3. product_list' = closed
        BY <3>1 DEF closed
      <4> QED
        BY <4>1, <4>2, <4>3 DEF ItemsOK
    <3>3. NetOK'
      BY <2>3 DEF CloseReviews, ListOK, NetOK
    <3> QED
      BY <3>2, <3>3 DEF ListOK, OnlyDisplayedIsOpen
  <2>4. ASSUME NEW i \in DOMAIN product_list, NEW text, Type(i, text)
        PROVE  ListOK'
    BY <2>4 DEF Type, ListOK, NetOK, ItemsOK, OnlyDisplayedIsOpen
  <2>5. ASSUME NEW i \in DOMAIN product_list, AddReview(i) PROVE ListOK'
    BY <2>5, AskKeepsNet DEF AddReview, page, ListOK, ItemsOK, OnlyDisplayedIsOpen
  <2>6. ASSUME NEW i \in DOMAIN product_list, NEW s, SetStars(i, s)
        PROVE  ListOK'
    <3>1. NetOK'
      BY <2>6, AskKeepsNet DEF SetStars, ListOK
    <3>2. /\ DOMAIN product_list' = DOMAIN product_list
          /\ product_list' = [j \in DOMAIN product_list |-> product_list'[j]]
          /\ \A j \in DOMAIN product_list \ {i} :
               product_list'[j] = product_list[j]
          /\ product_list'[i] = Rated(product_list[i], s)
      BY <2>6 DEF SetStars, ListOK, ItemsOK, Rated
    <3>3. IsItem(product_list'[i]) /\ product_list'[i].opened = product_list[i].opened
      BY <3>2, EditItem DEF ListOK, ItemsOK
    <3> QED
      BY <2>6, <3>1, <3>2, <3>3
      DEF SetStars, ListOK, ItemsOK, OnlyDisplayedIsOpen
  <2>7. ASSUME NEW m \in net, Serve(m) PROVE ListOK'
    <3>1. NetOK'
      <4>1. CASE m.op \in {"list", "search"}
        BY <2>7, <4>1, ProductListType, AnswerKeepsNet DEF Serve, ListOK, NetOK
      <4>2. CASE m.op \notin {"list", "search"} /\ \E answer : AnswerWith(m, answer)
        BY <4>2, AnswerKeepsNet DEF ListOK
      <4>3. CASE net' = net \ {m}
        BY <4>3 DEF ListOK, NetOK
      <4> QED
        BY <2>7, <4>1, <4>2, <4>3 DEF Serve
    <3> QED
      BY <2>7, <3>1 DEF Serve, page, ListOK, ItemsOK, OnlyDisplayedIsOpen
  <2>8. ASSUME NEW m \in net, Lose(m) PROVE ListOK'
    BY <2>8 DEF Lose, page, ListOK, NetOK, ItemsOK, OnlyDisplayedIsOpen
  <2>9. ASSUME NEW m \in net, Receive(m) PROVE ListOK'
    <3>1. CASE ReceiveProducts(m)
      <4>1. /\ product_list' = Processed(m.answer)
            /\ null \notin DOMAIN m.answer
            /\ net' = net \ {m}
        BY <2>9, <3>1 DEF ReceiveProducts, Receive, ListOK, NetOK
      <4> QED
        BY <4>1, MakeItem DEF Processed, ListOK, NetOK, ItemsOK, OnlyDisplayedIsOpen
    <3>2. CASE ReceiveReviews(m)
      BY <3>2 DEF ReceiveReviews, Request, ListOK, NetOK, ItemsOK,
         OnlyDisplayedIsOpen
    <3>3. CASE ReceiveEmail(m) \/ ReceiveAdded(m)
      BY <3>3 DEF ReceiveEmail, ReceiveAdded, ListOK, NetOK, ItemsOK,
         OnlyDisplayedIsOpen
    <3> QED
      BY <2>9, <3>1, <3>2, <3>3 DEF Receive
  <2>10. CASE UNCHANGED vars
    BY <2>10 DEF vars, page, ListOK, NetOK, ItemsOK, OnlyDisplayedIsOpen
  <2> QED
    BY <2>1, <2>2, <2>3, <2>4, <2>5, <2>6, <2>7, <2>8, <2>9, <2>10
    DEF Next, Click, Done
<1> QED
  BY <1>1, <1>2, PTL DEF Spec

(* Searches replace the list under product_displayed and requests fail or   *)
(* are answered in any order; still the review section of at most one       *)
(* product is open, the one product_displayed points to.                    *)
THEOREM OneSectionOpen == Spec => []OnlyDisplayedIsOpen
BY ListKept, PTL DEF ListOK

(* When no request fails, the user's own review leaves the list of the      *)
(* others however the answers of several get_reviews and get_user_email are *)
(* mixed: the last list to arrive is followed by an email.                  *)
THEOREM OwnReviewStaysApart == MayLose = FALSE /\ Spec => []OwnReviewApart
<1> SUFFICES ASSUME MayLose = FALSE PROVE Spec => []OwnReviewApart
  OBVIOUS
<1> USE DEF PairOK
<1>1. Init => PairOK /\ OwnReviewApart
  BY DEF Init, OwnReviewApart
<1>2. PairOK /\ [Next]_vars => PairOK'
  <2> SUFFICES ASSUME PairOK, [Next]_vars PROVE PairOK'
    OBVIOUS
  <2>1. CASE UNCHANGED review_list
    BY <2>1
  <2>2. CASE \E p, own : review_list' = [of |-> p, mine |-> own]
    BY <2>2
  <2>3. CASE review_list' = [review_list EXCEPT !.mine = NoText]
    BY <2>3
  <2> HIDE DEF PairOK
  <2> QED
    BY <2>1, <2>2, <2>3
    DEF Next, Click, DoSearch, OpenReviews, CloseReviews, Type, AddReview,
        SetStars, Serve, Lose, Receive, ReceiveProducts, ReceiveReviews,
        ReceiveEmail, ReceiveAdded, Done, page, vars
<1>3. PairOK /\ OwnReviewApart /\ NetOK /\ [Next]_vars => OwnReviewApart'
  <2> SUFFICES ASSUME PairOK, OwnReviewApart, NetOK, [Next]_vars
               PROVE  OwnReviewApart'
    OBVIOUS
  <2>1. ASSUME UNCHANGED review_list, \A m \in net : m.op = "email" => m \in net'
        PROVE  OwnReviewApart'
    BY <2>1 DEF OwnReviewApart
  <2>2. CASE Click
    BY <2>1, <2>2
    DEF Click, DoSearch, OpenReviews, CloseReviews, Type, AddReview, SetStars,
        Ask, page
  <2>3. ASSUME NEW m \in net, Serve(m) PROVE OwnReviewApart'
    <3>1. UNCHANGED review_list
      BY <2>3 DEF Serve, page
    <3>2. CASE m.op = "email"
      <4>1. AnswerWith(m, Ack)
        BY <2>3, <3>2 DEF Serve
      <4>2. [m EXCEPT !.answer = Ack].op = "email"
        BY <3>2 DEF NetOK
      <4> QED
        BY <3>1, <4>1, <4>2 DEF AnswerWith, OwnReviewApart
    <3>3. CASE m.op # "email"
      BY <2>1, <2>3, <3>1, <3>3 DEF Serve, AnswerWith
    <3> QED
      BY <3>2, <3>3
  <2>4. ASSUME NEW m \in net, Receive(m) PROVE OwnReviewApart'
    <3>1. CASE ReceiveProducts(m) \/ ReceiveAdded(m)
      BY <2>1, <3>1 DEF ReceiveProducts, ReceiveAdded
    <3>2. CASE ReceiveReviews(m)
      <4>1. Request("email", NoProduct, NoText).op = "email"
        BY DEF Request
      <4> QED
        BY <3>2, <4>1 DEF ReceiveReviews, OwnReviewApart
    <3>3. CASE ReceiveEmail(m) /\ review_list.mine = NoText
      BY <3>3 DEF ReceiveEmail, OwnReviewApart
    <3>4. CASE ReceiveEmail(m) /\ review_list.mine # NoText
      <4>1. [review_list EXCEPT !.mine = NoText].mine = NoText
        BY DEF PairOK
      <4> QED
        BY <3>4, <4>1 DEF ReceiveEmail, OwnReviewApart
    <3> QED
      BY <2>4, <3>1, <3>2, <3>3, <3>4 DEF Receive
  <2>5. CASE UNCHANGED vars
    BY <2>5 DEF vars, page, OwnReviewApart
  <2> QED
    BY <2>2, <2>3, <2>4, <2>5 DEF Next, Lose, Done
<1>4. ListOK => NetOK
  BY DEF ListOK
<1> HIDE DEF PairOK
<1> QED
  BY <1>1, <1>2, <1>3, <1>4, ListKept, PTL DEF Spec

-----------------------------------------------------------------------------
(* The user waits for every answer and no request fails: one request at a   *)
(* time.  What it is says what of the page is still to come: without a      *)
(* search on its way the list is the one searched for, and without          *)
(* get_reviews on its way the reviews are those of the open section.        *)
Ids(list) == [i \in DOMAIN list |-> list[i].id]
BelongTo(p) ==
  \A i \in DOMAIN product_list : product_list[i].opened => product_list[i].id = p

OneRequest == \A m, n \in net : m = n
SearchOK ==
  /\ \A m \in net : m.op \in {"list", "search"} =>
       m.arg = search_string /\ (m.answer # NoAnswer => Ids(m.answer) = Result[m.arg])
  /\ (\A m \in net : m.op \notin {"list", "search"}) =>
       Ids(product_list) = Result[search_string]
ReviewsOK ==
  /\ \A m \in net : m.op = "reviews" => BelongTo(m.product)
  /\ (\A m \in net : m.op # "reviews") => BelongTo(review_list.of)
PatientInv == OneRequest /\ PairOK /\ SearchOK /\ ReviewsOK

(* A request sent when nothing is on its way is alone. *)
LEMMA AskOne ==
  ASSUME NEW op, NEW p, NEW arg, Quiet, Ask(op, p, arg)
  PROVE  \E m : /\ net' = {m} /\ m.op = op /\ m.product = p /\ m.arg = arg
               /\ m.answer = NoAnswer
<1>1. PICK m : m = Request(op, p, arg)
  OBVIOUS
<1>2. net' = {m}
  BY <1>1 DEF Ask, Quiet
<1>3. m.op = op /\ m.product = p /\ m.arg = arg /\ m.answer = NoAnswer
  BY <1>1 DEF Request
<1> QED
  BY <1>2, <1>3

(* What the server answers to a search are the products found. *)
LEMMA AnswerIds ==
  ASSUME NEW s \in SearchStrings
  PROVE  Ids(ProductList(Result[s])) = Result[s]
<1>1. Result[s] \in Seq(Product)
  BY SearchAssumption
<1>2. Result[s] = [i \in DOMAIN Result[s] |-> Result[s][i]]
  BY <1>1
<1>3. Ids(ProductList(Result[s])) = [i \in DOMAIN Result[s] |-> Result[s][i]]
  BY DEF Ids, ProductList
<1> QED
  BY <1>2, <1>3

(* A click keeps PatientInv when it is made on a page that waits for        *)
(* nothing, or changes neither the requests nor the ids.                    *)
LEMMA PatientClicks ==
  ASSUME ListOK, PatientInv, Patient, Click
  PROVE  PatientInv'
<1>1. ASSUME NEW s \in SearchStrings, DoSearch(s) PROVE PatientInv'
  <2>1. PICK m : /\ net' = {m} /\ m.op = "search" /\ m.arg = s /\ m.answer = NoAnswer
    BY <1>1, AskOne DEF DoSearch, MayClick
  <2>2. search_string' = s /\ UNCHANGED <<product_list, review_list>> /\ net = {}
    BY <1>1 DEF DoSearch, MayClick, Quiet
  <2> QED
    BY <2>1, <2>2 DEF PatientInv, OneRequest, PairOK, SearchOK, ReviewsOK, BelongTo
<1>2. ASSUME NEW i \in DOMAIN product_list, OpenReviews(i) PROVE PatientInv'
  <2>1. PICK m : /\ net' = {m} /\ m.op = "reviews" /\ m.product = product_list[i].id
    BY <1>2, AskOne DEF OpenReviews, MayClick
  <2>2. UNCHANGED <<search_string, review_list>> /\ net = {}
    BY <1>2 DEF OpenReviews, MayClick, Quiet
  <2>3. /\ Ids(product_list)' = Ids(product_list)
        /\ \A j \in DOMAIN product_list' :
             product_list'[j].opened => product_list'[j].id = product_list[i].id
    <3>1. CASE UNCHANGED <<product_list, product_displayed>>
                 /\ product_displayed \notin DOMAIN product_list \cup {null}
      <4>1. \A j \in DOMAIN product_list : ~product_list[j].opened
        BY <3>1 DEF ListOK, OnlyDisplayedIsOpen
      <4> QED
        BY <3>1, <4>1 DEF Ids
    <3>2. CASE /\ product_displayed \in DOMAIN product_list \cup {null}
               /\ product_list' = [CloseDisplayed EXCEPT ![i].opened = TRUE]
               /\ product_displayed' = i
      <4>1. OnlyDisplayedIsOpen'
        BY <3>2, OpenOnlyOne
      <4>2. /\ DOMAIN CloseDisplayed = DOMAIN product_list
            /\ \A j \in DOMAIN product_list : CloseDisplayed[j].id = product_list[j].id
            /\ IsItem(CloseDisplayed[i])
        <5>1. CASE product_displayed = null
          BY <5>1 DEF CloseDisplayed, ListOK, ItemsOK
        <5>2. CASE product_displayed # null
          <6>1. CloseDisplayed = SetOpened(product_displayed, FALSE)
                /\ product_displayed \in DOMAIN product_list
            BY <3>2, <5>2 DEF CloseDisplayed
          <6>2. IsItem(product_list[product_displayed]) /\ IsItem(product_list[i])
            BY <6>1 DEF ListOK, ItemsOK
          <6>3. Opened(product_list[product_displayed], FALSE).id
                  = product_list[product_displayed].id
            BY <6>2 DEF IsItem, Opened
          <6>4. SetOpened(product_displayed, FALSE)[product_displayed]
                  = Opened(product_list[product_displayed], FALSE)
            BY <6>1 DEF SetOpened, Opened
          <6>5. IsItem(Opened(product_list[product_displayed], FALSE))
            BY <6>2, EditItem
          <6>6. /\ DOMAIN SetOpened(product_displayed, FALSE) = DOMAIN product_list
                /\ \A j \in DOMAIN product_list \ {product_displayed} :
                     SetOpened(product_displayed, FALSE)[j] = product_list[j]
            BY <6>1, SetOpenedOnly DEF ListOK
          <6> QED
            BY <6>1, <6>2, <6>3, <6>4, <6>5, <6>6
        <5> QED
          BY <5>1, <5>2
      <4>3. Opened(CloseDisplayed[i], TRUE).id = CloseDisplayed[i].id
        BY <4>2 DEF IsItem, Opened
      <4>4. /\ DOMAIN product_list' = DOMAIN product_list
            /\ \A j \in DOMAIN product_list : product_list'[j].id = product_list[j].id
        BY <3>2, <4>2, <4>3 DEF Opened
      <4>5. Ids(product_list)' = Ids(product_list)
        BY <4>4 DEF Ids
      <4> QED
        BY <3>2, <4>1, <4>4, <4>5 DEF OnlyDisplayedIsOpen
    <3> QED
      BY <1>2, <3>1, <3>2 DEF OpenReviews
  <2>4. Ids(product_list) = Result[search_string]
    BY <2>2 DEF PatientInv, SearchOK
  <2>5. OneRequest' /\ PairOK'
    BY <2>1, <2>2 DEF PatientInv, OneRequest, PairOK
  <2>6. SearchOK'
    BY <2>1, <2>2, <2>3, <2>4 DEF SearchOK
  <2>7. ReviewsOK'
    BY <2>1, <2>3 DEF ReviewsOK, BelongTo
  <2> QED
    BY <2>5, <2>6, <2>7 DEF PatientInv
<1>3. ASSUME UNCHANGED <<search_string, review_list, net>>, Ids(product_list)' = Ids(product_list),
             \A j \in DOMAIN product_list' :
               product_list'[j].opened =>
                 j \in DOMAIN product_list /\ product_list[j].opened
                 /\ product_list'[j].id = product_list[j].id
      PROVE  PatientInv'
  <2>1. OneRequest' /\ PairOK'
    BY <1>3 DEF PatientInv, OneRequest, PairOK
  <2>2. SearchOK'
    BY <1>3 DEF PatientInv, SearchOK
  <2>3. \A p : BelongTo(p) => BelongTo(p)'
    BY <1>3 DEF BelongTo
  <2>4. ReviewsOK'
    BY <1>3, <2>3 DEF PatientInv, ReviewsOK
  <2> QED
    BY <2>1, <2>2, <2>4 DEF PatientInv
<1>4. ASSUME NEW i \in DOMAIN product_list, CloseReviews(i) PROVE PatientInv'
  <2>1. /\ product_displayed = i /\ product_list' = SetOpened(i, FALSE)
        /\ UNCHANGED <<search_string, review_list, net>>
    BY <1>4 DEF CloseReviews, CloseDisplayed, ListOK, OnlyDisplayedIsOpen
  <2>2. /\ DOMAIN SetOpened(i, FALSE) = DOMAIN product_list
        /\ \A j \in DOMAIN product_list \ {i} : SetOpened(i, FALSE)[j] = product_list[j]
        /\ ~SetOpened(i, FALSE)[i].opened
    BY SetOpenedOnly DEF ListOK
  <2>3. SetOpened(i, FALSE)[i].id = product_list[i].id
    <3>1. IsItem(product_list[i])
      BY DEF ListOK, ItemsOK
    <3>2. Opened(product_list[i], FALSE).id = product_list[i].id
      BY <3>1 DEF IsItem, Opened
    <3> QED
      BY <3>2 DEF SetOpened, Opened
  <2>4. /\ DOMAIN product_list' = DOMAIN product_list
        /\ \A j \in DOMAIN product_list : product_list'[j].id = product_list[j].id
        /\ \A j \in DOMAIN product_list : product_list'[j].opened => product_list[j].opened
    BY <2>1, <2>2, <2>3
  <2>5. Ids(product_list)' = Ids(product_list)
    BY <2>4 DEF Ids
  <2> QED
    BY <1>3, <2>1, <2>4, <2>5
<1>5. ASSUME NEW i \in DOMAIN product_list, NEW text, Type(i, text) PROVE PatientInv'
  BY <1>3, <1>5 DEF Type, Ids
<1>6. ASSUME NEW i \in DOMAIN product_list, AddReview(i) PROVE PatientInv'
  <2>1. PICK m : net' = {m} /\ m.op = "add"
    BY <1>6, AskOne DEF AddReview, MayClick
  <2>2. UNCHANGED <<search_string, product_list, review_list>> /\ net = {}
    BY <1>6 DEF AddReview, MayClick, Quiet, page
  <2> QED
    BY <2>1, <2>2 DEF PatientInv, OneRequest, PairOK, SearchOK, ReviewsOK, BelongTo, Ids
<1>7. ASSUME NEW i \in DOMAIN product_list, NEW s, SetStars(i, s) PROVE PatientInv'
  <2>1. PICK m : net' = {m} /\ m.op = "stars"
    BY <1>7, AskOne DEF SetStars, MayClick
  <2>2. UNCHANGED <<search_string, review_list>> /\ net = {}
    BY <1>7 DEF SetStars, MayClick, Quiet
  <2>3. /\ DOMAIN product_list' = DOMAIN product_list
        /\ \A j \in DOMAIN product_list \ {i} : product_list'[j] = product_list[j]
        /\ product_list'[i] = Rated(product_list[i], s)
    BY <1>7 DEF SetStars, Rated
  <2>4. /\ Rated(product_list[i], s).id = product_list[i].id
        /\ Rated(product_list[i], s).opened = product_list[i].opened
    <3>1. IsItem(product_list[i])
      BY DEF ListOK, ItemsOK
    <3> QED
      BY <3>1 DEF IsItem, Rated
  <2>5. \A j \in DOMAIN product_list :
          product_list'[j].id = product_list[j].id
          /\ product_list'[j].opened = product_list[j].opened
    BY <2>3, <2>4
  <2>6. Ids(product_list)' = Ids(product_list)
    BY <2>3, <2>5 DEF Ids
  <2>7. \A p : BelongTo(p) => BelongTo(p)'
    BY <2>3, <2>5 DEF BelongTo
  <2>8. Ids(product_list) = Result[search_string] /\ BelongTo(review_list.of)
    BY <2>2 DEF PatientInv, SearchOK, ReviewsOK
  <2>9. OneRequest' /\ PairOK'
    BY <2>1, <2>2 DEF PatientInv, OneRequest, PairOK
  <2>10. SearchOK'
    BY <2>1, <2>2, <2>6, <2>8 DEF SearchOK
  <2>11. ReviewsOK'
    BY <2>1, <2>2, <2>7, <2>8 DEF ReviewsOK
  <2> QED
    BY <2>9, <2>10, <2>11 DEF PatientInv
<1> QED
  BY <1>1, <1>2, <1>4, <1>5, <1>6, <1>7 DEF Click

(* The answer of the server to the one request. *)
LEMMA PatientServed ==
  ASSUME ListOK, PatientInv, NEW m \in net, Serve(m)
  PROVE  PatientInv'
<1>1. net = {m} /\ UNCHANGED page
  BY DEF PatientInv, OneRequest, Serve
<1>2. ASSUME NEW answer, AnswerWith(m, answer),
             m.op \in {"list", "search"} => Ids(answer) = Result[m.arg]
      PROVE  PatientInv'
  <2>1. PICK a : a = [m EXCEPT !.answer = answer]
    OBVIOUS
  <2>2. a.op = m.op /\ a.product = m.product /\ a.arg = m.arg /\ a.answer = answer
    BY <2>1 DEF ListOK, NetOK
  <2>3. net' = {a}
    BY <1>1, <1>2, <2>1 DEF AnswerWith
  <2>4. OneRequest' /\ PairOK'
    BY <1>1, <2>3 DEF OneRequest, PairOK, PatientInv, page
  <2>5. SearchOK'
    BY <1>1, <1>2, <2>2, <2>3 DEF SearchOK, PatientInv, page, Ids
  <2>6. ReviewsOK'
    BY <1>1, <2>2, <2>3 DEF ReviewsOK, PatientInv, page, BelongTo
  <2> QED
    BY <2>4, <2>5, <2>6 DEF PatientInv
<1>3. CASE m.op \in {"list", "search"}
  <2>1. AnswerWith(m, ProductList(Result[m.arg])) /\ m.arg \in SearchStrings
    BY <1>3 DEF Serve, ListOK, NetOK
  <2> QED
    BY <1>2, <2>1, AnswerIds
<1>4. CASE m.op \notin {"list", "search"} /\ \E answer : AnswerWith(m, answer)
  BY <1>2, <1>4
<1>5. CASE m.op \notin {"list", "search", "reviews"} /\ net' = net \ {m}
  BY <1>1, <1>5 DEF PatientInv, OneRequest, PairOK, SearchOK, ReviewsOK, BelongTo, Ids, page
<1> QED
  BY <1>3, <1>4, <1>5 DEF Serve

(* The callback of the one request. *)
LEMMA PatientReceived ==
  ASSUME ListOK, PatientInv, NEW m \in net, Receive(m)
  PROVE  PatientInv'
<1>1. net = {m} /\ m.answer # NoAnswer
  BY DEF PatientInv, OneRequest, Receive
<1>2. CASE ReceiveProducts(m)
  <2>1. /\ net' = {} /\ product_list' = Processed(m.answer)
        /\ UNCHANGED <<search_string, review_list>>
        /\ Ids(m.answer) = Result[search_string]
    BY <1>1, <1>2 DEF ReceiveProducts, PatientInv, SearchOK
  <2>2. Ids(Processed(m.answer)) = Ids(m.answer)
    BY DEF Ids, Processed
  <2>3. \A i \in DOMAIN product_list' : ~product_list'[i].opened
    BY <2>1 DEF Processed
  <2>4. SearchOK'
    BY <2>1, <2>2 DEF SearchOK, Ids
  <2> QED
    BY <2>1, <2>3, <2>4 DEF PatientInv, OneRequest, PairOK, ReviewsOK, BelongTo
<1>3. CASE ReceiveReviews(m)
  <2>1. PICK e : e = Request("email", NoProduct, NoText)
    OBVIOUS
  <2>2. /\ net' = {e} /\ e.op = "email" /\ review_list' = [of |-> m.product, mine |-> m.answer]
        /\ m.op = "reviews" /\ UNCHANGED <<search_string, product_list>>
    BY <1>1, <1>3, <2>1 DEF ReceiveReviews, Request
  <2>3. BelongTo(m.product) /\ Ids(product_list) = Result[search_string]
    BY <1>1, <2>2 DEF PatientInv, SearchOK, ReviewsOK
  <2>4. OneRequest' /\ PairOK'
    BY <2>2 DEF OneRequest, PairOK
  <2>5. SearchOK'
    BY <2>2, <2>3 DEF SearchOK, Ids
  <2>6. ReviewsOK'
    BY <2>2, <2>3 DEF ReviewsOK, BelongTo
  <2> QED
    BY <2>4, <2>5, <2>6 DEF PatientInv
<1>4. CASE ReceiveEmail(m) \/ ReceiveAdded(m)
  <2>1. /\ net' = {} /\ UNCHANGED <<search_string, product_list>>
        /\ m.op \in {"email", "add"}
        /\ \/ review_list' = [review_list EXCEPT !.mine = NoText] \/ UNCHANGED review_list
    BY <1>1, <1>4 DEF ReceiveEmail, ReceiveAdded
  <2>2. PairOK' /\ review_list'.of = review_list.of
    BY <2>1 DEF PatientInv, PairOK
  <2>3. BelongTo(review_list.of) /\ Ids(product_list) = Result[search_string]
    BY <1>1, <2>1 DEF PatientInv, SearchOK, ReviewsOK
  <2>4. SearchOK'
    BY <2>1, <2>3 DEF SearchOK, Ids
  <2>5. ReviewsOK'
    BY <2>1, <2>2, <2>3 DEF ReviewsOK, BelongTo
  <2> QED
    BY <2>1, <2>2, <2>4, <2>5 DEF PatientInv, OneRequest
<1> QED
  BY <1>2, <1>3, <1>4 DEF Receive

(* The page of a user who waits, when no request fails.                     *)
THEOREM PageAgrees == Patient /\ MayLose = FALSE /\ Spec => []PatientInv
<1> SUFFICES ASSUME Patient, MayLose = FALSE PROVE Spec => []PatientInv
  OBVIOUS
<1>1. Init => PatientInv
  BY DEF Init, PatientInv, OneRequest, PairOK, SearchOK, ReviewsOK, BelongTo
<1>2. ListOK /\ PatientInv /\ [Next]_vars => PatientInv'
  <2>1. CASE PatientInv /\ UNCHANGED vars
    BY <2>1 DEF vars, page, PatientInv, OneRequest, PairOK, SearchOK, ReviewsOK, BelongTo, Ids
  <2> QED
    BY <2>1, PatientClicks, PatientServed, PatientReceived DEF Next, Lose, Done
<1> QED
  BY <1>1, <1>2, ListKept, PTL DEF Spec

(* Once everything is answered the reviews under an open product are those  *)
(* of this product, whatever was searched, opened and closed in between.    *)
THEOREM ReviewsBelong == Patient /\ MayLose = FALSE /\ Spec => []ShownReviewsBelong
<1>1. PatientInv => ShownReviewsBelong
  BY DEF PatientInv, ReviewsOK, BelongTo, ShownReviewsBelong, Quiet
<1> QED
  BY <1>1, PageAgrees, PTL

(* Once everything is answered the list is that of the search bar: each     *)
(* letter that is typed searches, and the answer finds the bar unchanged.   *)
THEOREM SearchIsShown == Patient /\ MayLose = FALSE /\ Spec => []ListIsSearched
<1>1. PatientInv => ListIsSearched
  BY DEF PatientInv, SearchOK, Ids, ListIsSearched, Quiet
<1> QED
  BY <1>1, PageAgrees, PTL

-----------------------------------------------------------------------------
(* Theorems about Shop, for every catalogue, all prices and quantities and  *)
(* any number of requests.                                                  *)

(* The user waits: one message at a time.  What it is says where the page   *)
(* is, a cart that has been read is still the one stored, and a message has *)
(* the fields of CartRequest.                                               *)
MessageOK(m) ==
  /\ m \in [op : {"buy", "inc", "get", "delete"}, product : {m.product},
            quantity : {m.quantity}, total : {m.total}, served : BOOLEAN,
            list : {m.list}]
  /\ m.op = "buy" => ~shopping_cart
  /\ m.op = "delete" => popup /\ ~m.served /\ m.total = Total(cart)
  /\ m.op = "get" /\ m.served => m.list = cart

OneMessage == \A m, n \in calls : m = n

(* When nothing is on its way, the page of the cart is that of the cart. *)
TotalIsShown ==
  shopping_cart /\ ~popup /\ calls = {} => cart_total = Total(cart)

IsFunction == cart = [p \in DOMAIN cart |-> cart[p]]

ShopInv ==
  /\ OneMessage /\ \A m \in calls : MessageOK(m)
  /\ IsFunction /\ TotalIsShown /\ CartIsShown

-----------------------------------------------------------------------------
(* The invariant holds initially. *)
LEMMA InitIsOK == ShopInit => ShopInv
BY DEF ShopInit, ShopInv, OneMessage, IsFunction, TotalIsShown, CartIsShown, Nothing

(* A request that is sent when nothing is on its way is alone. *)
LEMMA SendOne ==
  ASSUME NEW m, calls = {}, Send(m)
  PROVE  calls' = {m} /\ OneMessage'
BY DEF Send, OneMessage

(* What is sent when nothing is on its way keeps the invariant, when the    *)
(* message is right and the stored cart stays.                              *)
LEMMA SentIsOK ==
  ASSUME ShopInv, NEW m, calls = {}, Send(m), MessageOK(m)', UNCHANGED cart
  PROVE  ShopInv'
<1>1. calls' = {m} /\ OneMessage'
  BY SendOne
<1> QED
  BY <1>1 DEF ShopInv, IsFunction, TotalIsShown, CartIsShown

(* The buttons of the list of products keep the invariant. *)
LEMMA StoreClicks ==
  ASSUME ShopInv, NEW p,
         BuyProduct(p) \/ \E qty \in {1, -1} : IncDesiredQuantity(p, qty)
  PROVE  ShopInv'
<1>1. CASE BuyProduct(p)
  <2>1. PICK m : m = CartRequest("buy", p, desired_quantity[p])
    OBVIOUS
  <2>2. calls = {} /\ Send(m) /\ UNCHANGED cart
    BY <1>1, <2>1 DEF BuyProduct, MayCall
  <2>3. MessageOK(m)'
    BY <1>1, <2>1 DEF BuyProduct, MessageOK, choice, CartRequest
  <2> QED
    BY <2>2, <2>3, SentIsOK
<1>2. CASE \E qty \in {1, -1} : IncDesiredQuantity(p, qty)
  BY <1>2 DEF ShopInv, OneMessage, MessageOK, IsFunction, TotalIsShown, CartIsShown,
              IncDesiredQuantity, shown
<1> QED
  BY <1>1, <1>2

(* Changing a quantity in the cart keeps the invariant. *)
LEMMA CartClicks ==
  ASSUME ShopInv, NEW p, NEW qty, IncCartQuantity(p, qty)
  PROVE  ShopInv'
<1>1. PICK q : /\ calls = {} /\ UNCHANGED <<choice, cart_total, cart>>
               /\ Send(CartRequest("inc", p, q))
  BY DEF IncCartQuantity, MayCall
<1>2. PICK m : m = CartRequest("inc", p, q)
  OBVIOUS
<1>3. MessageOK(m)'
  BY <1>2 DEF MessageOK, CartRequest
<1> QED
  BY <1>1, <1>2, <1>3, SentIsOK

(* Opening the cart, leaving it and paying keep the invariant. *)
LEMMA PageClicks ==
  ASSUME ShopInv, ShowCart \/ ContinueShopping \/ Pay
  PROVE  ShopInv'
<1>1. CASE ShowCart
  <2>1. PICK m : m = GetCart
    OBVIOUS
  <2>2. calls = {} /\ Send(m) /\ UNCHANGED cart
    BY <1>1, <2>1 DEF ShowCart, MayCall
  <2>3. MessageOK(m)'
    BY <2>1 DEF MessageOK, GetCart, CartRequest
  <2> QED
    BY <2>2, <2>3, SentIsOK
<1>2. CASE ContinueShopping
  BY <1>2 DEF ContinueShopping, ShopInv, OneMessage, MessageOK, IsFunction,
              TotalIsShown, CartIsShown, shown
<1>3. CASE Pay
  <2>1. PICK m : m = CartRequest("delete", NoProduct, 0)
    OBVIOUS
  <2>2. calls = {} /\ Send(m) /\ UNCHANGED cart
    BY <1>3, <2>1 DEF Pay, MayCall
  <2>3. cart_total = Total(cart) /\ Total(cart') = Total(cart)
    BY <1>3 DEF Pay, ShopInv, TotalIsShown, MayCall
  <2>4. MessageOK(m)'
    BY <1>3, <2>1, <2>3 DEF Pay, MessageOK, CartRequest
  <2> QED
    BY <2>2, <2>4, SentIsOK
<1> QED
  BY <1>1, <1>2, <1>3

(* The message that is served or received is the only one. *)
LEMMA OnlyOne ==
  ASSUME ShopInv, NEW m \in calls
  PROVE  calls = {m} /\ MessageOK(m)
BY DEF ShopInv, OneMessage

(* When the one message on its way is right, nothing else is claimed.       *)
LEMMA AnswerIsOK ==
  ASSUME NEW n, calls' = {n}, MessageOK(n)', IsFunction'
  PROVE  ShopInv'
<1>1. OneMessage'
  BY DEF OneMessage
<1>2. (\A x \in calls : MessageOK(x))'
  OBVIOUS
<1>3. TotalIsShown' /\ CartIsShown'
  BY DEF TotalIsShown, CartIsShown
<1> QED
  BY <1>1, <1>2, <1>3 DEF ShopInv

(* What the server writes into a request. *)
LEMMA AnswerFields ==
  ASSUME NEW m, MessageOK(m), NEW l
  PROVE  /\ [m EXCEPT !.served = TRUE]
              \in [op : {m.op}, product : {m.product}, quantity : {m.quantity},
                  total : {m.total}, served : {TRUE}, list : {m.list}]
         /\ [m EXCEPT !.served = TRUE, !.list = l]
              \in [op : {m.op}, product : {m.product}, quantity : {m.quantity},
                  total : {m.total}, served : {TRUE}, list : {l}]
BY DEF MessageOK

(* A request the server serves keeps the invariant. *)
LEMMA Served ==
  ASSUME ShopInv, NEW m \in calls, ServeCart(m)
  PROVE  ShopInv'
<1> USE OnlyOne
<1>1. CASE m.op \in {"buy", "inc"}
  <2>1. PICK n : n = [m EXCEPT !.served = TRUE]
    OBVIOUS
  <2>2. calls' = {n} /\ cart' = Stored(m) /\ UNCHANGED <<choice, shown>>
    BY <1>1, <2>1 DEF ServeCart
  <2>3. n \in [op : {m.op}, product : {m.product}, quantity : {m.quantity},
               total : {m.total}, served : {TRUE}, list : {m.list}]
    BY <2>1, AnswerFields
  <2>4. MessageOK(n)'
    BY <1>1, <2>2, <2>3 DEF MessageOK, choice
  <2>5. IsFunction'
    BY <2>2 DEF IsFunction, Stored
  <2> QED
    BY <2>2, <2>4, <2>5, AnswerIsOK
<1>2. CASE m.op = "get"
  <2>1. PICK n : n = [m EXCEPT !.served = TRUE, !.list = cart]
    OBVIOUS
  <2>2. calls' = {n} /\ UNCHANGED <<choice, shown, cart>>
    BY <1>2, <2>1 DEF ServeCart
  <2>3. n \in [op : {m.op}, product : {m.product}, quantity : {m.quantity},
               total : {m.total}, served : {TRUE}, list : {cart}]
    BY <2>1, AnswerFields
  <2>4. MessageOK(n)'
    BY <1>2, <2>2, <2>3 DEF MessageOK
  <2>5. IsFunction'
    BY <2>2 DEF ShopInv, IsFunction
  <2> QED
    BY <2>2, <2>4, <2>5, AnswerIsOK
<1>3. CASE m.op = "delete"
  <2>1. calls' = {} /\ cart' = Nothing /\ popup' = popup /\ popup
    BY <1>3 DEF ServeCart, MessageOK, choice
  <2> QED
    BY <2>1 DEF ShopInv, OneMessage, IsFunction, TotalIsShown, CartIsShown, Nothing
<1> QED
  BY <1>1, <1>2, <1>3 DEF ServeCart

(* An answer the page receives keeps the invariant. *)
LEMMA Received ==
  ASSUME ShopInv, NEW m \in calls, ReceiveCart(m)
  PROVE  ShopInv'
<1> USE OnlyOne
<1>1. CASE m.op = "buy"
  <2>1. calls' = {} /\ ~shopping_cart' /\ UNCHANGED cart
    BY <1>1 DEF ReceiveCart, MessageOK
  <2> QED
    BY <2>1 DEF ShopInv, OneMessage, IsFunction, TotalIsShown, CartIsShown
<1>2. CASE m.op = "inc"
  <2>1. PICK n : n = GetCart
    OBVIOUS
  <2>2. calls' = {n} /\ UNCHANGED cart
    BY <1>2, <2>1 DEF ReceiveCart
  <2>3. MessageOK(n)'
    BY <2>1 DEF MessageOK, GetCart, CartRequest
  <2> QED
    BY <2>2, <2>3 DEF ShopInv, OneMessage, IsFunction, TotalIsShown, CartIsShown
<1>3. CASE m.op = "get"
  <2>1. calls' = {} /\ CartProcessed(m.list) /\ m.list = cart /\ UNCHANGED cart
    BY <1>3 DEF ReceiveCart, MessageOK
  <2>2. cart_total' = Total(cart) /\ Total(cart') = Total(cart)
    BY <2>1 DEF CartProcessed
  <2>3. cart_list' = [p \in DOMAIN cart |-> [quantity |-> cart[p], cart_quantity |-> cart[p]]]
    BY <2>1 DEF CartProcessed
  <2>4. [p \in DOMAIN cart_list' |-> cart_list'[p].cart_quantity] = cart
    <3>1. [p \in DOMAIN cart_list' |-> cart_list'[p].cart_quantity]
            = [p \in DOMAIN cart |-> cart[p]]
      BY <2>3
    <3> QED
      BY <3>1 DEF ShopInv, IsFunction
  <2>5. CartIsShown' /\ TotalIsShown'
    BY <2>1, <2>2, <2>4 DEF CartIsShown, TotalIsShown
  <2> QED
    BY <2>1, <2>5 DEF ShopInv, OneMessage, IsFunction
<1> QED
  BY <1>1, <1>2, <1>3 DEF ReceiveCart

(* Every step keeps the invariant. *)
LEMMA ShopSteps == ShopInv /\ [ShopNext]_shopVars => ShopInv'
<1> SUFFICES ASSUME ShopInv, [ShopNext]_shopVars PROVE ShopInv'
  OBVIOUS
<1>1. CASE UNCHANGED shopVars
  <2>1. UNCHANGED <<shopping_cart, popup, cart_list, cart_total, calls, cart>>
    BY <1>1 DEF shopVars, choice, shown
  <2>2. Total(cart') = Total(cart)
    BY <2>1
  <2> QED
    BY <2>1, <2>2 DEF ShopInv, OneMessage, MessageOK, IsFunction, TotalIsShown, CartIsShown
<1>2. CASE \E p \in Product :
             BuyProduct(p) \/ \E qty \in {1, -1} : IncDesiredQuantity(p, qty)
  BY <1>2, StoreClicks
<1>3. CASE \E p \in DOMAIN cart_list, qty \in {1, -1} : IncCartQuantity(p, qty)
  BY <1>3, CartClicks
<1>4. CASE ShowCart \/ ContinueShopping \/ Pay
  BY <1>4, PageClicks
<1>5. CASE \E m \in calls : ServeCart(m) \/ ReceiveCart(m)
  BY <1>5, Served, Received
<1> QED
  BY <1>1, <1>2, <1>3, <1>4, <1>5 DEF ShopNext, ShopDone

-----------------------------------------------------------------------------
(* The inductive invariant of a user who waits: the one message on its way, *)
(* the page and the stored cart agree.                                      *)
THEOREM MessageAgrees == ShopSpec => []ShopInv
<1> QED
  BY InitIsOK, ShopSteps, PTL DEF ShopSpec

(* pay empties just the cart whose total the page has shown.                *)
THEOREM PaymentIsShown == ShopSpec => []PaidIsShown
<1>1. ShopInv => PaidIsShown
  BY DEF ShopInv, MessageOK, PaidIsShown
<1> QED
  BY <1>1, MessageAgrees, PTL

(* The page of the cart, once everything is answered, is that of the cart   *)
(* the server has stored.                                                   *)
THEOREM CartStaysShown == ShopSpec => []CartIsShown
<1>1. ShopInv => CartIsShown
  BY DEF ShopInv
<1> QED
  BY <1>1, MessageAgrees, PTL

-----------------------------------------------------------------------------
(* Proofs about Store51: lists are averaged over enough stars, and users    *)
(* who wait keep one row per table, in which their amounts add up.          *)

Labels == {"idle", "amount", "count", "lookup", "write", "insert", "clear", "select",
           "divide", "commit", "answer"}
Ops == {"none", "inc", "review", "stars", "clear", "list"}
Calls == [op : Ops, user : User \cup {NoUser}, value : Nat, old : Nat, row : Nat,
          todo : SUBSET Row, sum : Nat, length : Nat]

(* The table of a call. *)
TableOf(c) == IF c.op \in {"inc", "clear"} THEN "cart"
              ELSE IF c.op = "review" THEN "review" ELSE "star"

(* Ids are given out once per database, and the stars go with the product. *)
TablesOK(d) ==
  /\ d \in Tables
  /\ \A t \in TableName : \A r \in d[t] :
       r.id < d.next /\ \A s \in d[t] : r.id = s.id => r = s
  /\ IsFiniteSet(d.star)
  /\ \A r \in d.star : r.value <= MaxValue
  /\ ~d.product => d.star = {}

(* What a handler that is at label l has in its call c, ... *)
CallOK(l, c) ==
  /\ l = "idle" => c = NoCall
  /\ l # "idle" => c.user \in User
  /\ l = "amount" => c.op = "inc"
  /\ l \in {"count", "insert"} => c.op \in {"inc", "review"}
  /\ l \in {"lookup", "write"} => c.op \in {"inc", "review", "stars"}
  /\ l = "clear" => c.op = "clear"
  /\ l \in {"select", "divide"} => c.op = "list"
  /\ c.op = "stars" => c.old = 0 /\ c.value <= MaxValue
  /\ l = "select" => c.sum = 0 /\ c.length = 0

(* ...which row of the committed tables d it has found, ... *)
FoundOK(d, l, c) ==
  l = "write" /\ c.row # NoRow =>
    /\ c.row < d.next
    /\ \A r \in d[TableOf(c)] : r.id = c.row => r.user = c.user

(* ...and what it has summed: n stars, and there are others to come. *)
SumOK(d, l, c) ==
  /\ c.length > 0 => c.sum <= c.length * MaxValue
  /\ l = "divide" => /\ c.todo # {} /\ IsFiniteSet(c.todo)
                     /\ \A r \in c.todo : r.value <= MaxValue
  /\ l = "divide" /\ d.product =>
       \E n \in Nat : /\ c.sum <= n * MaxValue
                      /\ n + Cardinality(c.todo) <= Cardinality(d.star)

(* What a call that writes for user u into table t makes of d. *)
Change(d, k, t, u) ==
  /\ k.product = d.product /\ d.next <= k.next
  /\ \A o \in TableName : o # t => k[o] = d[o]
  /\ \A v \in User : v # u => OfUser(k[t], v) = OfUser(d[t], v)
  /\ \A r \in k[t] : r.id < d.next => \E s \in d[t] : s.id = r.id /\ s.user = r.user
  /\ Cardinality(d.star) <= Cardinality(k.star)

StoreInv ==
  /\ pc \in [Worker -> Labels] /\ req \in [Worker -> Calls]
  /\ writer \in Worker \cup {NoWorker}
  /\ TablesOK(db)
  /\ \A w \in Worker : /\ CallOK(pc[w], req[w])
                       /\ FoundOK(db, pc[w], req[w])
                       /\ SumOK(db, pc[w], req[w])
  /\ writer = NoWorker => work = db
  /\ writer \in Worker => /\ pc[writer] = "commit"
                          /\ TablesOK(work)
                          /\ Change(db, work, TableOf(req[writer]), req[writer].user)

-----------------------------------------------------------------------------
(* Of users who wait: what a handler at label l knows of its user's rows in *)
(* d, which nobody else writes.                                             *)
OwnOf(d, c) == OfUser(d[TableOf(c)], c.user)
PatientOK(d, l, c) ==
  /\ l = "insert" => OwnOf(d, c) = {}
  /\ l = "write" /\ c.row = NoRow /\ c.op = "stars" => OwnOf(d, c) = {}
  /\ d.product /\ c.op \in {"inc", "review"} =>
       /\ l = "lookup" => OwnOf(d, c) # {}
       /\ l = "write" => \E r \in OwnOf(d, c) : r.id = c.row
  /\ d.product /\ c.op = "inc" /\ l \in {"count", "lookup", "write"} =>
       Holds(OwnOf(d, c), c.old)

Grown(d, k, c) ==
  c.op = "inc" /\ d.product =>
    \E r \in k.cart : /\ OfUser(k.cart, c.user) = {r}
                      /\ Holds(OfUser(d.cart, c.user), r.value - c.value)

WaitInv ==
  /\ \A v, w \in Worker :
       InProgress(v) /\ InProgress(w) /\ req[v].user = req[w].user => v = w
  /\ Owned(db)
  /\ \A w \in Worker : /\ PatientOK(db, pc[w], req[w])
                       /\ pc[w] = "commit" /\ req[w].op = "inc" => writer = w
  /\ writer \in Worker => Owned(work) /\ Grown(db, work, req[writer])

-----------------------------------------------------------------------------
(* The tables after a statement: a row that is added to table t, the rows   *)
(* with id i of table t that get value n, and the rows that are deleted.    *)
NewRow(d, u, n) == [id |-> d.next, user |-> u, value |-> n]
Insertion(d, t, u, n) ==
  [d EXCEPT ![t] = @ \cup {NewRow(d, u, n)}, !.next = @ + 1]
Amended(rows, i, n) == {IF r.id = i THEN [r EXCEPT !.value = n] ELSE r : r \in rows}

LEMMA TableRows ==
  ASSUME NEW d \in Tables, NEW t \in TableName
  PROVE  d[t] \subseteq Row /\ d.next \in Nat \ {NoRow} /\ d.product \in BOOLEAN
BY DEF Tables, TableName

LEMMA AmendedRows ==
  ASSUME NEW rows \in SUBSET Row, NEW i \in Nat, NEW n \in Nat
  PROVE  /\ Amended(rows, i, n) \in SUBSET Row
         /\ \A r \in Amended(rows, i, n) : \E s \in rows :
              r.id = s.id /\ r.user = s.user /\ (IF r.id = i THEN r.value = n ELSE r = s)
         /\ \A s \in rows : \E r \in Amended(rows, i, n) :
              r.id = s.id /\ r.user = s.user /\ (IF r.id = i THEN r.value = n ELSE r = s)
<1>1. ASSUME NEW s \in rows
      PROVE  LET r == IF s.id = i THEN [s EXCEPT !.value = n] ELSE s
             IN r \in Row /\ r.id = s.id /\ r.user = s.user
                /\ (IF r.id = i THEN r.value = n ELSE r = s)
  BY DEF Row
<1> QED BY <1>1 DEF Amended

LEMMA RowsAreEqual ==
  ASSUME NEW r \in Row, NEW s \in Row, r.id = s.id, r.user = s.user, r.value = s.value
  PROVE  r = s
BY DEF Row

(* As many rows have new values as there were rows. *)
LEMMA AmendedAsMany ==
  ASSUME NEW rows \in SUBSET Row, NEW i \in Nat, NEW n \in Nat, IsFiniteSet(rows),
         \A r, s \in rows : r.id = s.id => r = s
  PROVE  IsFiniteSet(Amended(rows, i, n)) /\ Cardinality(rows) <= Cardinality(Amended(rows, i, n))
<1> DEFINE new == Amended(rows, i, n)
           f == [r \in rows |-> IF r.id = i THEN [r EXCEPT !.value = n] ELSE r]
           g == [r \in new |-> CHOOSE s \in rows : s.id = r.id]
<1>1. f \in Surjection(rows, new)
  BY DEF Surjection, Amended
<1>2. IsFiniteSet(new)
  <2> HIDE DEF f, new
  <2> QED BY <1>1, FS_Surjection
<1>3. g \in Surjection(new, rows)
  <2>1. \A r \in new : \E s \in rows : s.id = r.id
    BY AmendedRows
  <2>2. \A s \in rows : \E r \in new : r.id = s.id
    BY AmendedRows
  <2> HIDE DEF new
  <2>3. \A r \in new : g[r] \in rows /\ g[r].id = r.id
    BY <2>1
  <2>4. \A s \in rows : \E r \in new : g[r] = s
    BY <2>2, <2>3
  <2> QED BY <2>3, <2>4 DEF Surjection
<1> HIDE DEF g, new
<1>4. Cardinality(rows) <= Cardinality(new)
  BY <1>2, <1>3, FS_Surjection
<1> QED BY <1>2, <1>4 DEF new

(* Each of the three statements leaves tables in order, and changes rows of *)
(* its user only.                                                           *)
LEMMA InsertionChanges ==
  ASSUME NEW d, TablesOK(d), NEW t \in TableName, NEW u \in User, NEW owner \in {u, NoUser},
         NEW n \in Nat, t = "star" => d.product /\ n <= MaxValue,
         NEW k, k = Insertion(d, t, owner, n)
  PROVE  TablesOK(k) /\ Change(d, k, t, u)
<1> DEFINE new == NewRow(d, owner, n)
<1>1. d \in Tables /\ d[t] \subseteq Row /\ d.next \in Nat \ {NoRow}
  BY TableRows DEF TablesOK
<1>2. /\ k \in Tables /\ k[t] = d[t] \cup {new}
      /\ \A p \in TableName : p # t => k[p] = d[p]
      /\ k.product = d.product /\ k.next = d.next + 1
      /\ t = "star" => k.star = d.star \cup {new}
      /\ t # "star" => k.star = d.star
  <2> DEFINE rows == d[t] \cup {new}
             m == [d EXCEPT ![t] = rows]
  <2>1. rows \in SUBSET Row
    BY <1>1 DEF NewRow, Row
  <2>2. k = [m EXCEPT !.next = d.next + 1]
    BY <1>1 DEF Insertion, Tables, TableName
  <2> HIDE DEF new, rows
  <2>3. /\ m \in Tables /\ m[t] = rows /\ m.product = d.product /\ m.next = d.next
        /\ \A p \in TableName : p # t => m[p] = d[p]
        /\ t = "star" => m.star = rows
        /\ t # "star" => m.star = d.star
    BY <1>1, <2>1 DEF Tables, TableName
  <2>4. d.next + 1 \in Nat \ {NoRow}
    BY <1>1 DEF NoRow
  <2> HIDE DEF m
  <2>5. k \in Tables /\ k.next = d.next + 1 /\ k.product = m.product /\ k.star = m.star
    BY <2>2, <2>3, <2>4 DEF Tables
  <2>6. \A p \in TableName : k[p] = m[p]
    BY <2>2, <2>3 DEF Tables, TableName
  <2>7. k[t] = rows
    BY <2>3, <2>6
  <2> QED BY <2>3, <2>5, <2>6, <2>7 DEF rows
<1>3. new \in Row /\ new.id = d.next /\ new.user = owner /\ new.value = n
  BY <1>1 DEF NewRow, Row
<1> HIDE DEF new
<1>4. \A p \in TableName : \A r \in d[p] : r.id \in Nat /\ r.id < d.next
  BY <1>1 DEF TablesOK, TableName, Tables, Row
<1>5. \A p \in TableName : \A r \in k[p] :
        r.id < k.next /\ \A s \in k[p] : r.id = s.id => r = s
  <2>1. \A r \in d[t], s \in d[t] : r.id = s.id => r = s
    BY DEF TablesOK
  <2>2. \A r \in k[t] : r.id < k.next /\ \A s \in k[t] : r.id = s.id => r = s
    BY <1>1, <1>2, <1>3, <1>4, <2>1
  <2>3. \A p \in TableName : p # t =>
          \A r \in k[p] : r.id < k.next /\ \A s \in k[p] : r.id = s.id => r = s
    BY <1>1, <1>2, <1>4 DEF TablesOK
  <2> QED BY <2>2, <2>3
<1>6. IsFiniteSet(d.star) /\ Cardinality(d.star) \in Nat
  BY FS_CardinalityType DEF TablesOK
<1>7. IsFiniteSet(d.star \cup {new}) /\ Cardinality(d.star) <= Cardinality(d.star \cup {new})
  <2>1. /\ IsFiniteSet(d.star \cup {new})
        /\ Cardinality(d.star \cup {new}) = IF new \in d.star THEN Cardinality(d.star)
                                            ELSE Cardinality(d.star) + 1
    BY <1>6, FS_AddElement, Zenon
  <2> QED BY <1>6, <2>1
<1>8. IsFiniteSet(k.star) /\ Cardinality(d.star) <= Cardinality(k.star)
  <2>1. CASE t = "star"
    BY <1>2, <1>7, <2>1
  <2>2. CASE t # "star"
    BY <1>2, <1>6, <2>2
  <2> QED BY <2>1, <2>2
<1>9. \A r \in k.star : r.value <= MaxValue
  BY <1>2, <1>3 DEF TablesOK
<1>10. ~k.product => k.star = {}
  BY <1>2 DEF TablesOK
<1>11. TablesOK(k)
  BY <1>2, <1>5, <1>8, <1>9, <1>10 DEF TablesOK
<1>12. \A v \in User : v # u => OfUser(k[t], v) = OfUser(d[t], v)
  BY <1>2, <1>3, UserAssumption DEF OfUser
<1>13. \A r \in k[t] : r.id < d.next => \E s \in d[t] : s.id = r.id /\ s.user = r.user
  BY <1>1, <1>2, <1>3
<1>14. k.product = d.product /\ d.next <= k.next
  BY <1>1, <1>2
<1>15. Change(d, k, t, u)
  BY <1>2, <1>8, <1>12, <1>13, <1>14 DEF Change
<1> QED BY <1>11, <1>15

LEMMA AmendingChanges ==
  ASSUME NEW d, TablesOK(d), NEW t \in TableName, NEW u \in User, NEW i \in Nat,
         NEW n \in Nat, t = "star" => n <= MaxValue,
         \A r \in d[t] : r.id = i => r.user = u,
         NEW k, k = [d EXCEPT ![t] = Amended(d[t], i, n)]
  PROVE  TablesOK(k) /\ Change(d, k, t, u)
<1> DEFINE rows == Amended(d[t], i, n)
<1>1. d \in Tables /\ d[t] \subseteq Row /\ d.next \in Nat \ {NoRow}
  BY TableRows DEF TablesOK
<1>2. /\ rows \in SUBSET Row
      /\ \A r \in rows : \E s \in d[t] :
           r.id = s.id /\ r.user = s.user /\ (IF r.id = i THEN r.value = n ELSE r = s)
      /\ \A s \in d[t] : \E r \in rows :
           r.id = s.id /\ r.user = s.user /\ (IF r.id = i THEN r.value = n ELSE r = s)
  BY <1>1, AmendedRows
<1>3. t = "star" => IsFiniteSet(rows) /\ Cardinality(d.star) <= Cardinality(rows)
  <2>1. t = "star" => d[t] = d.star /\ IsFiniteSet(d[t])
    BY DEF TablesOK
  <2>2. \A r, s \in d[t] : r.id = s.id => r = s
    BY DEF TablesOK
  <2> QED BY <1>1, <2>1, <2>2, AmendedAsMany
<1>4. k = [d EXCEPT ![t] = rows]
  OBVIOUS
<1> HIDE DEF rows
<1>5. /\ k \in Tables /\ k[t] = rows
      /\ \A o \in TableName : o # t => k[o] = d[o]
      /\ k.product = d.product /\ k.next = d.next
      /\ t = "star" => k.star = rows
      /\ t # "star" => k.star = d.star
  <2>1. k \in Tables /\ k[t] = rows /\ k.product = d.product /\ k.next = d.next
        /\ (t = "star" => k.star = rows) /\ (t # "star" => k.star = d.star)
    BY <1>1, <1>2, <1>4 DEF Tables, TableName
  <2>2. \A p \in TableName : p # t => k[p] = d[p]
    BY <1>1, <1>2, <1>4 DEF Tables, TableName
  <2> QED BY <2>1, <2>2
<1>6. \A r \in rows, s \in rows : r.id = s.id => r = s
  <2> SUFFICES ASSUME NEW r \in rows, NEW s \in rows, r.id = s.id
               PROVE  r = s
    OBVIOUS
  <2>1. PICK x \in d[t] : r.id = x.id /\ r.user = x.user /\ (IF r.id = i THEN r.value = n ELSE r = x)
    BY <1>2
  <2>2. PICK y \in d[t] : s.id = y.id /\ s.user = y.user /\ (IF s.id = i THEN s.value = n ELSE s = y)
    BY <1>2
  <2>3. x = y
    BY <2>1, <2>2 DEF TablesOK
  <2> QED BY <1>2, <2>1, <2>2, <2>3, RowsAreEqual
<1>7. \A p \in TableName : \A r \in k[p] :
        r.id < k.next /\ \A s \in k[p] : r.id = s.id => r = s
  <2>1. \A r \in rows : r.id < d.next
    BY <1>2 DEF TablesOK
  <2> QED BY <1>5, <1>6, <2>1 DEF TablesOK
<1>8. IsFiniteSet(d.star) /\ Cardinality(d.star) \in Nat
  BY FS_CardinalityType DEF TablesOK
<1>9. IsFiniteSet(k.star) /\ Cardinality(d.star) <= Cardinality(k.star)
  BY <1>3, <1>5, <1>8
<1>10. \A r \in k.star : r.value <= MaxValue
  BY <1>2, <1>5 DEF TablesOK
<1>11. ~k.product => k.star = {}
  BY <1>2, <1>5 DEF TablesOK
<1>12. TablesOK(k)
  BY <1>5, <1>7, <1>9, <1>10, <1>11 DEF TablesOK
<1>13. \A v \in User : v # u => OfUser(rows, v) = OfUser(d[t], v)
  <2> SUFFICES ASSUME NEW v \in User, v # u
               PROVE  OfUser(rows, v) = OfUser(d[t], v)
    OBVIOUS
  <2>1. \A r \in rows : r.user = v => r \in d[t]
    BY <1>2
  <2>2. \A r \in d[t] : r.user = v => r \in rows
    BY <1>2
  <2> QED BY <2>1, <2>2 DEF OfUser
<1> QED BY <1>1, <1>2, <1>5, <1>9, <1>12, <1>13 DEF Change

LEMMA DeletingChanges ==
  ASSUME NEW d, TablesOK(d), NEW u \in User,
         NEW k, k = [d EXCEPT !.cart = @ \ OfUser(d.cart, u)]
  PROVE  TablesOK(k) /\ Change(d, k, "cart", u)
<1>1. d \in Tables /\ d.cart \subseteq Row /\ d.next \in Nat \ {NoRow} /\ "cart" \in TableName
  BY DEF TablesOK, Tables, TableName
<1>2. k \in Tables /\ k.cart = d.cart \ OfUser(d.cart, u) /\ k.star = d.star
      /\ k.review = d.review /\ k.product = d.product /\ k.next = d.next
  BY <1>1 DEF Tables
<1>3. k["cart"] = k.cart /\ d["cart"] = d.cart /\ k["cart"] \subseteq d["cart"]
  BY <1>2
<1>4. \A o \in TableName : o # "cart" => k[o] = d[o]
  BY <1>2 DEF TableName
<1>5. TablesOK(k)
  BY <1>2, <1>3, <1>4 DEF TablesOK
<1>6. \A v \in User : v # u => OfUser(k["cart"], v) = OfUser(d["cart"], v)
  BY <1>2, <1>3 DEF OfUser
<1>7. Cardinality(d.star) \in Nat
  BY FS_CardinalityType DEF TablesOK
<1>8. k.product = d.product /\ d.next <= k.next
  BY <1>1, <1>2
<1>9. Cardinality(d.star) <= Cardinality(k.star)
  BY <1>2, <1>7
<1>10. \A r \in k["cart"] : r.id < d.next => \E s \in d["cart"] : s.id = r.id /\ s.user = r.user
  BY <1>3
<1>11. Change(d, k, "cart", u)
  BY <1>4, <1>6, <1>8, <1>9, <1>10 DEF Change
<1> QED BY <1>5, <1>11

(* The deletion of the product. *)
Cascade(d) == [d EXCEPT !.product = FALSE, !.star = {}, !.cart = OfUser(@, NoUser),
                        !.review = OfUser(@, NoUser)]

LEMMA CascadeKeeps ==
  ASSUME NEW d, TablesOK(d), NEW k, k = Cascade(d)
  PROVE  /\ TablesOK(k) /\ ~k.product /\ k.next = d.next
         /\ \A t \in TableName : \A r \in k[t] : r \in d[t] /\ r.user = NoUser
<1>1. d \in Tables
  BY DEF TablesOK
<1>2. k \in Tables /\ k.cart = OfUser(d.cart, NoUser) /\ k.star = {}
      /\ k.review = OfUser(d.review, NoUser) /\ k.product = FALSE /\ k.next = d.next
  BY <1>1 DEF Tables, OfUser, Cascade
<1>3. \A t \in TableName : \A r \in k[t] : r \in d[t] /\ r.user = NoUser
  BY <1>2 DEF TableName, OfUser
<1> QED BY <1>2, <1>3, FS_EmptySet DEF TablesOK

-----------------------------------------------------------------------------
(* What a handler has found and summed stays true when others write... *)
LEMMA TableOfType == \A c : TableOf(c) \in TableName
BY DEF TableOf, TableName

LEMMA ChangeKeeps ==
  ASSUME NEW d, NEW k, NEW t, NEW u, TablesOK(d), TablesOK(k), Change(d, k, t, u),
         NEW l, NEW c \in Calls, FoundOK(d, l, c), SumOK(d, l, c)
  PROVE  FoundOK(k, l, c) /\ SumOK(k, l, c)
<1>1. d.next \in Nat /\ k.next \in Nat /\ c.row \in Nat
  BY DEF TablesOK, Tables, Calls
<1>2. FoundOK(k, l, c)
  <2> SUFFICES ASSUME l = "write", c.row # NoRow
               PROVE  /\ c.row < k.next
                      /\ \A r \in k[TableOf(c)] : r.id = c.row => r.user = c.user
    BY DEF FoundOK
  <2>1. c.row < d.next /\ \A r \in d[TableOf(c)] : r.id = c.row => r.user = c.user
    BY DEF FoundOK
  <2>2. c.row < k.next
    BY <1>1, <2>1 DEF Change
  <2>3. CASE TableOf(c) = t
    BY <2>1, <2>2, <2>3 DEF Change
  <2>4. CASE TableOf(c) # t
    <3>1. k[TableOf(c)] = d[TableOf(c)]
      BY <2>4, TableOfType DEF Change
    <3> QED BY <2>1, <2>2, <3>1
  <2> QED BY <2>3, <2>4
<1>3. Cardinality(d.star) \in Nat /\ Cardinality(k.star) \in Nat
  BY FS_CardinalityType DEF TablesOK
<1>4. SumOK(k, l, c)
  <2>1. ASSUME l = "divide", k.product
        PROVE  \E n \in Nat : /\ c.sum <= n * MaxValue
                              /\ n + Cardinality(c.todo) <= Cardinality(k.star)
    <3>1. d.product /\ Cardinality(d.star) <= Cardinality(k.star)
      BY <2>1 DEF Change
    <3>2. IsFiniteSet(c.todo)
      BY <2>1 DEF SumOK
    <3>3. PICK n \in Nat : /\ c.sum <= n * MaxValue
                           /\ n + Cardinality(c.todo) <= Cardinality(d.star)
      BY <2>1, <3>1 DEF SumOK
    <3>4. Cardinality(c.todo) \in Nat
      BY <3>2, FS_CardinalityType
    <3>5. n + Cardinality(c.todo) <= Cardinality(k.star)
      BY <1>3, <3>1, <3>3, <3>4
    <3> QED BY <3>3, <3>5
  <2> QED BY <2>1 DEF SumOK
<1> QED BY <1>2, <1>4

(* ...and when the product is deleted. *)
LEMMA CascadeKeepsFound ==
  ASSUME NEW d, NEW k, ~k.product, k.next = d.next,
         \A t \in TableName : \A r \in k[t] : r \in d[t],
         NEW l, NEW c, FoundOK(d, l, c), SumOK(d, l, c)
  PROVE  FoundOK(k, l, c) /\ SumOK(k, l, c)
<1>1. FoundOK(k, l, c)
  BY TableOfType DEF FoundOK
<1>2. SumOK(k, l, c)
  BY DEF SumOK
<1> QED BY <1>1, <1>2

LEMMA NoCallType ==
  /\ NoCall \in Calls
  /\ NoCall.op = "none" /\ NoCall.user = NoUser /\ NoCall.value = 0 /\ NoCall.old = 0
  /\ NoCall.row = NoRow /\ NoCall.todo = {} /\ NoCall.sum = 0 /\ NoCall.length = 0
BY DEF NoCall, Calls, Ops, NoRow

LEMMA IdleOK ==
  ASSUME NEW d
  PROVE  CallOK("idle", NoCall) /\ FoundOK(d, "idle", NoCall) /\ SumOK(d, "idle", NoCall)
BY NoCallType DEF CallOK, FoundOK, SumOK

-----------------------------------------------------------------------------
(* A step of worker w that leaves the tables alone. *)
LEMMA QuietStep ==
  ASSUME StoreInv, NEW w \in Worker, writer # w, NEW l \in Labels, NEW c \in Calls,
         CallOK(l, c), FoundOK(db, l, c), SumOK(db, l, c),
         pc' = [pc EXCEPT ![w] = l], req' = [req EXCEPT ![w] = c], UNCHANGED tableVars
  PROVE  StoreInv'
<1>1. pc' \in [Worker -> Labels] /\ req' \in [Worker -> Calls]
  BY DEF StoreInv
<1>2. pc'[w] = l /\ req'[w] = c
      /\ \A v \in Worker : v # w => pc'[v] = pc[v] /\ req'[v] = req[v]
  BY DEF StoreInv
<1>3. \A v \in Worker : /\ CallOK(pc'[v], req'[v])
                        /\ FoundOK(db', pc'[v], req'[v])
                        /\ SumOK(db', pc'[v], req'[v])
  BY <1>2 DEF StoreInv, tableVars
<1>4. writer \in Worker => pc'[writer] = pc[writer] /\ req'[writer] = req[writer]
  BY <1>2
<1> QED BY <1>1, <1>3, <1>4 DEF StoreInv, tableVars

(* The holder of the lock is about to commit. *)
LEMMA NotHolder ==
  ASSUME StoreInv, NEW w \in Worker, pc[w] # "commit"
  PROVE  writer # w /\ Seen(w) = db /\ (writer \in {NoWorker, w} => writer = NoWorker)
BY DEF StoreInv, Seen

(* A statement of worker w that makes k of the tables. *)
LEMMA WriteStep ==
  ASSUME StoreInv, NEW w \in Worker, pc[w] \in {"write", "insert", "clear"},
         NEW k, TablesOK(k), Change(db, k, TableOf(req[w]), req[w].user),
         Write(w, k, "commit"), UNCHANGED req
  PROVE  StoreInv'
<1>1. writer = NoWorker /\ writer' = w /\ work' = k /\ db' = db /\ req' = req
      /\ pc' = [pc EXCEPT ![w] = "commit"]
  BY NotHolder DEF Write, Goto
<1>2. pc'[w] = "commit" /\ \A v \in Worker : v # w => pc'[v] = pc[v]
  BY <1>1 DEF StoreInv
<1>3. CallOK("commit", req[w]) /\ FoundOK(db, "commit", req[w]) /\ SumOK(db, "commit", req[w])
  <2>1. CallOK(pc[w], req[w]) /\ SumOK(db, pc[w], req[w])
    BY DEF StoreInv
  <2> QED BY <2>1 DEF CallOK, FoundOK, SumOK
<1>4. pc' \in [Worker -> Labels]
  BY <1>1 DEF StoreInv, Labels
<1>5. \A v \in Worker : /\ CallOK(pc'[v], req'[v])
                        /\ FoundOK(db', pc'[v], req'[v])
                        /\ SumOK(db', pc'[v], req'[v])
  BY <1>1, <1>2, <1>3 DEF StoreInv
<1>6. TablesOK(work') /\ Change(db', work', TableOf(req'[writer']), req'[writer'].user)
  BY <1>1
<1>7. writer' # NoWorker
  BY <1>1, WorkerAssumption
<1> QED BY <1>1, <1>2, <1>4, <1>5, <1>6, <1>7 DEF StoreInv

LEMMA CommitStep ==
  ASSUME StoreInv, NEW w \in Worker, Commit(w), UNCHANGED req
  PROVE  StoreInv'
<1>1. pc[w] = "commit" /\ pc' = [pc EXCEPT ![w] = "answer"] /\ req' = req /\ work' = work
      /\ db' = Seen(w) /\ writer' = IF writer = w THEN NoWorker ELSE writer
  BY DEF Commit
<1>2. CallOK("answer", req[w]) /\ FoundOK(db, "answer", req[w]) /\ SumOK(db, "answer", req[w])
  <2>1. CallOK(pc[w], req[w]) /\ SumOK(db, pc[w], req[w])
    BY DEF StoreInv
  <2> QED BY <1>1, <2>1 DEF CallOK, FoundOK, SumOK
<1>3. CASE writer # w
  <2>1. UNCHANGED tableVars
    BY <1>1, <1>3 DEF Seen, tableVars
  <2>2. req' = [req EXCEPT ![w] = req[w]] /\ req[w] \in Calls
    BY <1>1 DEF StoreInv
  <2>3. "answer" \in Labels
    BY DEF Labels
  <2> QED BY <1>1, <1>2, <1>3, <2>1, <2>2, <2>3, QuietStep
<1>4. CASE writer = w
  <2>1. db' = work /\ writer' = NoWorker /\ TablesOK(work)
        /\ Change(db, work, TableOf(req[w]), req[w].user)
    BY <1>1, <1>4 DEF Seen, StoreInv
  <2>2. pc' \in [Worker -> Labels] /\ req' \in [Worker -> Calls]
    BY <1>1 DEF StoreInv, Labels
  <2>3. ASSUME NEW v \in Worker
        PROVE  CallOK(pc'[v], req'[v]) /\ FoundOK(db', pc'[v], req'[v]) /\ SumOK(db', pc'[v], req'[v])
    <3>1. CallOK(pc'[v], req[v]) /\ FoundOK(db, pc'[v], req[v]) /\ SumOK(db, pc'[v], req[v])
      BY <1>1, <1>2 DEF StoreInv
    <3>2. TablesOK(db) /\ req[v] \in Calls
      BY DEF StoreInv
    <3>3. FoundOK(work, pc'[v], req[v]) /\ SumOK(work, pc'[v], req[v])
      BY <2>1, <3>1, <3>2, ChangeKeeps
    <3> QED BY <1>1, <2>1, <3>1, <3>3
  <2> QED BY <1>1, <2>1, <2>2, <2>3, WorkerAssumption DEF StoreInv
<1> QED BY <1>3, <1>4

(* A new call, and that it starts in order. *)
NewCall(op, u, n) == [NoCall EXCEPT !.op = op, !.user = u, !.value = n]

LEMMA NewCallType ==
  ASSUME NEW op \in Ops, NEW u \in User, NEW n \in Nat, NEW c, c = NewCall(op, u, n)
  PROVE  /\ c \in Calls /\ c.op = op /\ c.user = u /\ c.value = n
         /\ c.old = 0 /\ c.row = NoRow /\ c.todo = {} /\ c.sum = 0 /\ c.length = 0
BY NoCallType DEF NewCall, NoCall, Calls

LEMMA SubmitStep ==
  ASSUME StoreInv, NEW w \in Worker, NEW u \in User, NEW op \in Ops, NEW n \in Nat,
         NEW l \in {"amount", "count", "lookup", "clear", "select"}, Submit(w, u, l, op, n),
         CallOK(l, NewCall(op, u, n))
  PROVE  StoreInv'
<1> DEFINE c == NewCall(op, u, n)
<1>1. pc[w] = "idle" /\ pc' = [pc EXCEPT ![w] = l] /\ UNCHANGED tableVars
      /\ req' = [req EXCEPT ![w] = c]
  BY DEF Submit, Accept, Set, InProgress, NewCall
<1>2. c \in Calls /\ c.row = NoRow /\ c.length = 0
  BY NewCallType
<1> HIDE DEF c
<1>3. writer # w
  BY <1>1, NotHolder
<1>4. FoundOK(db, l, c) /\ SumOK(db, l, c) /\ l \in Labels
  BY <1>2 DEF FoundOK, SumOK, Labels
<1>5. CallOK(l, c)
  BY DEF c
<1> QED BY <1>1, <1>2, <1>3, <1>4, <1>5, QuietStep

LEMMA Submitting ==
  ASSUME StoreInv, NEW w \in Worker, NEW u \in User,
         \/ \E n \in Value : IncCart(w, u, n) \/ PostReview(w, u, n) \/ PostStars(w, u, n)
         \/ ClearCart(w, u) \/ GetProductList(w, u)
  PROVE  StoreInv'
<1>1. ASSUME NEW n \in Value, IncCart(w, u, n)
      PROVE  StoreInv'
  <2>1. n \in Nat /\ "inc" \in Ops
    BY ValueAssumption DEF Ops
  <2>2. CallOK("amount", NewCall("inc", u, n))
    BY <2>1, NewCallType DEF CallOK
  <2> QED BY <1>1, <2>1, <2>2, SubmitStep DEF IncCart
<1>2. ASSUME NEW n \in Value, PostReview(w, u, n)
      PROVE  StoreInv'
  <2>1. n \in Nat /\ "review" \in Ops
    BY ValueAssumption DEF Ops
  <2>2. CallOK("count", NewCall("review", u, n))
    BY <2>1, NewCallType DEF CallOK
  <2> QED BY <1>2, <2>1, <2>2, SubmitStep DEF PostReview
<1>3. ASSUME NEW n \in Value, PostStars(w, u, n)
      PROVE  StoreInv'
  <2>1. n \in Nat /\ n <= MaxValue /\ "stars" \in Ops
    BY ValueAssumption DEF Ops
  <2>2. CallOK("lookup", NewCall("stars", u, n))
    BY <2>1, NewCallType DEF CallOK
  <2> QED BY <1>3, <2>1, <2>2, SubmitStep DEF PostStars
<1>4. ASSUME ClearCart(w, u)
      PROVE  StoreInv'
  <2>1. 0 \in Nat /\ "clear" \in Ops
    BY DEF Ops
  <2>2. CallOK("clear", NewCall("clear", u, 0))
    BY <2>1, NewCallType DEF CallOK
  <2> QED BY <1>4, <2>1, <2>2, SubmitStep DEF ClearCart
<1>5. ASSUME GetProductList(w, u)
      PROVE  StoreInv'
  <2>1. 0 \in Nat /\ "list" \in Ops
    BY DEF Ops
  <2>2. CallOK("select", NewCall("list", u, 0))
    BY <2>1, NewCallType DEF CallOK
  <2> QED BY <1>5, <2>1, <2>2, SubmitStep DEF GetProductList
<1> QED BY <1>1, <1>2, <1>3, <1>4, <1>5

-----------------------------------------------------------------------------
(* What is read by a handler, which does not hold the lock. *)
LEMMA OwnRows ==
  ASSUME StoreInv, NEW w \in Worker, pc[w] \in {"amount", "count", "lookup", "write", "insert", "clear"}
  PROVE  /\ Table(w) = TableOf(req[w]) /\ Own(w) = OwnOf(db, req[w]) /\ Own(w) \subseteq Row
         /\ req[w] \in Calls /\ db \in Tables /\ db[TableOf(req[w])] \subseteq Row
<1>1. CallOK(pc[w], req[w]) /\ req[w] \in Calls /\ db \in Tables
  BY DEF StoreInv, TablesOK
<1>2. Table(w) = TableOf(req[w])
  BY <1>1 DEF Table, TableOf
<1>3. Seen(w) = db
  BY NotHolder
<1>4. db[TableOf(req[w])] \subseteq Row
  BY <1>1, TableRows, TableOfType
<1> QED BY <1>1, <1>2, <1>3, <1>4 DEF Own, OwnOf, OfUser

LEMMA SelectingAmount ==
  ASSUME StoreInv, NEW w \in Worker, SelectAmount(w)
  PROVE  StoreInv'
<1>1. pc[w] = "amount" /\ pc' = [pc EXCEPT ![w] = "count"] /\ UNCHANGED tableVars
  BY DEF SelectAmount, Read, Goto
<1>2. Own(w) \subseteq Row /\ req[w] \in Calls
  BY <1>1, OwnRows
<1>3. PICK old \in IF Own(w) = {} THEN {0} ELSE {r.value : r \in Own(w)} :
        req' = [req EXCEPT ![w] = [req[w] EXCEPT !.old = old]]
  BY DEF SelectAmount, Set
<1>4. old \in Nat
  BY <1>2, <1>3 DEF Row
<1> DEFINE c == [req[w] EXCEPT !.old = old]
<1>5. c \in Calls /\ c.op = req[w].op /\ c.user = req[w].user /\ c.sum = req[w].sum
      /\ c.length = req[w].length
  BY <1>2, <1>4 DEF Calls
<1> HIDE DEF c
<1>6. CallOK(pc[w], req[w]) /\ SumOK(db, pc[w], req[w])
  BY DEF StoreInv
<1>7. CallOK("count", c) /\ FoundOK(db, "count", c) /\ SumOK(db, "count", c)
  BY <1>1, <1>5, <1>6 DEF CallOK, FoundOK, SumOK
<1>8. "count" \in Labels /\ writer # w
  BY <1>1, NotHolder DEF Labels
<1> QED BY <1>1, <1>3, <1>5, <1>7, <1>8, QuietStep DEF c

LEMMA CountingRows ==
  ASSUME StoreInv, NEW w \in Worker, CountRows(w)
  PROVE  StoreInv'
<1>1. PICK l \in {"insert", "lookup"} :
        pc[w] = "count" /\ pc' = [pc EXCEPT ![w] = l] /\ UNCHANGED tableVars /\ req' = req
  BY DEF CountRows, Read, Goto
<1>2. CallOK(pc[w], req[w]) /\ SumOK(db, pc[w], req[w]) /\ req[w] \in Calls
  BY DEF StoreInv
<1>3. CallOK(l, req[w]) /\ FoundOK(db, l, req[w]) /\ SumOK(db, l, req[w])
  BY <1>1, <1>2 DEF CallOK, FoundOK, SumOK
<1>4. l \in Labels /\ writer # w /\ req' = [req EXCEPT ![w] = req[w]]
  BY <1>1, NotHolder DEF Labels, StoreInv
<1> QED BY <1>1, <1>2, <1>3, <1>4, QuietStep

LEMMA LookingUp ==
  ASSUME StoreInv, NEW w \in Worker, LookupRow(w)
  PROVE  StoreInv'
<1>1. pc[w] = "lookup" /\ pc' = [pc EXCEPT ![w] = "write"] /\ UNCHANGED tableVars
  BY DEF LookupRow, Read, Goto
<1>2. Own(w) \subseteq Row /\ req[w] \in Calls /\ Own(w) = OwnOf(db, req[w])
      /\ db[TableOf(req[w])] \subseteq Row
  BY <1>1, OwnRows
<1>3. PICK i \in IF Own(w) = {} THEN {NoRow} ELSE {r.id : r \in Own(w)} :
        req' = [req EXCEPT ![w] = [req[w] EXCEPT !.row = i]]
  BY DEF LookupRow, Set
<1>4. i \in Nat /\ (i # NoRow => \E r \in Own(w) : r.id = i)
  BY <1>2, <1>3 DEF Row, NoRow
<1> DEFINE c == [req[w] EXCEPT !.row = i]
<1>5. c \in Calls /\ c.op = req[w].op /\ c.user = req[w].user /\ c.sum = req[w].sum
      /\ c.length = req[w].length /\ c.old = req[w].old /\ c.value = req[w].value /\ c.row = i
  BY <1>2, <1>4 DEF Calls
<1> HIDE DEF c
<1>6. CallOK(pc[w], req[w]) /\ SumOK(db, pc[w], req[w]) /\ TablesOK(db)
  BY DEF StoreInv
<1>7. CallOK("write", c) /\ SumOK(db, "write", c)
  BY <1>1, <1>5, <1>6 DEF CallOK, SumOK
<1>8. FoundOK(db, "write", c)
  <2> SUFFICES ASSUME i # NoRow
               PROVE  i < db.next /\ \A r \in db[TableOf(c)] : r.id = i => r.user = c.user
    BY <1>5 DEF FoundOK
  <2>1. PICK r \in Own(w) : r.id = i
    BY <1>4
  <2>2. TableOf(c) = TableOf(req[w]) /\ TableOf(c) \in TableName
    BY <1>5, TableOfType DEF TableOf
  <2>3. r \in db[TableOf(c)] /\ r.user = c.user
    BY <1>2, <1>5, <2>1, <2>2 DEF OwnOf, OfUser
  <2> QED BY <1>6, <2>1, <2>2, <2>3 DEF TablesOK
<1>9. "write" \in Labels /\ writer # w
  BY <1>1, NotHolder DEF Labels
<1> QED BY <1>1, <1>3, <1>5, <1>7, <1>8, <1>9, QuietStep DEF c

-----------------------------------------------------------------------------
(* What the statements that write make of the tables. *)
LEMMA RowWritten ==
  ASSUME StoreInv, NEW w \in Worker, WriteRow(w)
  PROVE  LET c == req[w]  t == TableOf(c)  n == c.old + c.value
         IN /\ pc[w] = "write" /\ UNCHANGED req /\ n \in Nat
            /\ \E k : /\ Write(w, k, "commit")
                      /\ \/ c.row # NoRow /\ k = [db EXCEPT ![t] = Amended(db[t], c.row, n)]
                         \/ c.row = NoRow /\ t # "star" /\ k = Insertion(db, t, NoUser, n)
                         \/ c.row = NoRow /\ t = "star" /\ db.product
                              /\ k = Insertion(db, t, c.user, n)
<1>1. pc[w] = "write" /\ req' = req
  BY DEF WriteRow
<1>2. Table(w) = TableOf(req[w]) /\ Seen(w) = db /\ NewValue(w) = req[w].old + req[w].value
  BY <1>1, OwnRows, NotHolder DEF NewValue
<1>3. req[w].old + req[w].value \in Nat
  BY <1>1, OwnRows DEF Calls
<1>4. Updated(w) = Amended(db[TableOf(req[w])], req[w].row, req[w].old + req[w].value)
  BY <1>2 DEF Updated, Amended
<1>5. \A u, n : Inserted(w, u, n) = Insertion(db, TableOf(req[w]), u, n)
  BY <1>2 DEF Inserted, Insertion, NewRow
<1> QED BY <1>1, <1>2, <1>3, <1>4, <1>5 DEF WriteRow

LEMMA RowInserted ==
  ASSUME StoreInv, NEW w \in Worker, InsertRow(w)
  PROVE  /\ pc[w] = "insert" /\ db.product /\ UNCHANGED req
         /\ Write(w, Insertion(db, TableOf(req[w]), req[w].user, req[w].value), "commit")
<1>1. pc[w] = "insert" /\ req' = req
  BY DEF InsertRow
<1>2. Table(w) = TableOf(req[w]) /\ Seen(w) = db
  BY <1>1, OwnRows, NotHolder
<1>3. \A u, n : Inserted(w, u, n) = Insertion(db, TableOf(req[w]), u, n)
  BY <1>2 DEF Inserted, Insertion, NewRow
<1> QED BY <1>1, <1>2, <1>3 DEF InsertRow

LEMMA RowsDeleted ==
  ASSUME StoreInv, NEW w \in Worker, DeleteRows(w)
  PROVE  /\ pc[w] = "clear" /\ UNCHANGED req
         /\ Write(w, [db EXCEPT !.cart = @ \ OfUser(db.cart, req[w].user)], "commit")
<1>1. pc[w] = "clear" /\ req' = req
  BY DEF DeleteRows
<1>2. req[w].op = "clear"
  BY <1>1 DEF StoreInv, CallOK
<1>3. TableOf(req[w]) = "cart" /\ Own(w) = OwnOf(db, req[w]) /\ Seen(w) = db
  BY <1>1, <1>2, OwnRows, NotHolder DEF TableOf
<1>4. Own(w) = OfUser(db.cart, req[w].user)
  BY <1>3 DEF OwnOf
<1> QED BY <1>1, <1>3, <1>4 DEF DeleteRows

LEMMA WritingRow ==
  ASSUME StoreInv, NEW w \in Worker, WriteRow(w)
  PROVE  StoreInv'
<1> DEFINE c == req[w]
           t == TableOf(c)
           n == c.old + c.value
<1>1. pc[w] = "write" /\ UNCHANGED req /\ n \in Nat
  BY RowWritten
<1>2. PICK k : /\ Write(w, k, "commit")
               /\ \/ c.row # NoRow /\ k = [db EXCEPT ![t] = Amended(db[t], c.row, n)]
                  \/ c.row = NoRow /\ t # "star" /\ k = Insertion(db, t, NoUser, n)
                  \/ c.row = NoRow /\ t = "star" /\ db.product
                       /\ k = Insertion(db, t, c.user, n)
  BY RowWritten
<1>3. CallOK("write", c) /\ FoundOK(db, "write", c) /\ TablesOK(db) /\ c \in Calls
  BY <1>1 DEF StoreInv
<1>4. c.user \in User /\ c.row \in Nat /\ t \in TableName
  BY <1>3, TableOfType DEF CallOK, Calls
<1>5. t = "star" => n <= MaxValue
  BY <1>3, ValueAssumption DEF CallOK, TableOf, Calls
<1>6. c.row # NoRow => \A r \in db[t] : r.id = c.row => r.user = c.user
  BY <1>3 DEF FoundOK
<1> HIDE DEF n, t, c
<1>7. TablesOK(k) /\ Change(db, k, t, c.user)
  <2>1. CASE c.row # NoRow /\ k = [db EXCEPT ![t] = Amended(db[t], c.row, n)]
    BY <1>1, <1>3, <1>4, <1>5, <1>6, <2>1, AmendingChanges
  <2>2. CASE t # "star" /\ k = Insertion(db, t, NoUser, n)
    BY <1>1, <1>3, <1>4, <2>2, InsertionChanges
  <2>3. CASE t = "star" /\ db.product /\ k = Insertion(db, t, c.user, n)
    BY <1>1, <1>3, <1>4, <1>5, <2>3, InsertionChanges
  <2> QED BY <1>2, <2>1, <2>2, <2>3
<1> QED BY <1>1, <1>2, <1>7, WriteStep DEF c, t

LEMMA InsertingRow ==
  ASSUME StoreInv, NEW w \in Worker, InsertRow(w)
  PROVE  StoreInv'
<1> DEFINE c == req[w]
           t == TableOf(c)
           k == Insertion(db, t, c.user, c.value)
<1>1. pc[w] = "insert" /\ db.product /\ UNCHANGED req /\ Write(w, k, "commit")
  BY RowInserted
<1>2. CallOK("insert", c) /\ TablesOK(db) /\ c \in Calls
  BY <1>1 DEF StoreInv
<1>3. c.user \in User /\ c.value \in Nat /\ t \in TableName /\ t # "star"
  BY <1>2 DEF CallOK, Calls, TableOf, TableName
<1>4. k = Insertion(db, t, c.user, c.value)
  OBVIOUS
<1> HIDE DEF k, t, c
<1>5. TablesOK(k) /\ Change(db, k, t, c.user)
  BY <1>2, <1>3, <1>4, InsertionChanges
<1> QED BY <1>1, <1>5, WriteStep DEF c, t

LEMMA DeletingRows ==
  ASSUME StoreInv, NEW w \in Worker, DeleteRows(w)
  PROVE  StoreInv'
<1> DEFINE k == [db EXCEPT !.cart = @ \ OfUser(db.cart, req[w].user)]
<1>1. pc[w] = "clear" /\ UNCHANGED req /\ Write(w, k, "commit")
  BY RowsDeleted
<1>2. CallOK("clear", req[w]) /\ TablesOK(db)
  BY <1>1 DEF StoreInv
<1>3. req[w].user \in User /\ TableOf(req[w]) = "cart"
  BY <1>2 DEF CallOK, TableOf
<1>4. TablesOK(k) /\ Change(db, k, "cart", req[w].user)
  BY <1>2, <1>3, DeletingChanges
<1> HIDE DEF k
<1> QED BY <1>1, <1>3, <1>4, WriteStep

-----------------------------------------------------------------------------
(* The average: n stars were summed, and there is another one. *)
LEMMA MoreTimes ==
  ASSUME NEW n \in Nat, NEW l \in Nat, NEW m \in Nat, n <= l
  PROVE  n * m <= l * m /\ n * m \in Nat /\ l * m \in Nat
<1>1. PICK d \in Nat : l = n + d
  <2>1. l - n \in Nat /\ l = n + (l - n)
    OBVIOUS
  <2> QED BY <2>1
<1>2. (n + d) * m = n * m + d * m
  OBVIOUS
<1>3. n * m \in Nat /\ d * m \in Nat
  OBVIOUS
<1> QED BY <1>1, <1>2, <1>3

LEMMA SelectingStars ==
  ASSUME StoreInv, NEW w \in Worker, SelectStars(w)
  PROVE  StoreInv'
<1>1. pc[w] = "select"
  BY DEF SelectStars
<1>2. writer # w /\ Seen(w) = db /\ TablesOK(db) /\ req[w] \in Calls
      /\ CallOK("select", req[w]) /\ SumOK(db, "select", req[w])
  BY <1>1, NotHolder DEF StoreInv
<1> DEFINE l == IF db.star = {} THEN "commit" ELSE "divide"
           c == [req[w] EXCEPT !.todo = db.star]
<1>3. pc' = [pc EXCEPT ![w] = l] /\ req' = [req EXCEPT ![w] = c] /\ UNCHANGED tableVars
  BY <1>2 DEF SelectStars, Set, Read, Goto
<1>4. db.star \in SUBSET Row
  BY <1>2 DEF TablesOK, Tables
<1>5. c \in Calls /\ c.op = req[w].op /\ c.user = req[w].user /\ c.old = req[w].old
      /\ c.value = req[w].value /\ c.sum = req[w].sum /\ c.length = req[w].length
      /\ c.todo = db.star
  BY <1>2, <1>4 DEF Calls
<1>6. l \in {"commit", "divide"} /\ l \in Labels /\ (l = "divide" => db.star # {})
  BY DEF Labels
<1> HIDE DEF c, l
<1>7. CallOK(l, c) /\ FoundOK(db, l, c)
  BY <1>2, <1>5, <1>6 DEF CallOK, FoundOK
<1>8. c.sum = 0 /\ c.length = 0
  BY <1>2, <1>5 DEF CallOK
<1>9. SumOK(db, l, c)
  <2>1. 0 \in Nat /\ c.sum <= 0 * MaxValue
    BY <1>8, ValueAssumption
  <2>2. Cardinality(c.todo) \in Nat
    BY <1>2, <1>5, FS_CardinalityType DEF TablesOK
  <2>3. 0 + Cardinality(c.todo) <= Cardinality(db.star)
    BY <1>5, <2>2
  <2>4. IsFiniteSet(c.todo) /\ \A r \in c.todo : r.value <= MaxValue
    BY <1>2, <1>5 DEF TablesOK
  <2> QED BY <1>5, <1>6, <1>8, <2>1, <2>3, <2>4 DEF SumOK
<1> QED BY <1>2, <1>3, <1>5, <1>6, <1>7, <1>9, QuietStep

LEMMA FailStep ==
  ASSUME StoreInv, NEW w \in Worker, pc[w] \notin {"idle", "commit"}, Fail(w), UNCHANGED req
  PROVE  StoreInv'
<1>1. writer # w
  BY NotHolder
<1>2. pc' = [pc EXCEPT ![w] = "answer"] /\ UNCHANGED tableVars
  BY <1>1 DEF Fail, Rollback, tableVars
<1>3. req[w] \in Calls /\ CallOK(pc[w], req[w]) /\ SumOK(db, pc[w], req[w])
  BY DEF StoreInv
<1>4. CallOK("answer", req[w]) /\ FoundOK(db, "answer", req[w]) /\ SumOK(db, "answer", req[w])
  BY <1>3 DEF CallOK, FoundOK, SumOK
<1>5. "answer" \in Labels /\ req' = [req EXCEPT ![w] = req[w]]
  BY DEF Labels, StoreInv
<1> QED BY <1>1, <1>2, <1>3, <1>4, <1>5, QuietStep

LEMMA Dividing ==
  ASSUME StoreInv, NEW w \in Worker, Divide(w)
  PROVE  StoreInv'
<1>1. pc[w] = "divide"
  BY DEF Divide
<1>2. writer # w /\ Seen(w) = db /\ TablesOK(db) /\ req[w] \in Calls
      /\ CallOK("divide", req[w]) /\ SumOK(db, "divide", req[w]) /\ Length(w) = Cardinality(db.star)
  BY <1>1, NotHolder DEF StoreInv, Length
<1>3. CASE Fail(w) /\ UNCHANGED req
  BY <1>1, <1>3, FailStep
<1>4. CASE /\ Length(w) # 0
           /\ \E r \in req[w].todo :
                /\ Set(w, [req[w] EXCEPT !.todo = @ \ {r}, !.sum = @ + r.value,
                                         !.length = Length(w)])
                /\ Read(w, IF req[w].todo = {r} THEN "commit" ELSE "divide")
  <2> DEFINE len == Cardinality(db.star)
  <2>1. PICK r \in req[w].todo :
          /\ Set(w, [req[w] EXCEPT !.todo = @ \ {r}, !.sum = @ + r.value, !.length = len])
          /\ Read(w, IF req[w].todo = {r} THEN "commit" ELSE "divide")
    BY <1>2, <1>4
  <2> DEFINE l == IF req[w].todo = {r} THEN "commit" ELSE "divide"
             c == [req[w] EXCEPT !.todo = @ \ {r}, !.sum = @ + r.value, !.length = len]
  <2>2. pc' = [pc EXCEPT ![w] = l] /\ req' = [req EXCEPT ![w] = c] /\ UNCHANGED tableVars
    BY <2>1 DEF Set, Read, Goto
  <2>3. len \in Nat /\ len # 0 /\ (len = 0 <=> db.star = {}) /\ IsFiniteSet(db.star)
    BY <1>2, <1>4, FS_CardinalityType, FS_EmptySet DEF TablesOK
  <2>4. req[w].todo \subseteq Row /\ r \in Row /\ r.value \in Nat /\ req[w].sum \in Nat
    BY <1>2, <2>1 DEF Calls, Row
  <2> HIDE DEF len
  <2>5. c \in Calls /\ c.op = req[w].op /\ c.user = req[w].user /\ c.old = req[w].old
        /\ c.value = req[w].value /\ c.row = req[w].row
        /\ c.todo = req[w].todo \ {r} /\ c.sum = req[w].sum + r.value /\ c.length = len
    <3>1. req[w].todo \ {r} \in SUBSET Row /\ req[w].sum + r.value \in Nat
      BY <2>4
    <3>2. PICK todo \in SUBSET Row, sum \in Nat :
            todo = req[w].todo \ {r} /\ sum = req[w].sum + r.value
      BY <3>1
    <3>3. c = [req[w] EXCEPT !.todo = todo, !.sum = sum, !.length = len]
      BY <3>2
    <3> HIDE DEF c
    <3>4. c \in Calls /\ c.op = req[w].op /\ c.user = req[w].user /\ c.old = req[w].old
          /\ c.value = req[w].value /\ c.row = req[w].row
          /\ c.todo = todo /\ c.sum = sum /\ c.length = len
      BY <1>2, <2>3, <3>3 DEF Calls
    <3> QED BY <3>2, <3>4
  <2>6. l \in {"commit", "divide"} /\ l \in Labels /\ (l = "divide" => c.todo # {})
    BY <2>1, <2>5 DEF Labels
  <2> HIDE DEF c, l
  <2>7. CallOK(l, c) /\ FoundOK(db, l, c)
    BY <1>2, <2>5, <2>6 DEF CallOK, FoundOK
  <2>8. IsFiniteSet(req[w].todo) /\ r.value <= MaxValue
        /\ \A s \in req[w].todo : s.value <= MaxValue
    BY <1>2, <2>1 DEF SumOK
  <2>9. db.product
    BY <1>2, <2>3 DEF TablesOK
  <2>10. PICK n \in Nat : /\ req[w].sum <= n * MaxValue
                          /\ n + Cardinality(req[w].todo) <= len
    BY <1>2, <2>9 DEF SumOK, len
  <2>11. /\ IsFiniteSet(c.todo) /\ Cardinality(c.todo) \in Nat
         /\ Cardinality(req[w].todo) = Cardinality(c.todo) + 1
    <3>1. IsFiniteSet(req[w].todo \ {r})
          /\ Cardinality(req[w].todo \ {r}) = Cardinality(req[w].todo) - 1
      BY <2>1, <2>8, FS_RemoveElement
    <3>2. Cardinality(req[w].todo) \in Nat /\ Cardinality(req[w].todo \ {r}) \in Nat
      BY <2>8, <3>1, FS_CardinalityType
    <3> QED BY <2>5, <3>1, <3>2
  <2>12. (n + 1) + Cardinality(c.todo) <= len /\ n + 1 <= len
    BY <2>3, <2>10, <2>11
  <2>13. c.sum <= (n + 1) * MaxValue
    <3>1. (n + 1) * MaxValue = n * MaxValue + MaxValue /\ n * MaxValue \in Nat
      BY ValueAssumption
    <3> HIDE DEF c
    <3> QED BY <2>4, <2>5, <2>8, <2>10, <3>1, ValueAssumption
  <2>14. c.sum <= len * MaxValue
    <3>1. (n + 1) * MaxValue <= len * MaxValue /\ (n + 1) * MaxValue \in Nat
          /\ len * MaxValue \in Nat
      BY <2>3, <2>12, MoreTimes, ValueAssumption
    <3>2. c.sum \in Nat
      BY <2>5 DEF Calls
    <3> QED BY <2>13, <3>1, <3>2
  <2>15. SumOK(db, l, c)
    <3>1. n + 1 \in Nat
      OBVIOUS
    <3>2. \A s \in c.todo : s.value <= MaxValue
      BY <2>5, <2>8
    <3>3. (n + 1) + Cardinality(c.todo) <= Cardinality(db.star)
      BY <2>12 DEF len
    <3>4. \E m \in Nat : c.sum <= m * MaxValue /\ m + Cardinality(c.todo) <= Cardinality(db.star)
      BY <2>13, <3>1, <3>3
    <3>5. c.sum <= c.length * MaxValue
      BY <2>5, <2>14
    <3> QED BY <2>6, <2>11, <3>2, <3>4, <3>5 DEF SumOK
  <2> QED BY <1>2, <2>2, <2>5, <2>6, <2>7, <2>15, QuietStep
<1> QED BY <1>3, <1>4 DEF Divide

-----------------------------------------------------------------------------
LEMMA Refusing ==
  ASSUME StoreInv, NEW w \in Worker, RefuseRow(w)
  PROVE  StoreInv'
<1>1. pc[w] \notin {"idle", "commit"} /\ Fail(w) /\ UNCHANGED req
  BY DEF RefuseRow
<1> QED BY <1>1, FailStep

LEMMA Finishing ==
  ASSUME StoreInv, NEW w \in Worker, Finish(w)
  PROVE  StoreInv'
<1>1. CASE Commit(w) /\ UNCHANGED req
  BY <1>1, CommitStep
<1>2. CASE LockTimeout(w, {"write", "insert", "clear"}) /\ UNCHANGED req
  <2>1. pc[w] \notin {"idle", "commit"} /\ Fail(w)
    BY <1>2 DEF LockTimeout, InHandler
  <2> QED BY <1>2, <2>1, FailStep
<1>3. CASE Respond(w) /\ Set(w, NoCall)
  <2>1. pc[w] = "answer" /\ pc' = [pc EXCEPT ![w] = "idle"] /\ UNCHANGED tableVars
        /\ req' = [req EXCEPT ![w] = NoCall]
    BY <1>3 DEF Respond, Set
  <2>2. writer # w /\ "idle" \in Labels /\ NoCall \in Calls
    BY <2>1, NotHolder, NoCallType DEF Labels
  <2> QED BY <2>1, <2>2, IdleOK, QuietStep
<1> QED BY <1>1, <1>2, <1>3 DEF Finish

LEMMA DeletingProduct ==
  ASSUME StoreInv, DeleteProduct
  PROVE  StoreInv'
<1>1. writer = NoWorker /\ UNCHANGED <<writer, pc, req>> /\ work' = db'
      /\ db' = Cascade(db)
  BY DEF DeleteProduct, Cascade
<1>2. PICK k : k = Cascade(db)
  OBVIOUS
<1>3. TablesOK(db)
  BY DEF StoreInv
<1>4. /\ TablesOK(k) /\ ~k.product /\ k.next = db.next
      /\ \A t \in TableName : \A r \in k[t] : r \in db[t]
  BY <1>2, <1>3, CascadeKeeps
<1>5. ASSUME NEW w \in Worker
      PROVE  CallOK(pc[w], req[w]) /\ FoundOK(k, pc[w], req[w]) /\ SumOK(k, pc[w], req[w])
  <2>1. CallOK(pc[w], req[w]) /\ FoundOK(db, pc[w], req[w]) /\ SumOK(db, pc[w], req[w])
    BY DEF StoreInv
  <2> QED BY <1>4, <2>1, CascadeKeepsFound
<1>6. db' = k /\ work' = k
  BY <1>1, <1>2
<1> QED BY <1>1, <1>4, <1>5, <1>6, WorkerAssumption DEF StoreInv

LEMMA Crashing ==
  ASSUME StoreInv, StoreCrash
  PROVE  StoreInv'
<1>1. /\ pc' = [w \in Worker |-> "idle"] /\ req' = [w \in Worker |-> NoCall]
      /\ writer' = NoWorker /\ work' = db /\ db' = db
  BY DEF StoreCrash, Crash
<1>2. pc' \in [Worker -> Labels] /\ req' \in [Worker -> Calls]
  BY <1>1, NoCallType DEF Labels
<1>3. \A w \in Worker : /\ CallOK(pc'[w], req'[w])
                        /\ FoundOK(db', pc'[w], req'[w])
                        /\ SumOK(db', pc'[w], req'[w])
  BY <1>1, IdleOK
<1> QED BY <1>1, <1>2, <1>3, WorkerAssumption DEF StoreInv

LEMMA Starting ==
  ASSUME StoreInit
  PROVE  StoreInv
<1> DEFINE d == [cart |-> {}, star |-> {}, review |-> {}, product |-> TRUE, next |-> 1]
<1>1. /\ pc = [w \in Worker |-> "idle"] /\ req = [w \in Worker |-> NoCall]
      /\ writer = NoWorker /\ work = d /\ db = d
  BY DEF StoreInit, ServerInit
<1>2. pc \in [Worker -> Labels] /\ req \in [Worker -> Calls]
  BY <1>1, NoCallType DEF Labels
<1>3. \A w \in Worker : /\ CallOK(pc[w], req[w]) /\ FoundOK(db, pc[w], req[w])
                        /\ SumOK(db, pc[w], req[w])
  BY <1>1, IdleOK
<1>4. d \in Tables
  BY DEF Tables, NoRow
<1>5. TablesOK(d)
  BY <1>4, FS_EmptySet DEF TablesOK, TableName
<1> HIDE DEF d
<1> QED BY <1>1, <1>2, <1>3, <1>5, WorkerAssumption DEF StoreInv

LEMMA Stepping ==
  ASSUME StoreInv, [StoreNext]_storeVars
  PROVE  StoreInv'
<1>1. ASSUME NEW w \in Worker, Handler(w)
      PROVE  StoreInv'
  BY <1>1, SelectingAmount, CountingRows, LookingUp, WritingRow, InsertingRow, Refusing,
     DeletingRows, SelectingStars, Dividing DEF Handler
<1>2. CASE UNCHANGED storeVars
  BY <1>2 DEF StoreInv, storeVars, serverVars
<1> QED BY <1>1, <1>2, Submitting, Finishing, DeletingProduct, Crashing DEF StoreNext

(* The inductive invariant of the store, whatever its users do: ids, rows   *)
(* and stars of the committed tables, what every handler has found and      *)
(* summed of them, and how the tables of the holder of the lock differ.     *)
THEOREM TablesAgree == StoreSpec => []StoreInv
BY Starting, Stepping, PTL DEF StoreSpec

(* No list fails while the product stays, and no average is above the best  *)
(* rating, however often the stars change while they are summed.            *)
THEOREM AveragesStayInRange == StoreSpec => []AveragesAreInRange
<1>1. StoreInv => AveragesAreInRange
  <2> SUFFICES ASSUME StoreInv, NEW w \in Worker
               PROVE  /\ pc[w] = "divide" /\ db.product => Seen(w).star # {}
                      /\ req[w].length > 0 => req[w].sum <= req[w].length * MaxValue
    BY DEF AveragesAreInRange
  <2>1. SumOK(db, pc[w], req[w]) /\ TablesOK(db)
    BY DEF StoreInv
  <2>2. ASSUME pc[w] = "divide", db.product
        PROVE  Seen(w).star # {}
    <3>1. req[w].todo # {} /\ IsFiniteSet(req[w].todo)
      BY <2>1, <2>2 DEF SumOK
    <3>2. PICK n \in Nat : n + Cardinality(req[w].todo) <= Cardinality(db.star)
      BY <2>1, <2>2 DEF SumOK
    <3>3. Cardinality(req[w].todo) \in Nat /\ Cardinality(req[w].todo) # 0
      BY <3>1, FS_CardinalityType, FS_EmptySet
    <3>4. Cardinality(db.star) \in Nat /\ (db.star = {} => Cardinality(db.star) = 0)
      BY <2>1, FS_CardinalityType, FS_EmptySet DEF TablesOK
    <3>5. db.star # {}
      BY <3>2, <3>3, <3>4
    <3> QED BY <2>2, <3>5, NotHolder
  <2> QED BY <2>1, <2>2 DEF SumOK
<1> QED BY <1>1, TablesAgree, PTL

-----------------------------------------------------------------------------
(* Users who wait.  What a handler knows of its user's rows stays true when *)
(* another user's rows change, and when the product goes.                   *)
LEMMA OthersKeep ==
  ASSUME NEW d, NEW k, NEW t, NEW u, Change(d, k, t, u), NEW l, NEW c,
         l # "idle" => c.user \in User /\ c.user # u, PatientOK(d, l, c)
  PROVE  PatientOK(k, l, c)
<1>1. k.product = d.product
  BY DEF Change
<1>2. CASE l = "idle"
  BY <1>2 DEF PatientOK
<1>3. CASE l # "idle"
  <2>1. OwnOf(k, c) = OwnOf(d, c)
    BY <1>3, TableOfType DEF Change, OwnOf
  <2> QED BY <1>1, <2>1 DEF PatientOK
<1> QED BY <1>2, <1>3

LEMMA CascadeKeepsPatient ==
  ASSUME NEW k, ~k.product, \A t \in TableName : \A r \in k[t] : r.user = NoUser,
         NEW l, NEW c, l # "idle" => c.user \in User
  PROVE  PatientOK(k, l, c)
<1>1. l # "idle" => OwnOf(k, c) = {}
  BY TableOfType, UserAssumption DEF OwnOf, OfUser
<1> QED BY <1>1 DEF PatientOK

LEMMA OwnedChanged ==
  ASSUME NEW d, NEW k, NEW t, NEW u, Owned(d), Change(d, k, t, u),
         \A r \in k[t] : IF r.user = NoUser THEN ~d.product
                         ELSE \A s \in k[t] : s.user = r.user => r = s
  PROVE  Owned(k)
<1>1. k.product = d.product /\ \A o \in TableName : o # t => k[o] = d[o]
  BY DEF Change
<1>2. \A p \in TableName : p = t =>
        \A r \in k[p] : IF r.user = NoUser THEN ~k.product
                        ELSE \A s \in k[p] : s.user = r.user => r = s
  BY <1>1
<1>3. \A p \in TableName : p # t =>
        \A r \in k[p] : IF r.user = NoUser THEN ~k.product
                        ELSE \A s \in k[p] : s.user = r.user => r = s
  BY <1>1 DEF Owned
<1> QED BY <1>2, <1>3 DEF Owned

LEMMA SetRows ==
  ASSUME NEW d \in Tables, NEW t \in TableName, NEW rows, NEW k, k = [d EXCEPT ![t] = rows]
  PROVE  k[t] = rows
BY DEF Tables, TableName

LEMMA InsertedRows ==
  ASSUME NEW d \in Tables, NEW t \in TableName, NEW u, NEW n, NEW k, k = Insertion(d, t, u, n)
  PROVE  k[t] = d[t] \cup {NewRow(d, u, n)}
BY DEF Tables, TableName, Insertion

(* Each statement leaves one row per user. *)
LEMMA AmendedOwned ==
  ASSUME NEW d, TablesOK(d), Owned(d), NEW t \in TableName, NEW u, NEW i \in Nat, NEW n \in Nat,
         NEW k, k[t] = Amended(d[t], i, n), Change(d, k, t, u)
  PROVE  Owned(k)
<1> DEFINE rows == Amended(d[t], i, n)
<1>1. d[t] \in SUBSET Row /\ d \in Tables
  BY TableRows DEF TablesOK
<1>2. /\ rows \in SUBSET Row
      /\ \A r \in rows : \E s \in d[t] :
           r.id = s.id /\ r.user = s.user /\ (IF r.id = i THEN r.value = n ELSE r = s)
  BY <1>1, AmendedRows
<1>3. k[t] = rows
  OBVIOUS
<1> HIDE DEF rows
<1>4. ASSUME NEW r \in rows
      PROVE  IF r.user = NoUser THEN ~d.product
             ELSE \A s \in rows : s.user = r.user => r = s
  <2>1. PICK x \in d[t] : r.id = x.id /\ r.user = x.user /\ (IF r.id = i THEN r.value = n ELSE r = x)
    BY <1>2
  <2>2. CASE r.user = NoUser
    BY <2>1, <2>2 DEF Owned
  <2>3. ASSUME r.user # NoUser, NEW s \in rows, s.user = r.user
        PROVE  r = s
    <3>1. PICK y \in d[t] : s.id = y.id /\ s.user = y.user /\ (IF s.id = i THEN s.value = n ELSE s = y)
      BY <1>2
    <3>2. x = y
      BY <2>1, <2>3, <3>1 DEF Owned
    <3> QED BY <1>2, <2>1, <2>3, <3>1, <3>2, RowsAreEqual
  <2> QED BY <2>2, <2>3
<1>5. \A r \in k[t] : IF r.user = NoUser THEN ~d.product
                      ELSE \A s \in k[t] : s.user = r.user => r = s
  BY <1>3, <1>4
<1> QED BY <1>5, OwnedChanged

LEMMA InsertedOwned ==
  ASSUME NEW d, Owned(d), NEW t \in TableName, NEW u, NEW owner, NEW n,
         IF owner = NoUser THEN ~d.product ELSE OfUser(d[t], owner) = {},
         NEW k, k[t] = d[t] \cup {NewRow(d, owner, n)}, Change(d, k, t, u)
  PROVE  Owned(k)
<1> DEFINE new == NewRow(d, owner, n)
<1>2. k[t] = d[t] \cup {new}
  OBVIOUS
<1>3. new.user = owner
  BY DEF NewRow
<1> HIDE DEF new
<1>4. \A r \in d[t] : IF r.user = NoUser THEN ~d.product
                      ELSE \A s \in d[t] : s.user = r.user => r = s
  BY DEF Owned
<1>5. owner # NoUser => \A r \in d[t] : r.user # owner
  BY DEF OfUser
<1>6. \A r \in k[t] : IF r.user = NoUser THEN ~d.product
                      ELSE \A s \in k[t] : s.user = r.user => r = s
  BY <1>2, <1>3, <1>4, <1>5
<1> QED BY <1>6, OwnedChanged

LEMMA DeletedOwned ==
  ASSUME NEW d, Owned(d), NEW t \in TableName, NEW u,
         NEW k, k[t] \subseteq d[t], Change(d, k, t, u)
  PROVE  Owned(k)
<1>1. \A r \in k[t] : IF r.user = NoUser THEN ~d.product
                      ELSE \A s \in k[t] : s.user = r.user => r = s
  BY DEF Owned
<1> QED BY <1>1, OwnedChanged

-----------------------------------------------------------------------------
(* The same kinds of steps, for users who wait. *)
LEMMA PatientQuiet ==
  ASSUME StoreInv, WaitInv, NEW w \in Worker, writer # w, NEW l, NEW c,
         PatientOK(db, l, c), l = "commit" => c.op # "inc",
         l # "idle" => \A v \in Worker : v # w /\ InProgress(v) => req[v].user # c.user,
         pc' = [pc EXCEPT ![w] = l], req' = [req EXCEPT ![w] = c], UNCHANGED tableVars
  PROVE  WaitInv'
<1>1. pc'[w] = l /\ req'[w] = c
      /\ \A v \in Worker : v # w => pc'[v] = pc[v] /\ req'[v] = req[v]
  BY DEF StoreInv
<1>2. ASSUME NEW v \in Worker, NEW x \in Worker, pc'[v] # "idle", pc'[x] # "idle",
             req'[v].user = req'[x].user
      PROVE  v = x
  BY <1>1, <1>2 DEF WaitInv, InProgress
<1>3. \A v \in Worker : /\ PatientOK(db', pc'[v], req'[v])
                        /\ pc'[v] = "commit" /\ req'[v].op = "inc" => writer' = v
  BY <1>1 DEF WaitInv, tableVars
<1>4. Owned(db') /\ (writer' \in Worker => Owned(work') /\ Grown(db', work', req'[writer']))
  BY <1>1 DEF WaitInv, tableVars
<1> QED BY <1>2, <1>3, <1>4 DEF WaitInv, InProgress

(* A step between two statements of the handler of w. *)
LEMMA PatientRead ==
  ASSUME StoreInv, WaitInv, NEW w \in Worker, pc[w] \notin {"idle", "commit"}, NEW l, NEW c,
         PatientOK(db, l, c), l = "commit" => c.op # "inc", c.user = req[w].user,
         pc' = [pc EXCEPT ![w] = l], req' = [req EXCEPT ![w] = c], UNCHANGED tableVars
  PROVE  WaitInv'
<1>1. writer # w
  BY NotHolder
<1>2. \A v \in Worker : v # w /\ InProgress(v) => req[v].user # c.user
  BY DEF WaitInv, InProgress
<1> QED BY <1>1, <1>2, PatientQuiet

LEMMA PatientWrite ==
  ASSUME StoreInv, WaitInv, NEW w \in Worker, pc[w] \in {"write", "insert", "clear"},
         NEW k, Owned(k), Grown(db, k, req[w]), Write(w, k, "commit"), UNCHANGED req
  PROVE  WaitInv'
<1>1. writer = NoWorker /\ writer' = w /\ work' = k /\ db' = db /\ req' = req
      /\ pc' = [pc EXCEPT ![w] = "commit"]
  BY NotHolder DEF Write, Goto
<1>2. pc'[w] = "commit" /\ \A v \in Worker : v # w => pc'[v] = pc[v]
  BY <1>1 DEF StoreInv
<1>3. PatientOK(db, "commit", req[w])
  BY DEF PatientOK
<1>4. \A v \in Worker : pc[v] = "commit" /\ req[v].op = "inc" => v \notin Worker
  BY <1>1, WorkerAssumption DEF WaitInv
<1>5. \A v \in Worker : /\ PatientOK(db', pc'[v], req'[v])
                        /\ pc'[v] = "commit" /\ req'[v].op = "inc" => writer' = v
  BY <1>1, <1>2, <1>3, <1>4 DEF WaitInv
<1>6. \A v, x \in Worker : pc'[v] # "idle" /\ pc'[x] # "idle" /\ req'[v].user = req'[x].user => v = x
  BY <1>1, <1>2 DEF WaitInv, InProgress
<1>7. Owned(db') /\ Owned(work') /\ Grown(db', work', req'[writer'])
  BY <1>1 DEF WaitInv
<1> QED BY <1>5, <1>6, <1>7 DEF WaitInv, InProgress

LEMMA PatientCommit ==
  ASSUME StoreInv, WaitInv, NEW w \in Worker, Commit(w), UNCHANGED req
  PROVE  WaitInv'
<1>1. pc[w] = "commit" /\ pc' = [pc EXCEPT ![w] = "answer"] /\ req' = req /\ work' = work
      /\ db' = Seen(w) /\ writer' = IF writer = w THEN NoWorker ELSE writer
  BY DEF Commit
<1>2. \A d : PatientOK(d, "answer", req[w])
  BY DEF PatientOK
<1>3. CASE writer # w
  <2>1. UNCHANGED tableVars
    BY <1>1, <1>3 DEF Seen, tableVars
  <2>2. req' = [req EXCEPT ![w] = req[w]]
    BY <1>1 DEF StoreInv
  <2>3. \A v \in Worker : v # w /\ InProgress(v) => req[v].user # req[w].user
    BY <1>1 DEF WaitInv, InProgress
  <2> QED BY <1>1, <1>2, <1>3, <2>1, <2>2, <2>3, PatientQuiet
<1>4. CASE writer = w
  <2>1. db' = work /\ writer' = NoWorker /\ Change(db, work, TableOf(req[w]), req[w].user)
    BY <1>1, <1>4 DEF Seen, StoreInv
  <2>2. pc'[w] = "answer" /\ \A v \in Worker : v # w => pc'[v] = pc[v]
    BY <1>1 DEF StoreInv
  <2>3. ASSUME NEW v \in Worker
        PROVE  PatientOK(db', pc'[v], req'[v])
    <3>1. CASE v = w
      BY <1>1, <1>2, <2>2, <3>1
    <3>2. CASE v # w
      <4>1. PatientOK(db, pc[v], req[v]) /\ CallOK(pc[v], req[v])
        BY DEF WaitInv, StoreInv
      <4>2. pc[v] # "idle" => req[v].user \in User /\ req[v].user # req[w].user
        BY <1>1, <3>2, <4>1 DEF WaitInv, InProgress, CallOK
      <4>3. PatientOK(work, pc[v], req[v])
        BY <2>1, <4>1, <4>2, OthersKeep
      <4> QED BY <1>1, <2>1, <2>2, <3>2, <4>3
    <3> QED BY <3>1, <3>2
  <2>4. \A v \in Worker : pc'[v] = "commit" /\ req'[v].op = "inc" => writer' = v
    BY <1>1, <1>4, <2>2 DEF WaitInv
  <2>5. \A v, x \in Worker : pc'[v] # "idle" /\ pc'[x] # "idle" /\ req'[v].user = req'[x].user => v = x
    BY <1>1, <2>2 DEF WaitInv, InProgress
  <2>6. Owned(db') /\ writer' \notin Worker
    BY <1>4, <2>1, WorkerAssumption DEF WaitInv
  <2> QED BY <2>3, <2>4, <2>5, <2>6 DEF WaitInv, InProgress
<1> QED BY <1>3, <1>4

-----------------------------------------------------------------------------
(* The amount that is written is the one in the cart, if there is one, and  *)
(* the amount that was posted.                                              *)
LEMMA AmendedGrows ==
  ASSUME NEW d, TablesOK(d), NEW c \in Calls, c.op = "inc" /\ d.product =>
           /\ Holds(OfUser(d.cart, c.user), c.old)
           /\ \E r \in OfUser(d.cart, c.user) : r.id = c.row,
         NEW k, k["cart"] = Amended(d["cart"], c.row, c.old + c.value)
  PROVE  Grown(d, k, c)
<1> SUFFICES ASSUME c.op = "inc", d.product
             PROVE  \E r \in k.cart : /\ OfUser(k.cart, c.user) = {r}
                                      /\ Holds(OfUser(d.cart, c.user), r.value - c.value)
  BY DEF Grown
<1> DEFINE n == c.old + c.value
           rows == Amended(d.cart, c.row, n)
<1>1. d.cart \in SUBSET Row /\ n \in Nat /\ c.row \in Nat /\ c.old \in Nat /\ c.value \in Nat
      /\ n - c.value = c.old
  BY DEF TablesOK, Tables, Calls
<1>2. k.cart = rows
  OBVIOUS
<1>3. /\ rows \in SUBSET Row
      /\ \A r \in rows : \E s \in d.cart :
           r.id = s.id /\ r.user = s.user /\ (IF r.id = c.row THEN r.value = n ELSE r = s)
  <2> HIDE DEF n
  <2>1. Amended(d.cart, c.row, n) \in SUBSET Row
    BY <1>1, AmendedRows
  <2>2. \A r \in Amended(d.cart, c.row, n) : \E s \in d.cart :
           r.id = s.id /\ r.user = s.user /\ (IF r.id = c.row THEN r.value = n ELSE r = s)
    BY <1>1, AmendedRows
  <2> QED BY <2>1, <2>2
<1>4. PICK x \in d.cart : x.user = c.user /\ x.id = c.row
  BY DEF OfUser
<1>5. \A s \in d.cart : s.user = c.user => s = x
  BY <1>4 DEF Holds, OfUser
<1>6. PICK r \in rows : r.id = x.id /\ r.user = c.user /\ r.value = n
  <2>1. [x EXCEPT !.value = n] \in rows
    BY <1>4 DEF Amended
  <2> HIDE DEF rows, n
  <2>2. PICK r : r = [x EXCEPT !.value = n]
    OBVIOUS
  <2>3. r.id = x.id /\ r.user = x.user /\ r.value = n
    BY <1>1, <2>2 DEF Row
  <2> QED BY <1>4, <2>1, <2>2, <2>3
<1> HIDE DEF rows
<1>7. ASSUME NEW q \in rows, q.user = c.user
      PROVE  q = r
  <2>1. q.id = x.id /\ q.value = n
    BY <1>3, <1>4, <1>5, <1>7
  <2> QED BY <1>3, <1>6, <1>7, <2>1, RowsAreEqual
<1>8. OfUser(rows, c.user) = {r}
  BY <1>6, <1>7 DEF OfUser
<1>9. r.value - c.value = c.old
  BY <1>1, <1>6
<1> QED BY <1>2, <1>6, <1>8, <1>9

LEMMA FirstGrows ==
  ASSUME NEW d, TablesOK(d), NEW c \in Calls,
         c.op = "inc" /\ d.product => OfUser(d.cart, c.user) = {},
         NEW k, k["cart"] = d["cart"] \cup {NewRow(d, c.user, c.value)}
  PROVE  Grown(d, k, c)
<1> SUFFICES ASSUME c.op = "inc", d.product
             PROVE  \E r \in k.cart : /\ OfUser(k.cart, c.user) = {r}
                                      /\ Holds(OfUser(d.cart, c.user), r.value - c.value)
  BY DEF Grown
<1> DEFINE new == NewRow(d, c.user, c.value)
<1>1. new.user = c.user /\ new.value = c.value /\ c.value - c.value = 0
  BY DEF NewRow, Calls
<1>2. k.cart = d.cart \cup {new} /\ OfUser(d.cart, c.user) = {}
  OBVIOUS
<1> HIDE DEF new
<1>3. OfUser(k.cart, c.user) = {new}
  BY <1>1, <1>2 DEF OfUser
<1> QED BY <1>1, <1>2, <1>3 DEF Holds

LEMMA PatientWritingRow ==
  ASSUME StoreInv, WaitInv, NEW w \in Worker, WriteRow(w)
  PROVE  WaitInv'
<1> DEFINE c == req[w]
           t == TableOf(c)
           n == c.old + c.value
<1>1. pc[w] = "write" /\ UNCHANGED req /\ n \in Nat
  BY RowWritten
<1>2. PICK k : /\ Write(w, k, "commit")
               /\ \/ c.row # NoRow /\ k = [db EXCEPT ![t] = Amended(db[t], c.row, n)]
                  \/ c.row = NoRow /\ t # "star" /\ k = Insertion(db, t, NoUser, n)
                  \/ c.row = NoRow /\ t = "star" /\ db.product
                       /\ k = Insertion(db, t, c.user, n)
  BY RowWritten
<1>3. CallOK("write", c) /\ FoundOK(db, "write", c) /\ TablesOK(db) /\ c \in Calls
      /\ PatientOK(db, "write", c) /\ Owned(db)
  BY <1>1 DEF StoreInv, WaitInv
<1>4. c.user \in User /\ c.row \in Nat /\ t \in TableName /\ db \in Tables
      /\ db[t] \subseteq Row /\ c.user # NoUser
  BY <1>3, TableOfType, TableRows, UserAssumption DEF CallOK, Calls, TablesOK
<1>5. t = "star" => c.op = "stars" /\ n <= MaxValue
  BY <1>3, ValueAssumption DEF CallOK, TableOf, Calls
<1>6. t # "star" => c.op \in {"inc", "review"}
  BY <1>3 DEF CallOK, TableOf
<1>7. c.op = "inc" => t = "cart"
  BY DEF TableOf
<1> HIDE DEF n, t
<1>8. CASE c.row # NoRow /\ k = [db EXCEPT ![t] = Amended(db[t], c.row, n)]
  <2>1. k[t] = Amended(db[t], c.row, n)
    BY <1>4, <1>8, SetRows
  <2>2. \A r \in db[t] : r.id = c.row => r.user = c.user
    BY <1>3, <1>8 DEF FoundOK, t
  <2>3. Change(db, k, t, c.user)
    BY <1>1, <1>3, <1>4, <1>5, <1>8, <2>2, AmendingChanges
  <2>4. Owned(k)
    BY <1>1, <1>3, <1>4, <2>1, <2>3, AmendedOwned
  <2>5. c.op = "inc" /\ db.product => /\ Holds(OfUser(db.cart, c.user), c.old)
                                      /\ \E r \in OfUser(db.cart, c.user) : r.id = c.row
    BY <1>3, <1>7 DEF PatientOK, OwnOf, t
  <2>6. Grown(db, k, c)
    <3>1. CASE c.op = "inc"
      <4>1. k["cart"] = Amended(db["cart"], c.row, c.old + c.value)
        BY <1>7, <2>1, <3>1 DEF n
      <4> QED BY <1>3, <2>5, <4>1, AmendedGrows
    <3>2. CASE c.op # "inc"
      BY <3>2 DEF Grown
    <3> QED BY <3>1, <3>2
  <2> QED BY <1>1, <1>2, <2>4, <2>6, PatientWrite
<1>9. CASE c.row = NoRow /\ t # "star" /\ k = Insertion(db, t, NoUser, n)
  <2>1. k[t] = db[t] \cup {NewRow(db, NoUser, n)}
    BY <1>4, <1>9, InsertedRows
  <2>2. Change(db, k, t, c.user)
    BY <1>1, <1>3, <1>4, <1>9, InsertionChanges
  <2>3. ~db.product
    <3>1. db.product => \E r \in OwnOf(db, c) : r.id = c.row
      BY <1>3, <1>6, <1>9 DEF PatientOK
    <3>2. \A r \in OwnOf(db, c) : r \in Row
      BY <1>4 DEF OwnOf, OfUser, t
    <3> QED BY <1>9, <3>1, <3>2 DEF Row, NoRow
  <2>4. Owned(k)
    BY <1>3, <1>4, <2>1, <2>2, <2>3, InsertedOwned
  <2>5. Grown(db, k, c)
    BY <2>3 DEF Grown
  <2> QED BY <1>1, <1>2, <2>4, <2>5, PatientWrite
<1>10. CASE c.row = NoRow /\ t = "star" /\ db.product /\ k = Insertion(db, t, c.user, n)
  <2>1. k[t] = db[t] \cup {NewRow(db, c.user, n)}
    BY <1>4, <1>10, InsertedRows
  <2>2. Change(db, k, t, c.user)
    BY <1>1, <1>3, <1>4, <1>5, <1>10, InsertionChanges
  <2>3. OfUser(db[t], c.user) = {}
    BY <1>3, <1>5, <1>10 DEF PatientOK, OwnOf, t
  <2>4. Owned(k)
    BY <1>3, <1>4, <2>1, <2>2, <2>3, InsertedOwned
  <2>5. Grown(db, k, c)
    BY <1>5, <1>10 DEF Grown
  <2> QED BY <1>1, <1>2, <2>4, <2>5, PatientWrite
<1> QED BY <1>2, <1>8, <1>9, <1>10

LEMMA PatientInsertingRow ==
  ASSUME StoreInv, WaitInv, NEW w \in Worker, InsertRow(w)
  PROVE  WaitInv'
<1> DEFINE c == req[w]
           t == TableOf(c)
<1>1. PICK k : k = Insertion(db, t, c.user, c.value)
  OBVIOUS
<1>2. pc[w] = "insert" /\ UNCHANGED req /\ Write(w, k, "commit")
  BY <1>1, RowInserted
<1>3. CallOK("insert", c) /\ TablesOK(db) /\ c \in Calls /\ PatientOK(db, "insert", c) /\ Owned(db)
  BY <1>2 DEF StoreInv, WaitInv
<1>4. c.user \in User /\ c.user # NoUser /\ c.value \in Nat /\ t \in TableName /\ t # "star"
      /\ db \in Tables
  BY <1>3, UserAssumption DEF CallOK, Calls, TableOf, TableName, TablesOK
<1>5. OfUser(db[t], c.user) = {} /\ (c.op = "inc" => t = "cart")
  BY <1>3 DEF PatientOK, OwnOf, TableOf
<1> HIDE DEF t
<1>6. k[t] = db[t] \cup {NewRow(db, c.user, c.value)}
  BY <1>1, <1>4, InsertedRows
<1>7. Change(db, k, t, c.user)
  BY <1>1, <1>3, <1>4, InsertionChanges
<1>8. Owned(k)
  BY <1>3, <1>4, <1>5, <1>6, <1>7, InsertedOwned
<1>9. Grown(db, k, c)
  <2>1. CASE c.op = "inc"
    <3>1. k["cart"] = db["cart"] \cup {NewRow(db, c.user, c.value)} /\ OfUser(db.cart, c.user) = {}
      BY <1>5, <1>6, <2>1
    <3> QED BY <1>3, <3>1, FirstGrows
  <2>2. CASE c.op # "inc"
    BY <2>2 DEF Grown
  <2> QED BY <2>1, <2>2
<1> QED BY <1>2, <1>8, <1>9, PatientWrite

LEMMA PatientDeletingRows ==
  ASSUME StoreInv, WaitInv, NEW w \in Worker, DeleteRows(w)
  PROVE  WaitInv'
<1>1. PICK k : k = [db EXCEPT !.cart = @ \ OfUser(db.cart, req[w].user)]
  OBVIOUS
<1>2. pc[w] = "clear" /\ UNCHANGED req /\ Write(w, k, "commit")
  BY <1>1, RowsDeleted
<1>3. CallOK("clear", req[w]) /\ TablesOK(db) /\ Owned(db)
  BY <1>2 DEF StoreInv, WaitInv
<1>4. req[w].user \in User /\ req[w].op = "clear" /\ "cart" \in TableName
  BY <1>3 DEF CallOK, TableName
<1>5. Change(db, k, "cart", req[w].user)
  BY <1>1, <1>3, <1>4, DeletingChanges
<1>6. k["cart"] \subseteq db["cart"]
  BY <1>1, <1>3 DEF TablesOK, Tables
<1>7. Owned(k)
  BY <1>3, <1>4, <1>5, <1>6, DeletedOwned
<1>8. Grown(db, k, req[w])
  BY <1>4 DEF Grown
<1> QED BY <1>2, <1>7, <1>8, PatientWrite

-----------------------------------------------------------------------------
(* A user who waits starts a request when every other is answered. *)
LEMMA PatientSubmit ==
  ASSUME StoreInv, WaitInv, Waits, NEW w \in Worker, NEW u \in User, NEW op \in Ops, NEW n \in Nat,
         NEW l \in {"amount", "count", "lookup", "clear", "select"}, Submit(w, u, l, op, n),
         l = "lookup" => op = "stars", l = "count" => op = "review"
  PROVE  WaitInv'
<1>1. PICK c : c = NewCall(op, u, n)
  OBVIOUS
<1>2. pc[w] = "idle" /\ pc' = [pc EXCEPT ![w] = l] /\ UNCHANGED tableVars
      /\ req' = [req EXCEPT ![w] = c] /\ \A v \in Worker : InProgress(v) => req[v].user # u
  BY <1>1 DEF Submit, Accept, Set, InProgress, NewCall
<1>3. c.op = op /\ c.user = u
  BY <1>1, NewCallType
<1>4. writer # w
  BY <1>2, NotHolder
<1>5. PatientOK(db, l, c)
  BY <1>3 DEF PatientOK
<1> QED BY <1>2, <1>3, <1>4, <1>5, PatientQuiet

LEMMA PatientSubmitting ==
  ASSUME StoreInv, WaitInv, Waits, NEW w \in Worker, NEW u \in User,
         \/ \E n \in Value : IncCart(w, u, n) \/ PostReview(w, u, n) \/ PostStars(w, u, n)
         \/ ClearCart(w, u) \/ GetProductList(w, u)
  PROVE  WaitInv'
<1>1. \A n \in Value : n \in Nat
  BY ValueAssumption
<1>2. Ops = {"none", "inc", "review", "stars", "clear", "list"} /\ 0 \in Nat
  BY DEF Ops
<1>3. ASSUME NEW n \in Value, IncCart(w, u, n)
      PROVE  WaitInv'
  BY <1>1, <1>2, <1>3, PatientSubmit DEF IncCart
<1>4. ASSUME NEW n \in Value, PostReview(w, u, n)
      PROVE  WaitInv'
  BY <1>1, <1>2, <1>4, PatientSubmit DEF PostReview
<1>5. ASSUME NEW n \in Value, PostStars(w, u, n)
      PROVE  WaitInv'
  BY <1>1, <1>2, <1>5, PatientSubmit DEF PostStars
<1>6. ASSUME ClearCart(w, u)
      PROVE  WaitInv'
  BY <1>2, <1>6, PatientSubmit DEF ClearCart
<1>7. ASSUME GetProductList(w, u)
      PROVE  WaitInv'
  BY <1>2, <1>7, PatientSubmit DEF GetProductList
<1> QED BY <1>3, <1>4, <1>5, <1>6, <1>7

LEMMA PatientSelectingAmount ==
  ASSUME StoreInv, WaitInv, NEW w \in Worker, SelectAmount(w)
  PROVE  WaitInv'
<1>1. pc[w] = "amount" /\ pc' = [pc EXCEPT ![w] = "count"] /\ UNCHANGED tableVars
  BY DEF SelectAmount, Read, Goto
<1>2. Own(w) = OwnOf(db, req[w]) /\ req[w] \in Calls /\ CallOK("amount", req[w]) /\ Owned(db)
  BY <1>1, OwnRows DEF StoreInv, WaitInv
<1>3. PICK old \in IF Own(w) = {} THEN {0} ELSE {r.value : r \in Own(w)} :
        req' = [req EXCEPT ![w] = [req[w] EXCEPT !.old = old]]
  BY DEF SelectAmount, Set
<1>4. PICK c : c = [req[w] EXCEPT !.old = old]
  OBVIOUS
<1>5. c.op = "inc" /\ c.user = req[w].user /\ c.old = old /\ c.user \in User
  BY <1>2, <1>4 DEF CallOK, Calls
<1>6. OwnOf(db, c) = Own(w)
  BY <1>2, <1>5 DEF OwnOf, TableOf, CallOK
<1>7. Holds(Own(w), old)
  <2>1. CASE Own(w) = {}
    BY <1>3, <2>1 DEF Holds
  <2>2. CASE Own(w) # {}
    <3>1. PICK r \in Own(w) : r.value = old
      BY <1>3, <2>2
    <3>2. \A s \in Own(w) : s = r
      BY <1>2, <1>5, <3>1, UserAssumption, TableOfType DEF Owned, OwnOf, OfUser
    <3> QED BY <3>1, <3>2 DEF Holds
  <2> QED BY <2>1, <2>2
<1>8. PatientOK(db, "count", c)
  BY <1>5, <1>6, <1>7 DEF PatientOK
<1> QED BY <1>1, <1>3, <1>4, <1>5, <1>8, PatientRead

LEMMA PatientCounting ==
  ASSUME StoreInv, WaitInv, NEW w \in Worker, CountRows(w)
  PROVE  WaitInv'
<1>1. PICK l : /\ pc[w] = "count" /\ pc' = [pc EXCEPT ![w] = l] /\ UNCHANGED tableVars /\ req' = req
               /\ l = IF Own(w) = {} THEN "insert" ELSE "lookup"
  BY DEF CountRows, Read, Goto
<1>2. Own(w) = OwnOf(db, req[w]) /\ PatientOK(db, "count", req[w])
  BY <1>1, OwnRows DEF WaitInv
<1>3. PatientOK(db, l, req[w])
  BY <1>1, <1>2 DEF PatientOK
<1>4. req' = [req EXCEPT ![w] = req[w]] /\ l # "commit"
  BY <1>1 DEF StoreInv
<1> QED BY <1>1, <1>3, <1>4, PatientRead

LEMMA PatientLookingUp ==
  ASSUME StoreInv, WaitInv, NEW w \in Worker, LookupRow(w)
  PROVE  WaitInv'
<1>1. pc[w] = "lookup" /\ pc' = [pc EXCEPT ![w] = "write"] /\ UNCHANGED tableVars
  BY DEF LookupRow, Read, Goto
<1>2. Own(w) \subseteq Row /\ req[w] \in Calls /\ Own(w) = OwnOf(db, req[w])
      /\ PatientOK(db, "lookup", req[w])
  BY <1>1, OwnRows DEF WaitInv
<1>3. PICK i \in IF Own(w) = {} THEN {NoRow} ELSE {r.id : r \in Own(w)} :
        req' = [req EXCEPT ![w] = [req[w] EXCEPT !.row = i]]
  BY DEF LookupRow, Set
<1>4. /\ Own(w) # {} => \E r \in Own(w) : r.id = i
      /\ i = NoRow => Own(w) = {}
  BY <1>2, <1>3 DEF Row, NoRow
<1>5. PICK c : c = [req[w] EXCEPT !.row = i]
  OBVIOUS
<1>6. c.op = req[w].op /\ c.user = req[w].user /\ c.old = req[w].old /\ c.row = i
  BY <1>2, <1>5 DEF Calls
<1>7. OwnOf(db, c) = Own(w)
  BY <1>2, <1>6 DEF OwnOf, TableOf
<1>8. PatientOK(db, "write", c)
  BY <1>2, <1>4, <1>6, <1>7 DEF PatientOK
<1> QED BY <1>1, <1>3, <1>5, <1>6, <1>8, PatientRead

LEMMA PatientSelectingStars ==
  ASSUME StoreInv, WaitInv, NEW w \in Worker, SelectStars(w)
  PROVE  WaitInv'
<1>1. pc[w] = "select" /\ req[w] \in Calls /\ CallOK("select", req[w])
  BY DEF SelectStars, StoreInv
<1>2. PICK l \in {"commit", "divide"} : pc' = [pc EXCEPT ![w] = l] /\ UNCHANGED tableVars
  BY DEF SelectStars, Read, Goto
<1>3. PICK c : c = [req[w] EXCEPT !.todo = Seen(w).star] /\ req' = [req EXCEPT ![w] = c]
  BY DEF SelectStars, Set
<1>4. c.op = "list" /\ c.user = req[w].user
  BY <1>1, <1>3 DEF Calls, CallOK
<1>5. PatientOK(db, l, c)
  BY <1>2, <1>4 DEF PatientOK
<1> QED BY <1>1, <1>2, <1>3, <1>4, <1>5, PatientRead

LEMMA PatientFail ==
  ASSUME StoreInv, WaitInv, NEW w \in Worker, pc[w] \notin {"idle", "commit"}, Fail(w), UNCHANGED req
  PROVE  WaitInv'
<1>1. writer # w
  BY NotHolder
<1>2. pc' = [pc EXCEPT ![w] = "answer"] /\ UNCHANGED tableVars
  BY <1>1 DEF Fail, Rollback, tableVars
<1>3. PatientOK(db, "answer", req[w]) /\ req' = [req EXCEPT ![w] = req[w]]
  BY DEF PatientOK, StoreInv
<1> QED BY <1>2, <1>3, PatientRead

LEMMA PatientDividing ==
  ASSUME StoreInv, WaitInv, NEW w \in Worker, Divide(w)
  PROVE  WaitInv'
<1>1. pc[w] = "divide" /\ req[w] \in Calls /\ CallOK("divide", req[w])
  BY DEF Divide, StoreInv
<1>2. CASE Fail(w) /\ UNCHANGED req
  BY <1>1, <1>2, PatientFail
<1>3. CASE \E r \in req[w].todo :
             /\ Set(w, [req[w] EXCEPT !.todo = @ \ {r}, !.sum = @ + r.value, !.length = Length(w)])
             /\ Read(w, IF req[w].todo = {r} THEN "commit" ELSE "divide")
  <2>1. PICK r : /\ Set(w, [req[w] EXCEPT !.todo = @ \ {r}, !.sum = @ + r.value,
                                          !.length = Length(w)])
                 /\ Read(w, IF req[w].todo = {r} THEN "commit" ELSE "divide")
    BY <1>3
  <2>2. PICK l \in {"commit", "divide"} : pc' = [pc EXCEPT ![w] = l] /\ UNCHANGED tableVars
    BY <2>1 DEF Read, Goto
  <2>3. PICK c : /\ c = [req[w] EXCEPT !.todo = @ \ {r}, !.sum = @ + r.value, !.length = Length(w)]
                 /\ req' = [req EXCEPT ![w] = c]
    BY <2>1 DEF Set
  <2>4. c.op = "list" /\ c.user = req[w].user
    BY <1>1, <2>3 DEF Calls, CallOK
  <2>5. PatientOK(db, l, c)
    BY <2>2, <2>4 DEF PatientOK
  <2> QED BY <1>1, <2>2, <2>3, <2>4, <2>5, PatientRead
<1> QED BY <1>2, <1>3 DEF Divide

LEMMA PatientFinishing ==
  ASSUME StoreInv, WaitInv, NEW w \in Worker, Finish(w)
  PROVE  WaitInv'
<1>1. CASE Commit(w) /\ UNCHANGED req
  BY <1>1, PatientCommit
<1>2. CASE LockTimeout(w, {"write", "insert", "clear"}) /\ UNCHANGED req
  <2>1. pc[w] \notin {"idle", "commit"} /\ Fail(w)
    BY <1>2 DEF LockTimeout, InHandler
  <2> QED BY <1>2, <2>1, PatientFail
<1>3. CASE Respond(w) /\ Set(w, NoCall)
  <2>1. pc[w] = "answer" /\ pc' = [pc EXCEPT ![w] = "idle"] /\ UNCHANGED tableVars
        /\ req' = [req EXCEPT ![w] = NoCall]
    BY <1>3 DEF Respond, Set
  <2>2. writer # w /\ PatientOK(db, "idle", NoCall)
    BY <2>1, NotHolder DEF PatientOK
  <2> QED BY <2>1, <2>2, PatientQuiet
<1> QED BY <1>1, <1>2, <1>3 DEF Finish

LEMMA PatientDeletingProduct ==
  ASSUME StoreInv, WaitInv, DeleteProduct
  PROVE  WaitInv'
<1>1. writer = NoWorker /\ UNCHANGED <<writer, pc, req>>
      /\ db' = Cascade(db)
  BY DEF DeleteProduct, Cascade
<1>2. PICK k : k = Cascade(db)
  OBVIOUS
<1>3. TablesOK(db)
  BY DEF StoreInv
<1>4. /\ TablesOK(k) /\ ~k.product /\ k.next = db.next
      /\ \A t \in TableName : \A r \in k[t] : r \in db[t] /\ r.user = NoUser
  BY <1>2, <1>3, CascadeKeeps
<1>5. Owned(k)
  BY <1>4 DEF Owned
<1>6. \A w \in Worker : PatientOK(k, pc[w], req[w])
  BY <1>4, CascadeKeepsPatient DEF StoreInv, CallOK
<1>7. db' = k
  BY <1>1, <1>2
<1> QED BY <1>1, <1>5, <1>6, <1>7, WorkerAssumption DEF WaitInv, InProgress

LEMMA PatientStarting ==
  ASSUME StoreInv, pc = [w \in Worker |-> "idle"], writer = NoWorker, Owned(db)
  PROVE  WaitInv
BY WorkerAssumption DEF WaitInv, InProgress, PatientOK

LEMMA PatientCrashing ==
  ASSUME StoreInv, WaitInv, StoreCrash
  PROVE  WaitInv'
<1>1. pc' = [w \in Worker |-> "idle"] /\ writer' = NoWorker /\ db' = db
  BY DEF StoreCrash, Crash
<1>2. Owned(db') /\ \A w \in Worker : pc'[w] = "idle"
  BY <1>1 DEF WaitInv
<1>3. \A w \in Worker : PatientOK(db', pc'[w], req'[w])
  BY <1>2 DEF PatientOK
<1> QED BY <1>1, <1>2, <1>3, WorkerAssumption DEF WaitInv, InProgress

LEMMA PatientStepping ==
  ASSUME StoreInv, WaitInv, Waits, [StoreNext]_storeVars
  PROVE  WaitInv'
<1>1. ASSUME NEW w \in Worker, RefuseRow(w)
      PROVE  WaitInv'
  <2>1. pc[w] \notin {"idle", "commit"} /\ Fail(w) /\ UNCHANGED req
    BY <1>1 DEF RefuseRow
  <2> QED BY <2>1, PatientFail
<1>2. ASSUME NEW w \in Worker, Handler(w)
      PROVE  WaitInv'
  BY <1>1, <1>2, PatientSelectingAmount, PatientCounting, PatientLookingUp, PatientWritingRow,
     PatientInsertingRow, PatientDeletingRows, PatientSelectingStars, PatientDividing
     DEF Handler
<1>3. CASE UNCHANGED storeVars
  BY <1>3 DEF WaitInv, InProgress, storeVars, serverVars
<1> QED BY <1>2, <1>3, PatientSubmitting, PatientFinishing, PatientDeletingProduct,
           PatientCrashing DEF StoreNext

(* What the handlers of users who wait know of their rows, between whose    *)
(* SELECT, COUNT and UPDATE the other users write theirs.                   *)
THEOREM WaitersAgree == Waits /\ StoreSpec => []WaitInv
<1>1. StoreInit => WaitInv
  <2> SUFFICES ASSUME StoreInit
               PROVE  WaitInv
    OBVIOUS
  <2>1. pc = [w \in Worker |-> "idle"] /\ writer = NoWorker
        /\ db = [cart |-> {}, star |-> {}, review |-> {}, product |-> TRUE, next |-> 1]
    BY DEF StoreInit, ServerInit
  <2>2. Owned(db)
    BY <2>1 DEF Owned, TableName
  <2> QED BY <2>1, <2>2, Starting, PatientStarting
<1>2. Waits /\ StoreInv /\ WaitInv /\ [StoreNext]_storeVars => WaitInv'
  BY PatientStepping
<1>3. CASE Waits
  <2>1. StoreInv /\ WaitInv /\ [StoreNext]_storeVars => WaitInv'
    BY <1>2, <1>3
  <2> QED BY <1>1, <2>1, TablesAgree, PTL DEF StoreSpec
<1>4. CASE ~Waits
  BY <1>4
<1> QED BY <1>3, <1>4

(* For users who wait, no table has two rows of one user, and while the     *)
(* product stays none has a row without user.                               *)
THEOREM RowsStayOwned == StoreSpec => []RowsAreOwned
<1>1. CASE Waits
  <2>1. WaitInv => RowsAreOwned
    BY DEF WaitInv, RowsAreOwned
  <2>2. StoreSpec => []WaitInv
    BY <1>1, WaitersAgree
  <2> QED BY <2>1, <2>2, PTL
<1>2. CASE ~Waits
  <2>1. RowsAreOwned
    BY <1>2 DEF RowsAreOwned
  <2> QED BY <2>1, PTL
<1> QED BY <1>1, <1>2

(* For users who wait, the commit of an inc_cart adds just the amount that  *)
(* was posted, to the one row of the user or to none.                       *)
THEOREM AmountsAddUp == StoreSpec => IncrementsAddUp
<1> DEFINE Adds(w) ==
      Waits /\ Commit(w) /\ req[w].op = "inc" /\ db.product =>
        \E r \in db'.cart : /\ OfUser(db'.cart, req[w].user) = {r}
                            /\ Holds(OfUser(db.cart, req[w].user), r.value - req[w].value)
<1>1. WaitInv /\ [StoreNext]_storeVars => [\A w \in Worker : Adds(w)]_storeVars
  <2> SUFFICES ASSUME WaitInv, NEW w \in Worker, Commit(w), req[w].op = "inc", db.product
               PROVE  \E r \in db'.cart :
                        /\ OfUser(db'.cart, req[w].user) = {r}
                        /\ Holds(OfUser(db.cart, req[w].user), r.value - req[w].value)
    OBVIOUS
  <2>1. writer = w /\ db' = work
    BY DEF WaitInv, Commit, Seen
  <2>2. Grown(db, work, req[w])
    BY <2>1 DEF WaitInv
  <2> QED BY <2>1, <2>2 DEF Grown
<1>2. CASE Waits
  <2>1. StoreSpec => []WaitInv
    BY <1>2, WaitersAgree
  <2> QED BY <1>1, <2>1, PTL DEF StoreSpec, IncrementsAddUp
<1>3. CASE ~Waits
  <2>1. [StoreNext]_storeVars => [\A w \in Worker : Adds(w)]_storeVars
    BY <1>3
  <2> QED BY <2>1, PTL DEF StoreSpec, IncrementsAddUp
<1> QED BY <1>2, <1>3
=============================================================================
