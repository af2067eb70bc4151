----------------------------- MODULE StorePage -----------------------------
(* The store page of hw5_2 (static/js/default_index.js with                 *)
(* views/default/index.html): the list of products and its search, the      *)
(* review section of a product with its form, and the stars.                *)
(*                                                                          *)
(* The page is one thread.  A click runs a function that changes the page   *)
(* and sends requests; an answer runs the callback of its request.  Answers *)
(* come in any order, and a request that fails has no callback.  The server *)
(* answers each request at one instant (ReviewSpec); its catalogue stands   *)
(* still, and one user, who is signed in, changes reviews and stars.        *)
EXTENDS Integers, Sequences

CONSTANTS
  Product, NoProduct,
  Text, NoText,      \* what can be typed into the form of a review
  NoAnswer, Ack,     \* of a request on its way, and an answer without data
  SearchStrings,     \* what can be typed into the search bar
  Everything,        \* the empty search string
  Result,            \* Result[s]: the products whose names begin with s
  Stars,             \* the ratings the user gives
  OthersRating,      \* the rating of each product by other users, 0 if none
  MaxSent,       \* bound: clicks that send a request
  Patient,           \* BOOLEAN: does the user wait for every answer
  MayLose            \* BOOLEAN: may requests fail

ASSUME TextAssumption == NoText \notin Text /\ NoProduct \notin Product
ASSUME SearchAssumption ==
  Everything \in SearchStrings /\ Result \in [SearchStrings -> Seq(Product)]
ASSUME RatingAssumption ==
  Stars \subseteq 1..5 /\ OthersRating \in [Product -> 0..5]

VARIABLES
  search_string, product_list,
  product_displayed,  \* an index of product_list, or null
  review_list,        \* the product it is for, and the review of the user in it
  review_content,     \* the text in the form
  net,                \* requests on their way, and their answers
  sent,               \* requests sent so far
  myReview, myStars   \* what the server has stored for the user

page == <<search_string, product_list, product_displayed, review_list,
          review_content>>
server == <<myReview, myStars>>
vars == <<page, net, sent, server>>

(* Indices start at 1 here. *)
null == 0

Item == [id : Product, rating : 0..5, opened : BOOLEAN]
ReviewList == [of : Product \cup {NoProduct}, mine : Text \cup {NoText}]

(* A request of the page: its operation, its product, its argument. *)
Request(op, p, arg) ==
  [op |-> op, product |-> p, arg |-> arg, n |-> sent, answer |-> NoAnswer]
Ask(op, p, arg) ==
  net' = net \cup {Request(op, p, arg)} /\ sent' = sent + 1
Quiet == net = {}
MayClick == sent < MaxSent /\ (Patient => Quiet)

(* self.get_products() is called when the page is loaded. *)
Init ==
  /\ search_string = Everything
  /\ product_list = <<>>
  /\ product_displayed = null
  /\ review_list = [of |-> NoProduct, mine |-> NoText]
  /\ review_content = NoText
  /\ sent = 1
  /\ net = {[op |-> "list", product |-> NoProduct, arg |-> Everything, n |-> 0,
             answer |-> NoAnswer]}
  /\ myReview = [p \in Product |-> NoText]
  /\ myStars = [p \in Product |-> 0]

-----------------------------------------------------------------------------
(* Mutant of DoSearch: the handler runs before v-model has stored s. *)
DoSearchOfOld(s) ==
  /\ MayClick /\ s # search_string
  /\ search_string' = s
  /\ Ask("search", NoProduct, search_string)
  /\ UNCHANGED <<product_list, product_displayed, review_list, review_content,
                 server>>

(* do_search runs on every input. *)
DoSearch(s) ==
  /\ MayClick /\ s # search_string
  /\ search_string' = s
  /\ Ask("search", NoProduct, s)
  /\ UNCHANGED <<product_list, product_displayed, review_list, review_content,
                 server>>

(* process_products *)
Processed(answer) ==
  [i \in DOMAIN answer |-> [id |-> answer[i].id, rating |-> answer[i].rating,
                            opened |-> FALSE]]

SetOpened(i, opened) == [product_list EXCEPT ![i].opened = opened]

(* Mutant of CloseDisplayed: the section is left open. *)
ForgetDisplayed == product_list

(* close_reviews, which does not look at its argument. *)
CloseDisplayed ==
  IF product_displayed = null THEN product_list
  ELSE SetOpened(product_displayed, FALSE)

(* Mutant of OpenReviews: the reviews of the product displayed so far. *)
OpenReviewsOfDisplayed(i) ==
  /\ MayClick /\ ~product_list[i].opened
  /\ Ask("reviews", IF product_displayed \in DOMAIN product_list
                    THEN product_list[product_displayed].id
                    ELSE product_list[i].id, NoText)
  /\ product_displayed' = i
  /\ product_list' = [j \in DOMAIN product_list |->
                        [product_list[j] EXCEPT !.opened = (j = i)]]
  /\ UNCHANGED <<search_string, review_list, review_content, server>>

(* The Reviews button of a closed item.  When product_displayed points      *)
(* behind the end of a list that has become shorter, close_reviews raises a *)
(* TypeError after the request has been sent.                               *)
OpenReviews(i) ==
  /\ MayClick /\ ~product_list[i].opened
  /\ Ask("reviews", product_list[i].id, NoText)
  /\ \/ /\ product_displayed \in DOMAIN product_list \cup {null}
        /\ product_list' = [CloseDisplayed EXCEPT ![i].opened = TRUE]
        /\ product_displayed' = i
     \/ /\ product_displayed \notin DOMAIN product_list \cup {null}
        /\ UNCHANGED <<product_list, product_displayed>>
  /\ UNCHANGED <<search_string, review_list, review_content, server>>

(* The Close Reviews button of an opened item. *)
CloseReviews(i) ==
  /\ product_list[i].opened
  /\ product_displayed # null
  /\ product_list' = CloseDisplayed
  /\ product_displayed' = null
  /\ UNCHANGED <<search_string, review_list, review_content, net, sent, server>>

(* The user types into the form of an opened item, or empties it. *)
Type(i, text) ==
  /\ product_list[i].opened
  /\ review_content # text
  /\ review_content' = text
  /\ UNCHANGED <<search_string, product_list, product_displayed, review_list,
                 net, sent, server>>

(* add_review; an empty review is not sent. *)
AddReview(i) ==
  /\ MayClick /\ product_list[i].opened
  /\ review_content # NoText
  /\ Ask("add", product_list[i].id, review_content)
  /\ UNCHANGED <<page, server>>

(* set_stars shows the user's stars at once and does not wait for an answer. *)
SetStars(i, s) ==
  /\ MayClick /\ product_list[i].opened
  /\ product_list' = [product_list EXCEPT ![i].rating = s]
  /\ Ask("stars", product_list[i].id, s)
  /\ UNCHANGED <<search_string, product_displayed, review_list, review_content,
                 server>>

-----------------------------------------------------------------------------
(* The server.  Ratings are averages of integers (Ratings); a review is     *)
(* listed when its author has rated the product (Reviews).                  *)

RatingOf(p) ==
  IF myStars[p] = 0 THEN OthersRating[p]
  ELSE IF OthersRating[p] = 0 THEN myStars[p]
  ELSE (myStars[p] + OthersRating[p]) \div 2

ProductList(ids) ==
  [i \in DOMAIN ids |-> [id |-> ids[i], rating |-> RatingOf(ids[i])]]

AnswerWith(m, answer) == net' = (net \ {m}) \cup {[m EXCEPT !.answer = answer]}

Serve(m) ==
  /\ m.answer = NoAnswer
  /\ \/ /\ m.op \in {"list", "search"}
        /\ AnswerWith(m, ProductList(Result[m.arg]))
        /\ UNCHANGED server
     \/ /\ m.op = "reviews"
        /\ AnswerWith(m, IF myStars[m.product] = 0 THEN NoText
                         ELSE myReview[m.product])
        /\ UNCHANGED server
     \/ /\ m.op = "email"
        /\ AnswerWith(m, Ack)
        /\ UNCHANGED server
     \/ /\ m.op = "add"
        /\ myReview' = [myReview EXCEPT ![m.product] = m.arg]
        /\ AnswerWith(m, Ack)
        /\ UNCHANGED myStars
     \/ /\ m.op = "stars"
        /\ myStars' = [myStars EXCEPT ![m.product] = m.arg]
        /\ net' = net \ {m}
        /\ UNCHANGED myReview
  /\ UNCHANGED <<page, sent>>

(* The server answers with an error, or the connection is lost, before or   *)
(* after the request has had its effect.                                    *)
Lose(m) ==
  /\ MayLose
  /\ net' = net \ {m}
  /\ UNCHANGED <<page, sent, server>>

-----------------------------------------------------------------------------
(* The callbacks. *)
ReceiveProducts(m) ==
  /\ m.op \in {"list", "search"}
  /\ product_list' = Processed(m.answer)
  /\ net' = net \ {m}
  /\ UNCHANGED <<search_string, product_displayed, review_list, review_content,
                 sent>>

(* Mutant of ReceiveReviews: get_user_email is not asked again when the     *)
(* list is for the same product as the one before.                          *)
ReceiveReviewsOnce(m) ==
  /\ m.op = "reviews"
  /\ review_list' = [of |-> m.product, mine |-> m.answer]
  /\ \/ /\ review_list.of # m.product
        /\ net' = (net \ {m}) \cup {Request("email", NoProduct, NoText)}
        /\ sent' = sent + 1
     \/ /\ review_list.of = m.product
        /\ net' = net \ {m}
        /\ UNCHANGED sent
  /\ UNCHANGED <<search_string, product_list, product_displayed, review_content>>

(* The first callback of get_reviews; the second is that of get_user_email. *)
ReceiveReviews(m) ==
  /\ m.op = "reviews"
  /\ review_list' = [of |-> m.product, mine |-> m.answer]
  /\ net' = (net \ {m}) \cup {Request("email", NoProduct, NoText)}
  /\ sent' = sent + 1
  /\ UNCHANGED <<search_string, product_list, product_displayed, review_content>>

(* The user's own review, if there is one, goes from the list to the form;  *)
(* if there is none, the form keeps what it has.                            *)
ReceiveEmail(m) ==
  /\ m.op = "email"
  /\ \/ /\ review_list.mine # NoText
        /\ review_content' = review_list.mine
        /\ review_list' = [review_list EXCEPT !.mine = NoText]
     \/ /\ review_list.mine = NoText
        /\ UNCHANGED <<review_content, review_list>>
  /\ net' = net \ {m}
  /\ UNCHANGED <<search_string, product_list, product_displayed, sent>>

ReceiveAdded(m) ==
  /\ m.op = "add"
  /\ review_content' = NoText
  /\ net' = net \ {m}
  /\ UNCHANGED <<search_string, product_list, product_displayed, review_list, sent>>

Receive(m) ==
  /\ m.answer # NoAnswer
  /\ ReceiveProducts(m) \/ ReceiveReviews(m) \/ ReceiveEmail(m) \/ ReceiveAdded(m)
  /\ UNCHANGED server

Click ==
  \/ \E s \in SearchStrings : DoSearch(s)
  \/ \E i \in DOMAIN product_list :
       \/ OpenReviews(i) \/ CloseReviews(i)
       \/ \E text \in Text \cup {NoText} : Type(i, text)
       \/ AddReview(i)
       \/ \E s \in Stars : SetStars(i, s)

(* The bound is reached and everything is answered. *)
Done == sent >= MaxSent /\ Quiet /\ UNCHANGED vars

Next == Click \/ (\E m \in net : Serve(m) \/ Lose(m) \/ Receive(m)) \/ Done

Spec == Init /\ [][Next]_vars

-----------------------------------------------------------------------------
TypeOK ==
  /\ search_string \in SearchStrings
  /\ product_list \in Seq(Item)
  /\ product_displayed \in Nat
  /\ review_list \in ReviewList
  /\ review_content \in Text \cup {NoText}
  /\ sent \in Nat
  /\ \A m \in net : m.n < sent /\ m.product \in Product \cup {NoProduct}
  /\ myReview \in [Product -> Text \cup {NoText}]
  /\ myStars \in [Product -> 0..5]

(* "If theres a product already displayed, close it": at most the item      *)
(* product_displayed points to is open, although the list may have been     *)
(* replaced since.                                                          *)
OnlyDisplayedIsOpen ==
  \A i \in DOMAIN product_list : product_list[i].opened => product_displayed = i

(* The review of the user is never left among those of the others: as long  *)
(* as it is there, an answer is on its way that takes it out, whatever the  *)
(* order of the answers of several get_reviews.                             *)
OwnReviewApart ==
  review_list.mine # NoText => \E m \in net : m.op = "email"

(* Once everything is answered, the reviews under an opened product are     *)
(* reviews of this product.                                                 *)
ShownReviewsBelong ==
  Quiet => \A i \in DOMAIN product_list :
             product_list[i].opened => review_list.of = product_list[i].id

(* Once everything is answered, the list shows what the search bar asks for. *)
ListIsSearched ==
  Quiet => [i \in DOMAIN product_list |-> product_list[i].id]
             = Result[search_string]

(* The Reviews button of a product expands this product. *)
ClickExpands ==
  [][\A i \in DOMAIN product_list :
       OpenReviews(i) => product_list'[i].opened]_vars
=============================================================================
