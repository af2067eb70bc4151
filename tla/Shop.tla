-------------------------------- MODULE Shop --------------------------------
(* Buying on the store page of hw5_2 (static/js/default_index.js with       *)
(* views/default/index.html): the quantity chosen for a product of the      *)
(* store, the page of the shopping cart with its total, and payment, which  *)
(* empties the cart kept by the server.                                     *)
(*                                                                          *)
(* This is the other half of the page of StorePage, which has the list of   *)
(* products; the two halves share only the products.  The page is one       *)
(* thread, an answer runs the callback of its request, and the server       *)
(* serves each request at one instant (CartSpec).  One user, who waits      *)
(* until everything is answered before clicking what sends a request, in    *)
(* one tab.                                                                 *)
EXTENDS StorePage, FiniteSetsExt

CONSTANTS
  Price,         \* Price[p]: the price of product p
  MaxQuantity,   \* bound: quantities chosen
  MaxCalled      \* bound: requests called by the page

VARIABLES
  desired_quantity,  \* of each product of the store
  shopping_cart,     \* the page shows the cart, and not the store
  popup,             \* the thanks for an order, over the page of the cart
  cart_list,         \* cart_list[p]: the item of product p in the cart shown
  cart_total,        \* the total shown
  calls,             \* requests on their way, and their answers
  called,            \* requests called so far
  cart               \* cart[p]: the quantity of product p the server has stored

choice == <<desired_quantity, shopping_cart, popup>>
shown == <<cart_list, cart_total>>
shopVars == <<choice, shown, calls, called, cart>>

Nothing == [p \in {} |-> 0]

ShopInit ==
  /\ desired_quantity = [p \in Product |-> 1]
  /\ shopping_cart = FALSE /\ popup = FALSE
  /\ cart_list = Nothing /\ cart_total = 0
  /\ calls = {} /\ called = 0
  /\ cart = Nothing

-----------------------------------------------------------------------------
MayCall == calls = {} /\ called < MaxCalled

(* A request: its operation, the product and the quantity posted, and the   *)
(* total the page showed.                                                   *)
CartRequest(op, p, q) ==
  [op |-> op, product |-> p, quantity |-> q, total |-> cart_total,
   served |-> FALSE, list |-> Nothing]
Send(m) == calls' = calls \cup {m} /\ called' = called + 1

GetCart == CartRequest("get", NoProduct, 0)
GoToCart == shopping_cart' = TRUE

Total(list) == MapThenSumSet(LAMBDA p : Price[p] * list[p], DOMAIN list)

Larger(a, b) == IF a < b THEN b ELSE a

IncDesiredQuantity(p, qty) ==
  /\ ~shopping_cart
  /\ desired_quantity' = [desired_quantity EXCEPT ![p] = Larger(1, @ + qty)]
  /\ desired_quantity'[p] <= MaxQuantity
  /\ UNCHANGED <<shopping_cart, popup, shown, calls, called, cart>>

(* The quantity of an earlier purchase of the product is replaced. *)
BuyProduct(p) ==
  /\ ~shopping_cart /\ MayCall
  /\ Send(CartRequest("buy", p, desired_quantity[p]))
  /\ UNCHANGED <<choice, shown, cart>>

(* Mutant of ShowCart: a cart that has been shown is not got again. *)
ShowCartAsKept ==
  /\ ~shopping_cart \/ popup
  /\ MayCall
  /\ GoToCart /\ popup' = FALSE
  /\ IF cart_list = Nothing THEN Send(GetCart) ELSE UNCHANGED <<calls, called>>
  /\ UNCHANGED <<desired_quantity, shown, cart>>

(* The button of the cart, and that of the popup that closes it. *)
ShowCart ==
  /\ ~shopping_cart \/ popup
  /\ MayCall
  /\ GoToCart /\ popup' = FALSE
  /\ Send(GetCart)
  /\ UNCHANGED <<desired_quantity, shown, cart>>

ContinueShopping ==
  /\ shopping_cart /\ ~popup
  /\ shopping_cart' = FALSE
  /\ UNCHANGED <<desired_quantity, popup, shown, calls, called, cart>>

(* The number of an item changes at once, the totals only with the list     *)
(* that is got when the new quantity has been stored.                       *)
IncCartQuantity(p, qty) ==
  LET q == Larger(0, cart_list[p].cart_quantity + qty) IN
  /\ shopping_cart /\ ~popup /\ MayCall
  /\ q <= MaxQuantity
  /\ cart_list' = [cart_list EXCEPT ![p].cart_quantity = q]
  /\ Send(CartRequest("inc", p, q))
  /\ UNCHANGED <<choice, cart_total, cart>>

Pay ==
  /\ shopping_cart /\ ~popup /\ MayCall
  /\ popup' = TRUE
  /\ Send(CartRequest("delete", NoProduct, 0))
  /\ UNCHANGED <<desired_quantity, shopping_cart, shown, cart>>

-----------------------------------------------------------------------------
Stored(m) ==
  [p \in DOMAIN cart \cup {m.product} |->
     IF p = m.product THEN m.quantity ELSE cart[p]]

ServeCart(m) ==
  /\ ~m.served
  /\ \/ /\ m.op \in {"buy", "inc"}
        /\ cart' = Stored(m)
        /\ calls' = (calls \ {m}) \cup {[m EXCEPT !.served = TRUE]}
     \/ /\ m.op = "get"
        /\ calls' = (calls \ {m}) \cup {[m EXCEPT !.served = TRUE, !.list = cart]}
        /\ UNCHANGED cart
     \/ /\ m.op = "delete"
        /\ cart' = Nothing
        /\ calls' = calls \ {m}
  /\ UNCHANGED <<choice, shown, called>>

(* Mutant of CartProcessed: the total is not set to 0 first. *)
CartProcessedOnTop(list) ==
  /\ cart_list' = [p \in DOMAIN list |-> [quantity |-> list[p], cart_quantity |-> list[p]]]
  /\ cart_total' = cart_total + Total(list)

(* process_cart *)
CartProcessed(list) ==
  /\ cart_list' = [p \in DOMAIN list |-> [quantity |-> list[p], cart_quantity |-> list[p]]]
  /\ cart_total' = Total(list)

(* The callbacks; that of buy_product shows a mark for two seconds. *)
ReceiveCart(m) ==
  /\ m.served
  /\ \/ /\ m.op = "buy"
        /\ calls' = calls \ {m}
        /\ UNCHANGED <<shopping_cart, shown, called>>
     \/ /\ m.op = "inc"
        /\ GoToCart
        /\ calls' = (calls \ {m}) \cup {GetCart}
        /\ called' = called + 1
        /\ UNCHANGED shown
     \/ /\ m.op = "get"
        /\ CartProcessed(m.list)
        /\ calls' = calls \ {m}
        /\ UNCHANGED <<shopping_cart, called>>
  /\ UNCHANGED <<desired_quantity, popup, cart>>

ShopDone == called >= MaxCalled /\ calls = {} /\ UNCHANGED shopVars

ShopNext ==
  \/ \E p \in Product : BuyProduct(p) \/ \E qty \in {1, -1} : IncDesiredQuantity(p, qty)
  \/ \E p \in DOMAIN cart_list, qty \in {1, -1} : IncCartQuantity(p, qty)
  \/ ShowCart \/ ContinueShopping \/ Pay
  \/ \E m \in calls : ServeCart(m) \/ ReceiveCart(m)
  \/ ShopDone

ShopSpec == ShopInit /\ [][ShopNext]_shopVars

-----------------------------------------------------------------------------
(* The cart that pay empties is the one whose total the page shows and      *)
(* thanks for, whatever was bought, changed and paid before.                *)
PaidIsShown ==
  \A m \in calls : m.op = "delete" => m.total = Total(cart)

(* When everything is answered, the page of the cart shows the quantities   *)
(* the server has stored, the changed ones among them.                      *)
CartIsShown ==
  shopping_cart /\ ~popup /\ calls = {}
    => [p \in DOMAIN cart_list |-> cart_list[p].cart_quantity] = cart
=============================================================================
