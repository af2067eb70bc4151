----------------------------- MODULE CartSpec -----------------------------
(* What the shopping cart of the store promises to a user who waits for     *)
(* the answer of one request before making the next: every cart is a map    *)
(* from products to quantities, every request takes effect at one instant   *)
(* between its submission and its answer, it has taken effect when the      *)
(* answer says "ok" and has not when the answer says "error".               *)
CONSTANTS User, Product, Quantity

(* The contents of a cart: {q} for a product in it, {} for any other. *)
Empty == [p \in Product |-> {}]

VARIABLES
  cart,   \* cart[u]: the contents of the cart of u, as Empty is
  phase,  \* phase[u]: where the request of u stands
  asked,  \* asked[u]: the request, when there is one
  reply   \* reply[u]: what u has been told of the last request

cartVars == <<cart, phase, asked, reply>>

Request == [op : {"add"}, product : Product, quantity : Quantity]
             \cup [op : {"list", "clear"}]
NoRequest == [op |-> "none"]
NoReply == [status |-> "none", list |-> Empty]

Init ==
  /\ cart = [u \in User |-> Empty]
  /\ phase = [u \in User |-> "idle"]
  /\ asked = [u \in User |-> NoRequest]
  /\ reply = [u \in User |-> NoReply]

Ask(u) ==
  /\ phase[u] = "idle"
  /\ phase' = [phase EXCEPT ![u] = "asked"]
  /\ \E r \in Request : asked' = [asked EXCEPT ![u] = r]
  /\ reply' = [reply EXCEPT ![u] = NoReply]
  /\ UNCHANGED cart

Effect(r, contents) ==
  CASE r.op = "add"   -> [contents EXCEPT ![r.product] = {r.quantity}]
    [] r.op = "clear" -> Empty
    [] r.op = "list"  -> contents

TakeEffect(u) ==
  /\ phase[u] = "asked"
  /\ phase' = [phase EXCEPT ![u] = "done"]
  /\ cart' = [cart EXCEPT ![u] = Effect(asked[u], @)]
  /\ UNCHANGED <<asked, reply>>

EndWith(u, answer) ==
  /\ phase' = [phase EXCEPT ![u] = "idle"]
  /\ asked' = [asked EXCEPT ![u] = NoRequest]
  /\ reply' = [reply EXCEPT ![u] = answer]
  /\ UNCHANGED cart

AnswerOk(u) ==
  /\ phase[u] = "done"
  /\ EndWith(u, [status |-> "ok",
                 list |-> IF asked[u].op = "list" THEN cart[u] ELSE Empty])

AnswerError(u) ==
  /\ phase[u] = "asked"
  /\ EndWith(u, [status |-> "error", list |-> Empty])

(* The server dies: the users who were waiting get no answer, and cannot    *)
(* tell whether their request has taken effect.                             *)
LoseAnswers ==
  /\ phase' = [u \in User |-> "idle"]
  /\ asked' = [u \in User |-> NoRequest]
  /\ reply' = [u \in User |-> IF phase[u] = "idle" THEN reply[u]
                              ELSE [status |-> "lost", list |-> Empty]]
  /\ UNCHANGED cart

Next ==
  \/ \E u \in User : Ask(u) \/ TakeEffect(u) \/ AnswerOk(u) \/ AnswerError(u)
  \/ LoseAnswers

Spec == Init /\ [][Next]_cartVars
=============================================================================
