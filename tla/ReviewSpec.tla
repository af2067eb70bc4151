---------------------------- MODULE ReviewSpec ----------------------------
(* What the reviews of the store promise to users who wait for the answer   *)
(* of one request before making the next: one review per user and product,  *)
(* and requests that take effect at one instant each.  A list is what is    *)
(* stored at the instant of its request, of the users who have rated.       *)
CONSTANTS User, Product, Content

VARIABLES
  review,  \* review[u][p]: {c}, or {} when u has not reviewed p
  star,    \* the pairs of a user and a product this user has rated
  phase,   \* phase[u]: where the request of u stands
  asked,   \* asked[u]: the request, when there is one
  result,  \* result[u]: the list u is about to receive
  reply    \* reply[u]: what u has been told of the last request

reviewVars == <<review, star, phase, asked, result, reply>>

Request == [op : {"add"}, product : Product, content : Content]
             \cup [op : {"list"}, product : Product]
NoRequest == [op |-> "none"]
NoReply == [status |-> "none", list |-> {}]

Init ==
  /\ review = [u \in User |-> [p \in Product |-> {}]]
  /\ star = {}
  /\ phase = [u \in User |-> "idle"]
  /\ asked = [u \in User |-> NoRequest]
  /\ result = [u \in User |-> {}]
  /\ reply = [u \in User |-> NoReply]

Ask(u) ==
  /\ phase[u] = "idle"
  /\ phase' = [phase EXCEPT ![u] = "asked"]
  /\ \E r \in Request : asked' = [asked EXCEPT ![u] = r]
  /\ reply' = [reply EXCEPT ![u] = NoReply]
  /\ UNCHANGED <<review, star, result>>

ListOf(p) ==
  UNION {{[user |-> u, content |-> c] : c \in review[u][p]} :
           u \in {v \in User : <<v, p>> \in star}}

TakeEffect(u) ==
  /\ phase[u] = "asked"
  /\ phase' = [phase EXCEPT ![u] = "done"]
  /\ \/ /\ asked[u].op = "add"
        /\ review' = [review EXCEPT ![u][asked[u].product] = {asked[u].content}]
        /\ UNCHANGED result
     \/ /\ asked[u].op = "list"
        /\ result' = [result EXCEPT ![u] = ListOf(asked[u].product)]
        /\ UNCHANGED review
  /\ UNCHANGED <<star, asked, reply>>

EndWith(u, answer) ==
  /\ phase' = [phase EXCEPT ![u] = "idle"]
  /\ asked' = [asked EXCEPT ![u] = NoRequest]
  /\ result' = [result EXCEPT ![u] = {}]
  /\ reply' = [reply EXCEPT ![u] = answer]
  /\ UNCHANGED <<review, star>>

AnswerOk(u) ==
  phase[u] = "done" /\ EndWith(u, [status |-> "ok", list |-> result[u]])

AnswerError(u) ==
  phase[u] = "asked" /\ EndWith(u, [status |-> "error", list |-> {}])

Rate(u, p) ==
  /\ star' = star \cup {<<u, p>>}
  /\ UNCHANGED <<review, phase, asked, result, reply>>

(* The server dies: the users who were waiting get no answer. *)
LoseAnswers ==
  /\ phase' = [u \in User |-> "idle"]
  /\ asked' = [u \in User |-> NoRequest]
  /\ result' = [u \in User |-> {}]
  /\ reply' = [u \in User |-> IF phase[u] = "idle" THEN reply[u]
                              ELSE [status |-> "lost", list |-> {}]]
  /\ UNCHANGED <<review, star>>

Next ==
  \/ \E u \in User : Ask(u) \/ TakeEffect(u) \/ AnswerOk(u) \/ AnswerError(u)
  \/ \E u \in User, p \in Product : Rate(u, p)
  \/ LoseAnswers

Spec == Init /\ [][Next]_reviewVars
=============================================================================
