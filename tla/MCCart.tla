------------------------------ MODULE MCCart ------------------------------
(* Small instances of Cart for TLC. *)
EXTENDS Cart, TLC

CONSTANTS w1, w2, u1, u2, p1, p2

OneUser == {u1}
TwoUsers == {u1, u2}
TwoProducts == {p1, p2}
OneProduct == {p1}
TwoWorkers == {w1, w2}

Symmetry == Permutations(TwoWorkers) \cup Permutations(TwoUsers)
              \cup Permutations(TwoProducts)
=============================================================================
