----------------------------- MODULE MCRatings -----------------------------
(* Small instances of Ratings for TLC. *)
EXTENDS Ratings, TLC

CONSTANTS w1, w2, w3, u1, u2

OneUser == {u1}
TwoUsers == {u1, u2}
TwoWorkers == {w1, w2}
ThreeWorkers == {w1, w2, w3}

Symmetry == Permutations(TwoWorkers) \cup Permutations(TwoUsers)
=============================================================================
