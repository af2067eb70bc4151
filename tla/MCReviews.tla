----------------------------- MODULE MCReviews -----------------------------
(* Small instances of Reviews for TLC. *)
EXTENDS Reviews, TLC

CONSTANTS w1, w2, u1, u2, p1, p2, c1, c2

OneUser == {u1}
TwoUsers == {u1, u2}
OneProduct == {p1}
TwoProducts == {p1, p2}
TwoContents == {c1, c2}
TwoWorkers == {w1, w2}
=============================================================================
