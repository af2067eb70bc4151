---------------------------- MODULE MCStorePage ----------------------------
(* Small instances of StorePage for TLC: two products, a search string that *)
(* finds both and one that finds the second.                                *)
EXTENDS StorePage, TLC

CONSTANTS p1, p2, a, b, s0, s2

TwoProducts == {p1, p2}
TwoTexts == {a, b}
OneText == {a}
Strings == {s0, s2}
Found == [s \in Strings |-> IF s = s0 THEN <<p1, p2>> ELSE <<p2>>]
Unrated == [p \in TwoProducts |-> 0]
OneRated == [p \in TwoProducts |-> IF p = p1 THEN 4 ELSE 0]
=============================================================================
