------------------------------- MODULE MCSite -------------------------------
(* Small instances of the two stores and of their page for TLC, one part at *)
(* a time.  A behaviour is one of the part it starts with; the variables of *)
(* the others stay as they are.  The page of hw5_2, for a user who waits    *)
(* for answers, and the store of hw5_1 are the modules this one extends.    *)
EXTENDS Shop, Store51, TLC

CONSTANTS
  p1, p2, a, b, s0, s2,                     \* of the page
  q1, q2,                                   \* of the reviews
  HastyClicks,                              \* bound
  Parts

VARIABLES
  part,
  hSearch, hList, hDisplayed, hReviews, hContent, hNet, hSent, hReview, hStars,
  rDb, rWork, rWriter, rPc, rStatus, rAccepted, rReq, rReply

hastyVars == <<hSearch, hList, hDisplayed, hReviews, hContent, hNet, hSent, hReview, hStars>>
reviewVars == <<rDb, rWork, rWriter, rPc, rStatus, rAccepted, rReq, rReply>>
siteVars == <<vars, part, hastyVars, shopVars, reviewVars, storeVars>>

TwoProducts == {p1, p2}
Texts == {a}
Strings == {s0, s2}
Found == [s \in Strings |-> IF s = s0 THEN <<p1, p2>> ELSE <<p2>>]
OneRated == [p \in TwoProducts |-> IF p = p1 THEN 4 ELSE 0]
Prices == [p \in TwoProducts |-> IF p = p1 THEN 1 ELSE 3]
Symmetry == Permutations(Worker) \cup Permutations(User)

-----------------------------------------------------------------------------
(* A user who clicks without waiting, and requests that fail. *)
Hasty == INSTANCE StorePage WITH
  MaxSent <- HastyClicks, Patient <- FALSE, MayLose <- TRUE,
  search_string <- hSearch, product_list <- hList, product_displayed <- hDisplayed,
  review_list <- hReviews, review_content <- hContent, net <- hNet, sent <- hSent,
  myReview <- hReview, myStars <- hStars

Reviewing == INSTANCE Reviews WITH
  Product <- {q1}, Content <- {q1, q2}, Overlap <- FALSE,
  MaxRequests <- MaxRequests + 1,
  db <- rDb, work <- rWork, writer <- rWriter, pc <- rPc, status <- rStatus,
  accepted <- rAccepted, req <- rReq, reply <- rReply

-----------------------------------------------------------------------------
SiteInit ==
  /\ part \in Parts
  /\ Init /\ Hasty!Init /\ ShopInit
  /\ Reviewing!Init /\ StoreInit

SiteNext ==
  /\ UNCHANGED part
  /\ IF part = "page" THEN Next ELSE UNCHANGED vars
  /\ IF part = "hasty" THEN Hasty!Next ELSE UNCHANGED hastyVars
  /\ IF part = "shop" THEN ShopNext ELSE UNCHANGED shopVars
  /\ IF part = "reviews" THEN Reviewing!Next ELSE UNCHANGED reviewVars
  /\ IF part = "store" THEN StoreNext ELSE UNCHANGED storeVars

SiteSpec == SiteInit /\ [][SiteNext]_siteVars

-----------------------------------------------------------------------------
(* The properties of the parts, by the names they have there. *)
OnlyDisplayedIsOpenInHaste == Hasty!OnlyDisplayedIsOpen

ImplementsReviewSpec == Reviewing!ImplementsReviewSpec
=============================================================================
