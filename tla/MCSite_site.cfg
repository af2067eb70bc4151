\* The pages and the servers of the two stores, without fairness.
SPECIFICATION SiteSpec
CONSTANTS
  p1 = p1 p2 = p2 a = a b = b s0 = s0 s2 = s2
  q1 = q1 q2 = q2
  Product <- TwoProducts
  NoProduct = NoProduct
  Text <- Texts
  NoText = NoText
  NoAnswer = NoAnswer
  Ack = Ack
  SearchStrings <- Strings
  Everything = s0
  Result <- Found
  Stars = {2}
  OthersRating <- OneRated
  MaxSent = 9
  Patient = TRUE
  MayLose = FALSE
  Worker = {w1, w2}
  NoWorker = NoWorker
  User = {u1, u2}
  NoUser = NoUser
  HastyClicks = 4
  Value = {1, 2}
  MaxValue = 2
  Waits = TRUE
  GridDeletes = TRUE
  MaxRequests = 3
  CommitMayFail = FALSE
  MayCrash = TRUE
  MaxCalled = 9
  Price <- Prices
  MaxQuantity = 2
  Parts = {"page", "hasty", "shop", "reviews", "store"}
SYMMETRY Symmetry
INVARIANTS
  OnlyDisplayedIsOpen OnlyDisplayedIsOpenInHaste 
   
   
  RowsAreOwned AveragesAreInRange
PROPERTIES
  ImplementsReviewSpec IncrementsAddUp
