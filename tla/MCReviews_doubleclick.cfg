\* The Submit button is pressed twice.
SPECIFICATION Spec
CONSTANTS
  w1 = w1 w2 = w2 u1 = u1 u2 = u2 p1 = p1 p2 = p2 c1 = c1 c2 = c2
  Worker <- TwoWorkers
  NoWorker = NoWorker
  User <- OneUser
  Product <- OneProduct
  Content <- TwoContents
  MaxRequests = 2
  CommitMayFail = FALSE
  MayCrash = FALSE
  Overlap = TRUE
INVARIANTS OneReviewPerUser
