\* Users who wait for the answer of one request before making the next.
SPECIFICATION FairSpec
CONSTANTS
  w1 = w1 w2 = w2 u1 = u1 u2 = u2 p1 = p1 p2 = p2
  Worker <- TwoWorkers
  NoWorker = NoWorker
  User <- TwoUsers
  Product <- TwoProducts
  Quantity = {0, 2}
  MaxRequests = 3
  CommitMayFail = FALSE
  MayCrash = TRUE
  Overlap = FALSE
  AdminDeletes = TRUE
INVARIANTS TypeOK UniqueRows
PROPERTIES OthersUntouched ImplementsCartSpec EveryRequestEnds
