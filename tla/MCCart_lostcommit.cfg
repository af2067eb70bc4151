\* The database refuses a commit.
SPECIFICATION Spec
CONSTANTS
  w1 = w1 w2 = w2 u1 = u1 u2 = u2 p1 = p1 p2 = p2
  Worker <- TwoWorkers
  NoWorker = NoWorker
  User <- OneUser
  Product <- OneProduct
  Quantity = {2}
  MaxRequests = 2
  CommitMayFail = TRUE
  MayCrash = FALSE
  Overlap = FALSE
  AdminDeletes = FALSE
PROPERTIES AckedIsStored
