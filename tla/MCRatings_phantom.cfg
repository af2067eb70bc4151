\* A product is deleted while a user rates it.
SPECIFICATION Spec
CONSTANTS
  w1 = w1 w2 = w2 w3 = w3 u1 = u1 u2 = u2
  Worker <- TwoWorkers
  NoWorker = NoWorker
  User <- OneUser
  Stars = {1, 4}
  Initially = 1
  Typed = {}
  MaxRequests = 2
  CommitMayFail = FALSE
  MayCrash = FALSE
  Overlap = FALSE
  GridEdits = FALSE
  AdminDeletes = TRUE
INVARIANTS CatalogueIsNice
