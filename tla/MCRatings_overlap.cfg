\* Overlapping set_stars, commits the database refuses, crashes, products
\* deleted by the administrator; no edit in the grid.
SPECIFICATION FairSpec
CONSTANTS
  w1 = w1 w2 = w2 w3 = w3 u1 = u1 u2 = u2
  Worker <- TwoWorkers
  NoWorker = NoWorker
  User <- TwoUsers
  Stars = {1, 4}
  Initially = 1
  Typed = {}
  MaxRequests = 3
  CommitMayFail = TRUE
  MayCrash = TRUE
  Overlap = TRUE
  GridEdits = FALSE
  AdminDeletes = TRUE
INVARIANTS RatingIsAverage 
 
