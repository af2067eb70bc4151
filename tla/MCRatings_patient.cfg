\* Ratings edited in the grid while users who wait for answers set stars.
SPECIFICATION Spec
CONSTANTS
  w1 = w1 w2 = w2 w3 = w3 u1 = u1 u2 = u2
  Worker <- TwoWorkers
  NoWorker = NoWorker
  User <- TwoUsers
  Stars = {1, 4}
  Initially = 1
  Typed = {}
  MaxRequests = 3
  CommitMayFail = FALSE
  MayCrash = TRUE
  Overlap = FALSE
  GridEdits = TRUE
  AdminDeletes = TRUE
INVARIANTS OneStarPerUser
PROPERTIES RatingFollowsStars
