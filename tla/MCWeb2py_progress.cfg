\* With fairness.
SPECIFICATION FairWebSpec
CONSTANTS
  w1 = w1 w2 = w2 t1 = t1 t2 = t2
  NoTask = NoTask NoWorker = NoWorker
  Worker <- TwoWorkers
  Task <- TwoTasks
  Child <- Chain
  Repeats <- OnceAndTwice
  Retry <- OneRetry
  Expiring = {t2}
  Cycle = 2
  Settings <- Live
  Conn = {k1, k2}
  NoConn = NoConn
  Thread = {m1, m2}
  Limits <- BothLimits
  c1 = c1 c2 = c2 c3 = c3
  Call <- ThreeCalls
  Expire = {0, 2}
  MaxClock = 2
  Usages <- CacheUsages
  Browser = {b1}
  Request = {r1}
  NoRequest = NoRequest
  Kept = 2
  Visits <- AllVisits
  Parts = {"scheduler", "server"}
 
PROPERTIES TasksEnd  ConnectionsAreTaken 
