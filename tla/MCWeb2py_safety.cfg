\* Without fairness.
SPECIFICATION WebSpec
CONSTANTS
  w1 = w1 w2 = w2 t1 = t1 t2 = t2
  NoTask = NoTask NoWorker = NoWorker
  Worker <- TwoWorkers
  Task <- TwoTasks
  Child <- Chain
  Repeats <- OnceAndTwice
  Retry <- OneRetry
  Expiring = {t2}
  Cycle = 2
  Settings <- Safe
  Conn = {k1, k2, k3}
  NoConn = NoConn
  Thread = {m1, m2}
  Limits <- BothLimits
  c1 = c1 c2 = c2 c3 = c3
  Call <- ThreeCalls
  Expire = {0, 2}
  MaxClock = 2
  Usages <- CacheUsages
  Browser = {b1}
  Request = {r1, r2, r3}
  NoRequest = NoRequest
  Kept = 2
  Visits <- AllVisits
  Parts = {"scheduler","server","cache","files","table"}
SYMMETRY Symmetry
INVARIANTS OneHolder CollectedIsNew DeathsAreCounted ValuesAreFresh  CountsAreExact AcceptedOnce DbAcceptedOnce LogoutIsFinal DbLogoutIsFinal  DependenciesFirst OneTicker
PROPERTIES SessionsOnlyGrow
