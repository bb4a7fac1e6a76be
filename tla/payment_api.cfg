SPECIFICATION ApiSpec
CONSTANTS
  r1 = r1
  r2 = r2
  k1 = k1
  k2 = k2
  t1 = t1
  NoTxn = NoTxn
  Requests = {r1, r2}
  Keys = {k1, k2}
  Bodies <- AllBodies
  Paths <- AllPaths
  Txns = {t1}
  MaxRuns = 3
  MaxExpiry = 1
  Faults = {"claim", "complete", "release", "crash"}
  ServiceFaults = {"unavailable", "abandon"}
  FeeBPS = 5000
  IntLimit = 100000000
  AuthorizationValidity = 0
VIEW View
SYMMETRY Symmetry
CHECK_DEADLOCK FALSE
INVARIANTS
  BookedOncePerKey
  AnswerTellsBooks
  AnswerTellsOrder
