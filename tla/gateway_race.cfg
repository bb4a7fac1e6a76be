SPECIFICATION FairSpec
CONSTANTS
  j1 = j1
  j2 = j2
  r1 = r1
  r2 = r2
  t1 = t1
  t2 = t2
  NoTxn = NoTxn
  Txns = {t1}
  Requests = {r1, r2}
  Jobs = {j1}
  Amounts = {2}
  Asked = {0, 1}
  MaxRequests = 3
  MaxDay = 1
  Faults = {}
  FeeBPS = 5000
  IntLimit = 100000000
  AuthorizationValidity = 0
  Books = {"book"}
  Book <- OneBook
CHECK_DEADLOCK FALSE
INVARIANTS
  LockDiscipline
  DriftIsAlerted
PROPERTIES
  PayoutCovered
  ImplementsContract
  RequestsFinish
  JobsFinish
