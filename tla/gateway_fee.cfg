SPECIFICATION Spec
CONSTANTS
  j1 = j1
  r1 = r1
  r2 = r2
  t1 = t1
  NoTxn = NoTxn
  Txns = {t1}
  Requests = {r1}
  Jobs = {j1}
  Amounts = {2}
  Asked = {0, 1}
  MaxRequests = 3
  MaxDay = 0
  Faults = {}
  FeeBPS = 5000
  IntLimit = 100000000
  AuthorizationValidity = 0
  Books = {"book"}
  Book <- OneBook
SYMMETRY Symmetry
CHECK_DEADLOCK FALSE
INVARIANT DayReconciles
