SPECIFICATION EdgeSpec
CONSTANTS
  m1 = m1
  d1 = d1
  d2 = d2
  Messages = {m1}
  Deliveries = {d1, d2}
  Window = 3
  Limit = 1
  Second = 2
  MaxTime = 7
  ClockSkew = 2
  Drift = 2
  RequestTimeout = 2
  KeyTTL = 7
VIEW View
SYMMETRY Symmetry
CHECK_DEADLOCK FALSE
INVARIANTS
  TypeOK
  BurstBounded
  PoliteRetry
  OncePerSignature
