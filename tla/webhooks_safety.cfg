SPECIFICATION Spec
CONSTANTS
  p1 = p1
  p2 = p2
  d1 = d1
  d2 = d2
  d3 = d3
  Deliveries = {d1, d2, d3}
  Processes = {p1, p2}
  Workers = 1
  MaxAttempts = 2
  JobTimeout = 1
  StaleAfter = 3
  Disturbances = {"database", "shutdown", "crash"}
  MaxDisturbances = 1
SYMMETRY Symmetry
INVARIANTS
  TypeOK
  OneHolder
  AttemptsAreCounted
