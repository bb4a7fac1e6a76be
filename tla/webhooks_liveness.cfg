SPECIFICATION FairSpec
CONSTANTS
  p1 = p1
  p2 = p2
  d1 = d1
  Deliveries = {d1}
  Processes = {p1, p2}
  Workers = 1
  MaxAttempts = 2
  JobTimeout = 1
  StaleAfter = 3
  Disturbances = {"database", "shutdown", "crash", "stall"}
  MaxDisturbances = 2
INVARIANT DeliveredWasAcked
PROPERTIES
  FinishedStays
  NoJobIsLost
