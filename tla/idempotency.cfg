SPECIFICATION FairSpec
CONSTANTS
  r1 = r1
  r2 = r2
  r3 = r3
  k1 = k1
  b1 = b1
  b2 = b2
  capture = capture
  Requests = {r1, r2, r3}
  Keys = {k1}
  Bodies = {b1, b2}
  Paths = {capture}
  MaxRuns = 3
  MaxExpiry = 1
  Faults = {"claim", "complete", "release", "crash"}
CHECK_DEADLOCK FALSE
INVARIANTS
  TypeOK
  OneOwner
  FinalOnce
  ReplayIsFaithful
PROPERTY ClaimsEnd
