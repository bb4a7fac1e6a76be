SPECIFICATION FairSpec
CONSTANTS
  c1 = c1
  c2 = c2
  c3 = c3
  Callers = {c1, c2, c3}
  Threshold = 2
  Cooldown = 3
  Timeout = 2
INVARIANTS
  TypeOK
  OneProbe
  OutageDrains
  ClosedBelowThreshold
PROPERTIES
  Recovers
  Sheds
