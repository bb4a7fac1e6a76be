SPECIFICATION Spec
CONSTANTS
  r1 = r1
  r2 = r2
  r3 = r3
  k1 = k1
  b1 = b1
  b2 = b2
  capture = capture
  refund = refund
  Requests = {r1, r2}
  Keys = {k1}
  Bodies = {b1}
  Paths = {capture, refund}
  MaxRuns = 3
  MaxExpiry = 1
  Faults = {}
SYMMETRY Symmetry
CHECK_DEADLOCK FALSE
INVARIANT ReplayAnswersSameOperation
