SPECIFICATION Spec
CONSTANTS
  l1 = l1
  l2 = l2
  Labels = {l1, l2}
  Spans <- AllSpans
  AnyLabel = AnyLabel
  MaxRows = 4
  MaxTime = 1
  Delay = 1
  Second = 2
  MaxLimit = 2
  Ceiling = 3
SYMMETRY Symmetry
CHECK_DEADLOCK FALSE
INVARIANTS
  WalkInOrder
  WalkIsComplete
