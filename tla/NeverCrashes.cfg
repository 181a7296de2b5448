CONSTANTS
  d1 = d1
  d2 = d2
  Docs <- TwoDocs
  Blocks <- TwoEach
  Workers = {w1, w2}
  None = None
SPECIFICATION Spec
INVARIANT NeverCrashes
CHECK_DEADLOCK FALSE
