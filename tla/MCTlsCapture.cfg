SPECIFICATION CaptureSpec
CONSTANTS
  CPUs = {c1, c2}
  Writes = {w1, w2, w3}
  MAX_DATA_SIZE = 2
  Capacity = 1
  NULL = NULL
SYMMETRY Symmetry
INVARIANT CaptureTypeOK OwnData InterceptedExplained
CHECK_DEADLOCK FALSE
