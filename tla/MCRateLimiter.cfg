SPECIFICATION Spec
CONSTANTS
  CPUs = {c1, c2}
  Sources = {s1, s2}
  Elements = {e1, e2, e3, e4}
  MaxEntries = 2
  RATE_LIMIT = 2
  MaxPackets = 9
  NULL = NULL
SYMMETRY Symmetry
INVARIANT ElementBounded IntervalBound ChargedFairly
CHECK_DEADLOCK FALSE
