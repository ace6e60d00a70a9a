SPECIFICATION Spec
CONSTANTS
  CPUs = {c1, c2}
  Sources = {s1, s2}
  Elements = {e1, e2, e3}
  MaxEntries = 1
  RATE_LIMIT = 3
  MaxPackets = 6
  NULL = NULL
PROPERTY DropsNearLimit LimitLifted
CHECK_DEADLOCK FALSE
