SPECIFICATION Spec
CONSTANTS
  CPUs = {c1, c2}
  Uids = {u1, u2}
  Sentinel = sentinel
  MaxEntries = 2
  PerfSlots = 1
  MaxExecs = 2
  NULL = NULL
SYMMETRY Symmetry
INVARIANT CallsAccounted EventsAccounted StatsExplained FilterArmed
PROPERTY SkipsUnlisted
CHECK_DEADLOCK FALSE
