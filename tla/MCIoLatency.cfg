SPECIFICATION Spec
CONSTANTS
  CPUs = {c1, c2}
  Requests = {r1, r2}
  MaxEntries = 1
  Buckets = 2
  Word = 3
  MaxTime = 3
  MaxIOs = 3
  NULL = NULL
SYMMETRY Symmetry
INVARIANT TypeOK StaleExplained HistogramsAgree PrintExplained
PROPERTY OwnLatency
CHECK_DEADLOCK FALSE
