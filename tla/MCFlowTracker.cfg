SPECIFICATION Spec
CONSTANTS
  CPUs = {c1, c2}
  f1 = f1
  f2 = f2
  f3 = f3
  Flows = {f1, f2, f3}
  Hash <- MCHash
  Elements = {e1, e2, e3}
  Lengths = {1}
  Lines = 3
  MaxPackets = 4
  NULL = NULL
SYMMETRY Symmetry
INVARIANT OwnPackets NewOncePerCPU TableExplained
CHECK_DEADLOCK FALSE
