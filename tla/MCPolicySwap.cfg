SPECIFICATION Spec
CONSTANTS
  CPUs = {c1, c2}
  Addresses <- MCAddresses
  Tables = {t1, t2, t3, t4}
  LittleEndian = TRUE
  NULL = NULL
INVARIANT WholePolicy BuiltApart
PROPERTY SwapIsAtomic FirstPolicy
CHECK_DEADLOCK FALSE
