SPECIFICATION Spec
CONSTANTS
  CPUs = {c1, c2}
  Addresses <- MCAddresses
  MaxEntries = 1
  MaxPackets = 3
  MaxCommands = 2
SYMMETRY Symmetry
INVARIANT BlockTakesEffect LineExplained NoneLost
CHECK_DEADLOCK FALSE
