SPECIFICATION Spec
CONSTANTS
  CPUs = {c1, c2}
  client1 = client1
  server1 = server1
  client2 = client2
  server2 = server2
  Sockets = {client1, server1, client2, server2}
  Peer <- MCPeer
  Local <- MCLocal
  Base = 4
  Sizes = {1, 2}
  MaxMessages = 2
  NULL = NULL
SYMMETRY Symmetry
INVARIANT LittleEndianInert NotForwarded MessagesCounted
CHECK_DEADLOCK FALSE
