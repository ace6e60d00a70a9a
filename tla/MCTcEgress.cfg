SPECIFICATION HookSpec
CONSTANTS
  Loaders = {l1, l2, l3}
  Attachments = {a1}
  Own = own
  QueueEntries = 1
  NoPin = NoPin
SYMMETRY Symmetry
INVARIANT StartRecovers OnlyOwnFilter LeftBehind QueueOnlyFills
CHECK_DEADLOCK FALSE
