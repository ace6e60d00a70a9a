SPECIFICATION Spec
CONSTANTS
  CPUs = {c1, c2}
  Names <- MCNames
  PathSize = 3
  Slots = 2
  Printers = {Main}
  Main = Main
  MaxCalls = 3
  NUL = NUL
  NULL = NULL
INVARIANT TypeOK CallsAccounted StatsExplained
PROPERTY StreamInOrder NoRecordLeft
CHECK_DEADLOCK FALSE
