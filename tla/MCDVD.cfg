SPECIFICATION FairSpec
CONSTANTS
  t1 = t1  i1 = i1  a1 = a1  b1 = b1  NULL = NULL
  Thread = {t1}
  Block = {i1, a1, b1}
  Inquiry = i1
  Sync = {b1}
  PrioMax = 2
  Chunks <- MCChunks
  MaxContexts = 4
  LateCalls = FALSE
  SlowsDown = TRUE
CHECK_DEADLOCK FALSE
INVARIANTS
  QueueIntact  ReadOnKnownDisc
PROPERTIES ImplementsService CancelsEnd
