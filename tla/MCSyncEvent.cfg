SPECIFICATION EventSpec
CONSTANTS
  t1 = t1  t2 = t2  t3 = t3  t4 = t4
  Caller = {t1, t2, t3, t4}
INVARIANTS
  NoMissedSignal
PROPERTY ImplementsEvent
\* All threads may wait for a signal that no one will send.
CHECK_DEADLOCK FALSE
