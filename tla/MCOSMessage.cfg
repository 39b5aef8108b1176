SPECIFICATION Spec
CONSTANTS
  t1 = t1  t2 = t2  t3 = t3  a = a  b = b
  Thread = {t1, t2, t3}
  Message = {a, b}
  Capacity = 3
INVARIANTS
  NoMissedWakeup
PROPERTY ImplementsDeque
CHECK_DEADLOCK FALSE
