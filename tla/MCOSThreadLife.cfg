SPECIFICATION Spec
CONSTANTS
  t1 = t1  t2 = t2  t3 = t3  m1 = m1  m2 = m2  w1 = w1
  None = None
  Thread = {t1, t2, t3}
  Mutex = {m1}
  WaitQueue = {w1}
  Main = t1
  PriorityMax = 2
  MainBase = 1
  Bases = {0, 2}
  Calls = {"Create", "Resume", "Lock", "Unlock", "Exit", "Cancel", "Join", "Detach", "SleepTicks", "Sleep", "Wakeup"}
  MaxSuspend = 1
  MaxLock = 1
  ExitHolding = TRUE
SYMMETRY SymmThread
CHECK_DEADLOCK FALSE
INVARIANTS
  NoWaiterOnFreeMutex
PROPERTIES
  NoJoinerLeftBehind
  DeadStaysDead
