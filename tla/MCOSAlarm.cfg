SPECIFICATION FairSpec
CONSTANTS
  a1 = a1  a2 = a2  NULL = NULL  a3 = a3
  Alarm = {a1, a2, a3}
  DVDAlarm = {a3}
  DecMax = 2
  Tick <- Delays
  Period <- Periods
  MaxTime = 3
VIEW Live
CHECK_DEADLOCK FALSE
INVARIANTS
  QueueIntact
  TimerArmed
PROPERTIES
  ImplementsClock
  AlarmFires
