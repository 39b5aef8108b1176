SPECIFICATION FairSpec
CONSTANTS
  t1 = t1  t2 = t2  r1 = r1  r2 = r2  r3 = r3  NoReq = NoReq
  Thread = {t1, t2}
  Req = {r1, r2, r3}
  Capacity = 2
  MaxRequests = 4
CHECK_DEADLOCK FALSE
INVARIANTS
  RequestsKept
PROPERTIES
  ImplementsMailbox
  CallReturns
