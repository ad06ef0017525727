SPECIFICATION Spec
CONSTANTS
  Waiters = {t1, t2}
  Wakers = {t2, t3}
  NumNodes = 2

PROPERTY SignalReachesAWaiter
