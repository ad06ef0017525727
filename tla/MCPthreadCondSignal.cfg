SPECIFICATION Spec
CONSTANTS
  Waiters = {t1}
  TimedWaiters = {t2}
  Hle = TRUE
  Wakers = {t3}
  NumTries = 1
  MaxWaits = 2
INVARIANTS SleepersAreSeen
