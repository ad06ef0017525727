SPECIFICATION Spec
CONSTANTS
  Threads = {t1, t2}
  Locks = {1}
  TicketRange = 3
  NumTries = 1
  MinDistance = 0
  MaxDistance = 2
  UseTrylock = TRUE
INVARIANT MutualExclusion
