SPECIFICATION FairSpec
CONSTANTS
  Threads = {t1, t2, t3}
  Locks = {1}
  TicketRange = 4
  NumTries = 1
  MinDistance = 0
  MaxDistance = 1
  UseTrylock = FALSE
PROPERTIES FifoSpec EveryCallerServed
