SPECIFICATION Spec
CONSTANTS
  Threads = {t1, t2}
  Locks = {1, 2}
  McsTypes = {"mcs_tm"}
  NumNodes = 1
  MaxServed = 3
  NumTries = 1
  MinDistance = 0
  MaxDistance = 2
CHECK_DEADLOCK FALSE
INVARIANT NumberIsNext
