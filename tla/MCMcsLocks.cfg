SPECIFICATION FairSpec
CONSTANTS
  Threads = {t1, t2, t3}
  Locks = {1, 2}
  McsTypes = {"mcs", "mcs_tm"}
  NumNodes = 1
  MaxServed = 2
  NumTries = 1
  MinDistance = 0
  MaxDistance = 3
ACTION_CONSTRAINT SmallProgram
CHECK_DEADLOCK FALSE
INVARIANTS TypeOK QueueIsLinked OnlyHeadGoesOn TurnEndsSpeculation FlagMatchesHardware NodesMatchLocks
PROPERTIES FifoSpec EveryCallerServed
