SPECIFICATION FairSpec
CONSTANTS
  Threads = {t1, t2, t3}
  Locks = {1, 2}
  NumTries = 2
  MinDistance = 0
  MaxDistance = 2
  Nested = TRUE
CONSTRAINT SmallProgram
INVARIANTS TypeOK WordHasOneOwner FlagMatchesHardware ElidedLocksAreFree ReadyCountsPromoted
PROPERTIES CommitRestoresHeld MutexSpec CallGetsThrough
