SPECIFICATION Spec
CONSTANTS
  Threads = {t1, t2}
  Locks = {1, 2}
  NumTries = 2
  MinDistance = 0
  MaxDistance = 2
  Nested = FALSE
INVARIANT NoWordLeftTaken
