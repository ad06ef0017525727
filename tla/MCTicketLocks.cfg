SPECIFICATION Spec
CONSTANTS
  Threads = {t1, t2, t3}
  Locks = {1, 2}
  TicketRange = 4
  NumTries = 1
  MinDistance = 0
  MaxDistance = 1
  UseTrylock = TRUE
SYMMETRY Symmetry
CONSTRAINT NotMisled
INVARIANTS TypeOK MutualExclusionUnlessMisled TicketsAccountForThreads TurnEndsSpeculation FlagMatchesHardware
