SPECIFICATION FairSpec
CONSTANTS
  Threads = {m, t1, t2}
  Main = m
  MaxCount = 1
CHECK_DEADLOCK FALSE
INVARIANTS TypeOK ListIsOrder ReportIsTrue
PROPERTIES RegistrySpec PushEnds ExitEnds
