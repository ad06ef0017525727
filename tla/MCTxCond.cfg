SPECIFICATION FairSpec
CONSTANTS
  Waiters = {t1, t2}
  Wakers = {t2, t3}
  NumNodes = 2
INVARIANTS TypeOK ListIsLinked NoUseAfterFree NoNodeLost NoWakeupLost
PROPERTIES OutcomeIsTrue TakenNodesAreFreed EventualFifo
