SPECIFICATION FairSpec
CONSTANTS
  Layouts <- MCLayouts
  MaxThreads = 2
  TidMod = 3
  MaxSeq = 1
  Callers = 2
  Fails = {1, 2}
  MaxMs = 3
  MaxIds = 4
INVARIANT LoopAlive
INVARIANT RepeatsAsleepOnly
PROPERTY StartReturns
