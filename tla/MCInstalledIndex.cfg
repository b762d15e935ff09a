SPECIFICATION FairSpec
CONSTANTS
  f = f
  g = g
  t1 = t1
  t2 = t2
  Files <- TwoFiles
  Threads <- TwoThreads
  Watchers <- BothWatchers
  MaxMutations = 3
INVARIANTS
  IndexIsOneMoment
  CacheIsTrue
  ServedKnowsDelivered
PROPERTIES
  IndexAdvances
  WaitEnds
  Converges
