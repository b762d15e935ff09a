SPECIFICATION FairSpec
CONSTANTS
  a = a
  b = b
  s = s
  t = t
  Docs <- TwoDocuments
  Texts <- OneText
  PoolSize = 1
  MaxChanges = 2
  MaxDisk = 1
INVARIANTS
  ClosedShowsNothing
  QuietIsUpToDate
PROPERTIES
  ComesToRest
