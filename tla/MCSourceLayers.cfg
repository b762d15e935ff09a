SPECIFICATION Spec
CONSTANTS
  a = a
  b = b
  p1 = p1
  p2 = p2
  d = d
  e = e
  u = u
  v = v
  NoText = NoText
  Paths <- TwoPaths
  Projects <- TwoProjects
  Default = p1
  Disk <- OneText
  Unsaved <- OneDraft
  Renames <- Moves
  MaxRevision = 5
  MaxRefreshes = 1
INVARIANTS
  LayersDescribeInstances
  UnsavedIsNeverBacking
  StaleVersionsFail
  UnrelatedWritesKeepVersions
  RemovalIsFinal
CHECK_DEADLOCK FALSE
