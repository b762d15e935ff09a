SPECIFICATION Spec
CONSTANTS
  a = a
  b = b
  c = c
  x = x
  z = z
  Sources <- ThreeSources
  Artifacts <- TwoArtifacts
  Candidates <- OwnArtifact
  Inputs <- IncludedArtifact
  Document <- TwoDocuments
  Stored <- TwoSources
  Openings <- OneOpen
  Written <- TwoArtifacts
  MaxWrites = 1
  MaxSwitches = 1
CHECK_DEADLOCK FALSE
INVARIANTS
  WatchedChangesArePublished
