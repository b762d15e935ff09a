SPECIFICATION Spec
CONSTANTS
  root = root
  folding = folding
  hints = hints
  everything = everything
  Features <- TwoFeatures
  Roots <- OneRoot
  Everything = everything
  Workloads <- FewOfEach
CHECK_DEADLOCK FALSE
INVARIANTS
  NoRefreshLost
  ProgressMeansLoading
  SettledConfiguration
PROPERTIES
  ProgressFollowsProtocol
