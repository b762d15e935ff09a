SPECIFICATION Spec
CONSTANTS
  Uris = {a, b, c}
  Calls = {c1, c2}
  Tokens <- TokenArrays
  Renames <- OneOrTwoFiles
  MaxDocuments = 2
  MaxIntegers = 4
  EditCost = 0
  MaxResponses = 3
  MaxLifetimes = 3
SYMMETRY Symmetries
INVARIANTS
  ClientHasComputed
  BaselinesAreCurrent
  RetentionIsBounded
