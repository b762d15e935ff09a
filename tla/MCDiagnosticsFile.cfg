SPECIFICATION Spec
CONSTANTS
  a = a
  b = b
  s = s
  t = t
  Docs <- OneDocument
  Texts <- TwoTexts
  PoolSize = 2
  MaxChanges = 2
  MaxDisk = 2
SYMMETRY Symmetric
INVARIANTS
  TypeOK
  QuietIsUpToDate
PROPERTIES
  ShownIsCurrent
