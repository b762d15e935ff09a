SPECIFICATION Spec
CONSTANTS
  a = a
  b = b
  Docs <- OneDocument
  PoolSize = 1
  Absent <- SecondChange
  MaxRequests = 2
  MaxChanges = 2
  MaxDisk = 2
  MaxPlans = 1
PROPERTIES
  EditsAreCurrent
  NoSpuriousRefusal
