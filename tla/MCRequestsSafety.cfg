SPECIFICATION Spec
CONSTANTS
  w1 = w1
  w2 = w2
  none = none
  NoWire = none
  Wire <- TwoWires
  Kinds <- EveryKind
  PoolSize = 1
  MaxCalls = 2
  MaxChanges = 1
  MaxAcquisitions = 1
  MaxRounds = 1
INVARIANTS
  LedgerConsistent
  AnsweredOnce
  NothingLost
  PermitsAccounted
  NoStrandedDeferral
PROPERTIES
  ImplementsSession
