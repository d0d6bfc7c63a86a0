CONSTANTS
  Page = 4
  ReserveArg = 11
  CommitArg = 3
  Requests <- MCRequests
  Elem <- MCElem
  Limit = 12
  MaxLive = 4
  MaxScratch = 2
  SelfHosted = FALSE
SPECIFICATION Spec
INVARIANTS
  TypeOK
  LiveDisjoint
  LiveBacked
  NeverCrashes
  ScopesExact
  ArrayIsOneBlock
PROPERTY
  ImplementsAllocator
