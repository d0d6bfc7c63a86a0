CONSTANTS
  Page = 4
  ReserveArg = 11
  CommitArg = 3
  Requests <- MCRequests
  Elem <- MCElem
  Limit = 20
  MaxLive = 4
  MaxScratch = 2
  SelfHosted = FALSE
SPECIFICATION Spec
CHECK_DEADLOCK FALSE
INVARIANTS
  CommitWithinReserve
