CONSTANTS
  Threads = {t1, t2}
  BLOCK_MR = 2
  BLOCK_NR = 1
  BLOCK_KU = 2
  BLOCK_I = 2
  BLOCK_J = 2
  BLOCK_P = 2
  Runs <- MCRuns
  MaxTime = 1
  MaxIterations = 2
SPECIFICATION FairSpec
INVARIANT BlocksInBounds
INVARIANT BlocksRepresent
INVARIANT NoLostUpdate
INVARIANT OutputCountsProducts
INVARIANT VerifyExact
INVARIANT BestIsLeast
PROPERTY RunsToEnd
