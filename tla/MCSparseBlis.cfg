CONSTANTS
  Threads = {t1, t2}
  BlockM = 4
  BlockN = 4
  BlockK = 4
  BLOCK_I = 2
  BLOCK_J = 2
  BLOCK_P = 2
  LeftFormat <- MCLeft
  RightFormat <- MCRight
  LeftNonZero <- MCLeftNonZero
  RightNonZero <- MCRightNonZero
SPECIFICATION FairSpec
INVARIANTS
  TypeOK
  InBounds
  NoLostUpdate
  MatchesReference
PROPERTIES
  Refines
  Terminates
