CONSTANTS
  Threads = {t1, t2}
  BLOCK_MR = 2
  BLOCK_NR = 1
  BLOCK_KU = 2
  BLOCK_I = 2
  BLOCK_J = 2
  BLOCK_P = 2
  Runs <- MCDense
  MaxTime = 1
  MaxIterations = 2
SPECIFICATION Spec
INVARIANT BlocksRepresent
