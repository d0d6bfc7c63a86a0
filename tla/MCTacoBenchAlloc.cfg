\* Finding, the memory of all graphs so far: two graphs of one to eight nodes; arrays start with one element, so that most of them grow.
CONSTANTS
  Files <- MCFiles
  MaxFiles = 2
  k_min = 0
  k_max = 4
  sample = 2
  Outputs = {"MAT_COO", "MAT_CSR", "MAT_CSC"}
  InitialSize = 1
  FakeWords = 2
  Slots = 12
  TooLargeForCoo = 2
  TooLargeForCsr = 2
  Limits = {11, 99}
  SeriesEntries = 20
SPECIFICATION Spec
INVARIANT AllocOfThisGraph
