CONSTANTS
  VerifyLefts <- MCVerifyLefts
  VerifyRights <- MCVerifyRights
  test_entries <- MCEntries
  densities <- MCDensities
  fixed_density = "1.0"
  sweep_left = TRUE
  sweep_right = FALSE
  Lefts <- MCLefts
  Rights <- MCRights
  MaxIterations = 2
  MaxFailures = 1
SPECIFICATION Spec
INVARIANT FormatsAgree
INVARIANT ConversionsAgree
INVARIANT NoEntryFails
INVARIANT OutputCountsProducts
INVARIANT RowsTruthful
