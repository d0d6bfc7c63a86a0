\* Up to three arguments in two buckets, and graph files of three header lines.
CONSTANTS
  W = 64
  Arguments <- MCArguments
  MaxArguments = 3
  option_table_count = 2
  MaxPositionals = 2
  Files <- MCFiles
  FormatNames <- MCFormatNames
  k_line <- MCKLine
  s_line <- MCSLine
  nnz_line <- MCNnzLine
  output_format <- MCFormatOption
  s_option <- MCSampleOption
  kron_dir <- MCDirOption
  CooFormat <- MCCoo
  DefaultDir <- MCDir
  DefaultSample = 2
  Hashes <- MCHashes
SPECIFICATION Spec
INVARIANT OptionsAsGiven
INVARIANT SettingsAsGiven
INVARIANT HeaderAsWritten
PROPERTY ImplementsMap
