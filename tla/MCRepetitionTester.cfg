\* Two waves of tests with up to two timing blocks, nested or in a row, or with none; a timer that wraps within a test.
CONSTANTS
  W = 10
  MaxTick = 1
  MaxBlocks = 2
  MaxCount = 1
  MaxWaves = 2
  MaxTests = 3
  Frequencies <- MCFrequencies
  Seconds = 1
SPECIFICATION FairSpec
INVARIANT TimesExact
INVARIANT Extremes
INVARIANT OnlyTimedCounted
PROPERTY QuietBeforeComplete
PROPERTY Completes
