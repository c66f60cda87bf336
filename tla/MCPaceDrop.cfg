SPECIFICATION PaceSpec
CONSTANTS
  DefaultSleep = 6
  Remaining = {0, 1, 6}
  Reset = {0, 6}
  MaxCount = 8
PROPERTY RateDrops
CHECK_DEADLOCK FALSE
