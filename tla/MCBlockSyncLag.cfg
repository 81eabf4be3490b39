CONSTANTS
  PageSize = 2
  PagesPerPass = 2
  DaysChoices <- MCDays
  Floor = 1
  BlockLag = 5
  BlockHeight = 7
  MaxBlockFaults = 0
SPECIFICATION BlockSafety
INVARIANT Contiguous
CHECK_DEADLOCK FALSE
