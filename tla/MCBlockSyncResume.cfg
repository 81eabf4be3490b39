CONSTANTS
  PageSize = 2
  PagesPerPass = 2
  DaysChoices <- MCDays
  Floor = 1
  BlockLag = 1
  BlockHeight = 7
  MaxBlockFaults = 1
SPECIFICATION BlockSafety
INVARIANT CapRemembered
CHECK_DEADLOCK FALSE
