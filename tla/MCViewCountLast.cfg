CONSTANTS
  r1 = r1
  r2 = r2
  ViewReaders = {r1, r2}
  MaxOpened = 2
  MaxViewFaults = 1
SPECIFICATION ViewSpec
PROPERTY LastFlushMade
CHECK_DEADLOCK FALSE
