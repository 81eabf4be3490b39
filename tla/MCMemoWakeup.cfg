CONSTANTS
  Callers = {1, 2}
  MemoTtl = 2
  NegativeTtl = 1
  MaxNow = 2
  MaxUpstream = 1
  MaxFailures = 1
SPECIFICATION MemoSpec
INVARIANT MemoSurvives
CHECK_DEADLOCK FALSE
