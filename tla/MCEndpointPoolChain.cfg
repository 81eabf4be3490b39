CONSTANTS
  q1 = q1
  Queries = {q1}
  N = 2
  ChainOf <- MCForeignSecond
  Unproven = {}
  EndpointLead = 1
  Threshold = 2
  MaxTip = 1
  MaxPoolFaults = 1
SPECIFICATION PoolSafety
PROPERTY PoolChainOnly
