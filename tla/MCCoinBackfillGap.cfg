CONSTANTS
  CoinTxs <- MCCoinTxs
  Rowed <- MCRowed
  CoinWindow = 3
  WindowsPerPass = 1
  CoinCap = 3
  Schemas = {TRUE}
  CoinLag = 1
  CoinHeight = 4
  MaxCoinFaults = 0
SPECIFICATION CoinSafety
INVARIANT CoinsNoGap
