CONSTANTS
  MaxChain = 2
  ChainHeight = 2
  ChainLag = 1
  MaxChainFaults = 0
SPECIFICATION ChainSpec
PROPERTY PackagesResync
