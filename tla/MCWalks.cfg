CONSTANTS
  PageSize = 2
  PagesPerPass = 2
  DaysChoices <- MCDays
  Floor = 2
  BlockLag = 2
  BlockHeight = 5
  MaxBlockFaults = 2
  MaxChain = 3
  ChainHeight = 2
  ChainLag = 2
  MaxChainFaults = 1
  Txs <- MCTxs
  Kind <- MCKind
  Succeeded <- MCSucceeded
  ElementCap = 3
  RepairBatch = 2
  TxLag = 1
  TxHeight = 4
  MaxTxFaults = 2
  Transfers = {2, 3, 4}
  WalkBatch = 2
  LedgerLag = 1
  LedgerHeight = 4
  MaxLedgerFaults = 1
  SessionTxs <- MCSessionTxs
  What <- MCWhat
  KeyOf <- MCKeyOf
  MasterOf <- MCMasterOf
  Shapes = {"typed", "raw"}
  SweepBatch = 3
  RowLimit = 3
  SweepLag = 1
  SweepHeight = 3
  MaxSweepFaults = 1
  CoinTxs <- MCCoinTxs
  Rowed <- MCRowed
  CoinWindow = 3
  WindowsPerPass = 1
  CoinCap = 3
  Schemas = {TRUE, FALSE}
  CoinLag = 1
  CoinHeight = 3
  MaxCoinFaults = 1
  UserEvents <- MCUserEvents
  UserLag = 1
  UserHeight = 3
  MaxUserFaults = 2
  OldRows = {0, 1, 2, 4}
  ValoperRows = {1, 2, 4}
  RepairSize = 2
  RepairLag = 1
  RepairHeight = 4
  MaxRepairFaults = 1
SPECIFICATION WalksSpec
INVARIANTS
  BlockTypeOK
  Contiguous
  CompleteHonest
  DepthHonest
  ChainTypeOK
  NoDeadRows
  EdgesHaveSends
  WalksTypeOK
  NoHoles
  FoldedOnce
  EdgesComplete
  CursorHonest
  SweepHonest
  RevokedRightly
  CoinsComplete
  UsersMatch
  ArgsHonest
PROPERTIES
  GrowsAtItsEnds
  CatchesUp
  KeepsLiveRows
  WalksResync
  RevocationKept
  BackfillsKeepPromise
  WalksSettle
