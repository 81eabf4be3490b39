CONSTANTS
  SessionTxs <- MCSessionTxs
  What <- MCWhat
  KeyOf <- MCKeyOf
  MasterOf <- MCMasterOf
  Shapes = {"typed"}
  SweepBatch = 2
  RowLimit = 3
  SweepLag = 0
  SweepHeight = 4
  MaxSweepFaults = 0
SPECIFICATION SessionSpec
INVARIANT KeysStand
