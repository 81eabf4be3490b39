CONSTANTS
  Transfers = {1, 4}
  WalkBatch = 2
  LedgerLag = 0
  LedgerHeight = 5
  MaxLedgerFaults = 0
SPECIFICATION LedgerSafety
INVARIANT WalkComplete
