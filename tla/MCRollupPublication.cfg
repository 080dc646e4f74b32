SPECIFICATION FairSpec
CONSTANTS
  RollupDelay = 1
  MaxRollupBatches = 2
  MaxPriceIncreases = 1
  MaxReorgDepth = 1
  MaxPending = 1
  MaxBatches = 3
  MaxEmpty = 1
  MaxTxs = 3
  MaxOthers = 1
  MaxReorgs = 1
  MaxFaults = 1
INVARIANTS NoGaps AllReadable
PROPERTIES NoNonceConflict AllRolledUp
CHECK_DEADLOCK FALSE
