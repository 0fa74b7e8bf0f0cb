CONSTANTS
  Keys <- MCKeys
  Txns <- MCTxns
  Log <- MCLog
  Batches <- MCBatches
  MaxGroup = 2
  MaxAttempts = 2
SPECIFICATION Spec
INVARIANTS
  DistinctChangeApplied
