CONSTANTS
  Keys <- MCKeys
  Txns <- MCTxns
  Log <- MCLog
  BatchSize = 2
  MaxAttempts = 2
  HasTimeout = TRUE
  Refusals <- NoRefusals
CHECK_DEADLOCK FALSE
CONSTANT MaxGroup = 2
SPECIFICATION FairSpec
PROPERTIES
  BackpressureEnds
