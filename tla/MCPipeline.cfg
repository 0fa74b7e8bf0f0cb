CONSTANTS
  Keys <- MCKeys
  Txns <- MCTxns
  Log <- MCLog
  BatchSize = 2
  MaxAttempts = 2
  HasTimeout = TRUE
  Refusals <- MCRefusals
CHECK_DEADLOCK FALSE
CONSTANT MaxGroup = 1
SPECIFICATION FairSpec
INVARIANTS
  TypeOK
  AutocommitNotLost
  CommittedIsApplied
  UnmappableNotPassed
PROPERTIES
  CommitsBecomeDurable
  AutocommitDelivered
