CONSTANTS
  accounts = accounts
  orders = orders
  NoRow = NoRow
  Tables = {accounts, orders}
  Keys <- MCKeys
  InitialRows <- MCInitialRows
  ScanOrder <- MCScanOrder
  BatchSize = 2
  MaxChanges = 3
CHECK_DEADLOCK FALSE
SPECIFICATION Spec
INVARIANTS
  ScannedRowKept
