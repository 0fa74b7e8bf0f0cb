CONSTANTS
  r1 = r1
  r2 = r2
  r3 = r3
  orders = orders
  items = items
  Requests = {r1, r2, r3}
  Tables = {orders, items}
  Columns <- MCColumns
  Keeps <- MCKeeps
  Positions <- MCPositions
CHECK_DEADLOCK FALSE
SPECIFICATION Spec
SYMMETRY MapperSymmetry
INVARIANTS
  TypeOK
  VersionAtIsLast
  CurrentHasLatestFilter
  OwnLayoutBeforeFilters
PROPERTIES
  InFlightLayoutKept
