CONSTANTS
  Tables <- MCTables
  Graphs <- MCGraphs
  EventLists <- MCEventLists
SPECIFICATION Spec
INVARIANTS
  TypeOK
  NothingDropped
  ParentsFirst
  FreeKeepOrder
