CONSTANTS
  Tables <- MCTables
  Keys <- MCKeys
  Events <- MCEvents
  Edges <- MCEdges
  SnapshotRows <- MCSnapshotRows
  HasTimeout = TRUE
  NoRow = NoRow
SPECIFICATION Spec
INVARIANTS
  TypeOK
  AppliedOnce
  GuardIsOrder
  RowsFollowOrder
  ParentFirst
PROPERTIES
  ImplementsTarget
