CONSTANTS
  Tables <- MCTables
  Keys <- MCKeys
  Events <- MCEvents
  Edges <- MCEdges
  SnapshotRows <- MCSnapshotRows
  HasTimeout = TRUE
  NoRow = NoRow
SPECIFICATION Spec
INVARIANTS
  ReferencedParentFirst
