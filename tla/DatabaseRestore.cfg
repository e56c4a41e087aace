CONSTANTS
  a = a
  b = b
  c = c
  Tables <- MCTables
  OldTables <- MCOldTables
  Pinned <- MCPinned
  References <- MCReferences
  Ops = {o1, o2}
  Keep = 2
  MaxWrites = 1
  MaxFaults = 1
  MaxDeletes = 1
  NoOp = NoOp
SPECIFICATION Spec
INVARIANTS TypeOK NoTableLost Undoable HalfwayMeansPinned SnapshotAtHand
PROPERTIES RestoredInFull
CHECK_DEADLOCK FALSE
