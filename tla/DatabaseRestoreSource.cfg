CONSTANTS
  a = a
  b = b
  c = c
  Tables <- MCTables
  OldTables <- MCOldTables
  Pinned <- MCPinned
  References <- MCReferences
  Ops = {o1}
  Keep = 1
  MaxWrites = 1
  MaxFaults = 0
  MaxDeletes = 0
  NoOp = NoOp
SPECIFICATION Spec
INVARIANT SourceKept
CHECK_DEADLOCK FALSE
