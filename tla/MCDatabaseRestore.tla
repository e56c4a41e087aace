--------------------------- MODULE MCDatabaseRestore ---------------------------
(***************************************************************************)
(* DatabaseRestore for TLC.  Table a is pinned and refers to b: a restore  *)
(* can be refused at its first table, after b, at a drop, or not at all.   *)
(***************************************************************************)
EXTENDS DatabaseRestore

CONSTANTS a, b, c

MCTables == {a, b}
MCOldTables == {a, c}
MCPinned == {a}
MCReferences == {<<a, b>>}
=============================================================================
