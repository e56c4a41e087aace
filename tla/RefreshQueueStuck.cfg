CONSTANTS
  Repos = {r1}
  Jobs = {j1}
  Workers = {w1}
  Facets = {}
  BatchSize = 1
  TerminalAttempts = 5
  RestrictFK = FALSE
  LegacyRows = {}
  MaxCrashes = 0
  MaxDbFailures = 2
  NoJob = NoJob
  NoRepo = NoRepo
SPECIFICATION FairSpec
PROPERTIES StuckJobReclaimed
CHECK_DEADLOCK FALSE
