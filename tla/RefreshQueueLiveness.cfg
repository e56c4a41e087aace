CONSTANTS
  Repos = {r1}
  Jobs = {j1, j2}
  Workers = {w1}
  Facets = {}
  BatchSize = 1
  TerminalAttempts = 1
  RestrictFK = TRUE
  LegacyRows = {"not_found"}
  MaxCrashes = 1
  MaxDbFailures = 1
  NoJob = NoJob
  NoRepo = NoRepo
SPECIFICATION FairSpec
PROPERTIES PendingIsClaimed HeldJobSettles LedgerSpec
CHECK_DEADLOCK FALSE
