CONSTANTS
  Repos = {r1}
  Jobs = {j1, j2}
  Workers = {w1, w2}
  Facets = {"releases"}
  BatchSize = 2
  TerminalAttempts = 1
  RestrictFK = TRUE
  LegacyRows = {}
  MaxCrashes = 1
  MaxDbFailures = 1
  NoJob = NoJob
  NoRepo = NoRepo
SPECIFICATION Spec
SYMMETRY Symmetry
INVARIANTS LeaseMarksClaim SingleOwner DedupFreshLookups RowMatchesVerdicts
PROPERTIES TerminalStays
CHECK_DEADLOCK FALSE
