CONSTANTS
  Tokens = {t1}
  Registered = {}
  Calls = {c1,c2}
  Kinds = {"core","facet"}
  Admins = {a1,a2}
  Limit = 1
  MaxAttempts = 2
  Threshold = 2
  MaxWindows = 1
  MaxLoads = 1
  MaxFaults = 1
  NoToken = NoToken
SPECIFICATION Spec
INVARIANTS TypeOK SpentIsSpent  CleanIsSaved
PROPERTIES RotatesAway
CHECK_DEADLOCK FALSE
SYMMETRY Interchangeable
