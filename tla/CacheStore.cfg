CONSTANTS
  Writers = {w1, w2}
  MaxChanges = 1
  MaxFaults = 1
SPECIFICATION Spec
INVARIANTS MirrorMatches
PROPERTIES CoreSettles
