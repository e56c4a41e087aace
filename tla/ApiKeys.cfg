CONSTANTS
  Initial = {k1, k2}
  Ops = {o1, o2, o3}
  Limits = {1, 2}
  DefaultLimit = 1
  PerHour = 1
  Hour = 2
  Day = 1
  MaxTime = 3
  MaxFaults = 1
  HashCut = HashCut
  Nothing = Nothing
SPECIFICATION Spec
INVARIANTS TypeOK RevokedStays OnePending CooldownHolds ShownIsStored LimitHolds
CHECK_DEADLOCK FALSE
SYMMETRY Interchangeable
