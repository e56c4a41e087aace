CONSTANTS
  Users = {u1, u2}
  Admins = {u1, u2}
  Ops = {o1, o2, o3}
  TTL = 4
  Renewal = 2
  MaxAttempts = 2
  Window = 2
  MaxTime = 4
  MaxFaults = 1
  Nobody = Nobody
SPECIFICATION Spec
INVARIANTS TypeOK PasswordEndsSessions DeletedStays AdminRemains
PROPERTIES BlockStays
CHECK_DEADLOCK FALSE
SYMMETRY Interchangeable
