SPECIFICATION Spec
CONSTANTS
  r1 = r1  r2 = r2  p1 = p1  p2 = p2
  Requests = {r1, r2}
  Admins = {}
  Setups = {}
  Phones = {p1}
  None = None
  Bodies <- Texts
  PhoneCeiling = 1
  GlobalCeiling = 2
  Keep = 0
  MaxClock = 0
  MaxArrivals = 3
  MaxForms = 0
  MaxFaults = 0
CHECK_DEADLOCK FALSE
INVARIANT NeverStandstill
