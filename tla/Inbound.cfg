SPECIFICATION Spec
CONSTANTS
  r1 = r1  r2 = r2  p1 = p1  p2 = p2
  Requests = {r1, r2}
  Admins = {a1}
  Setups = {s1}
  Phones = {p1, p2}
  None = None
  Bodies <- Texts
  PhoneCeiling = 1
  GlobalCeiling = 1
  Keep = 0
  MaxClock = 1
  MaxArrivals = 3
  MaxForms = 2
  MaxFaults = 1
SYMMETRY Alike
CHECK_DEADLOCK FALSE
INVARIANTS TypeOK CeilingHolds StopHolds NoOtherStandstill IntentAsDocumented
PROPERTIES RetryHarmless
