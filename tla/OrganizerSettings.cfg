SPECIFICATION Spec
CONSTANTS
  r1 = r1  r2 = r2  c1 = c1  c2 = c2
  Ids = {c1, c2}
  Texts <- Few
  None = None  Gone = Gone  Keep = Keep
  Requests = {r1, r2}
  Options = {1, 6}
  Default = 6
  Hours = {1, 5}
  MaxCalls = 3
  MaxChanges = 2
SYMMETRY Alike
CHECK_DEADLOCK FALSE
INVARIANTS TypeOK EnabledReachable ShownIsKept
