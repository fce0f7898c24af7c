SPECIFICATION Spec
CONSTANTS
  p1 = p1  p2 = p2
  Places = {p1, p2}
  None = None  Free = Free
  MaxEvents = 4
  MaxPosts = 3
  MaxFaults = 1
SYMMETRY Alike
CHECK_DEADLOCK FALSE
INVARIANTS TypeOK PickStands LocationWhole SavedIsForm SetupSendsForm
