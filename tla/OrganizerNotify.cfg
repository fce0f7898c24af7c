SPECIFICATION Spec
CONSTANTS
  w1 = w1  w2 = w2
  Workers = {w1, w2}
  Invitees = {1, 2}
  Special = {2}
  Hours = 1
  Cooldown = 1
  Goal = 1
  OnlyIfChanged = TRUE
  OnNewConfirm = TRUE
  OnDecline = FALSE
  PrintLimit = 17
  None = None
  MaxClock = 2
  MaxFaults = 1
  MaxReplies = 2
  MaxRequests = 1
SYMMETRY Alike
CHECK_DEADLOCK FALSE
INVARIANTS TypeOK DigestsApart GoalOnce
PROPERTIES UnchangedIsKnown RoutineSpaced WindowsSpec
