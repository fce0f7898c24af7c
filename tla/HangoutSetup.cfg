SPECIFICATION Spec
SYMMETRY MCSymmetry
CONSTANTS
  Requests = {r1, r2}
  People = {p1, p2}
  OptedOut = {p2}
  None = None
  MaxListed = 2
  MaxRows = 10
  MaxAsks = 2
  MaxEvents = 2
INVARIANTS
  TypeOK
  NobodyForgotten
PROPERTIES
  ClosedStays
  InvitationsSurvive
  NotAskedTwice
CHECK_DEADLOCK FALSE
