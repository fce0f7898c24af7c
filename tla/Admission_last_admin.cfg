SPECIFICATION Spec
SYMMETRY MCSymmetry
CONSTANTS
  Requests = {r1, r2}
  Users = {u1, u2}
  a = a
  b = b
  Emails <- MCEmails
  None = None
  Bootstrap <- MCBootstrap
  TTL = 1
  MaxClock = 0
  MaxEdits = 2
  MaxChanges = 0
PROPERTY
  AnAdminRemains
