SPECIFICATION Spec
CONSTANTS
  r1 = r1  r2 = r2  c2 = c2  c3 = c3  p2 = p2  p3 = p3
  Requests = {r1, r2}
  Ids = {c1, c2, c3}
  Mine = c1
  Names = {"vegan", "Vegan", "rides"}
  FirstTags = {"rides"}
  Word <- Lower
  Phones = {p1, p2, p3}
  Unusable = part
  FirstPhone = p1
  None = None
  MaxEdits = 3
  MaxCalls = 2
SYMMETRY Alike
CHECK_DEADLOCK FALSE
INVARIANTS TypeOK SavedIsStored
