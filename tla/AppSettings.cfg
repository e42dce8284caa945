\* Two rows, two PATCH requests under way at once.
SPECIFICATION Spec
CONSTANTS
  p1 = p1
  n1 = n1
  n2 = n2
  v1 = v1
  r1 = r1
  r2 = r2
  Parents = {p1}
  Names = {n1, n2}
  Values = {v1}
  Requests = {r1, r2}
  NoRow = NoRow
  NoRequest = NoRequest
  Mask = Mask
  MaxRows = 2
  MaxReleases = 1
SYMMETRY MCSymmetry
INVARIANTS
  TypeOK
  PatchKeepsItsRow
  UnracedEditsSurvive
  ReleaseSurvivesEdits
CHECK_DEADLOCK FALSE
