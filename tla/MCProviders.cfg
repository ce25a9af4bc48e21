SPECIFICATION Spec
CONSTANTS
  c1 = c1
  c2 = c2
  Call = {c1, c2}
  CallArgs <- MCCallArgs
  Rotated = {0, 3, 6}
  KeyVersion = {1}
  Override = {"none", "noMatch", "host", "all", "stripsHost", "garbles"}
SYMMETRY CallSymmetry
INVARIANTS
  ServicesResolve
  KeyConfined
  PanicsExplained
  LabelsComparable
