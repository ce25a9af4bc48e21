SPECIFICATION Spec
CONSTANTS
  n1 = n1
  n2 = n2
  a = a
  b = b
  c = c
  d = d
  x = x
  y = y
  k1 = k1
  k2 = k2
  Call = {k1, k2}
  Network = {n1, n2}
  List <- MCList
  Custom = {x, y}
  Request <- MCRequest
  Window = 1
  Capacity = 2
  DefaultNum = 2
  U8 = 4
  Horizon = 3
  MaxRecorded = 4
SYMMETRY CallSymmetry
INVARIANTS
  TypeOK
  StoreHoldsTheWindow
  ThresholdCanBeMet
PROPERTIES
  DefaultsAreTheBest
