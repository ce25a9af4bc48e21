CONSTANTS
  q1 = q1
  m1 = m1
  Quoting = {q1}
  Motoko = {m1}
  Nodes = {1, 2}
  Key = {1, 2}
  Kind = {"valid", "unresolved", "unparsed"}
  Cost <- MCCost
  Collateral = 1
  DefaultCycles = 4
SPECIFICATION FairSpec
INVARIANTS
  QuoteHonoured
  RetrySuffices
  PaidOnce
PROPERTIES
  RequestsEnd
CHECK_DEADLOCK FALSE
