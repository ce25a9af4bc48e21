SPECIFICATION Spec
CONSTANTS
  c1 = c1
  c2 = c2
  h1 = h1
  h2 = h2
  Call = {c1}
  NumServices = 4
  Supported = {1, 2}
  Malformed = {4}
  Unkeyed = {}
  Host = {h1, h2}
  HostOf <- MCHostOf
  HostnameOf <- MCHostnameOf
  Value = {1, 2}
  Code = {7}
  BadResponse = {"json", "status", "badJson", "badId"}
  Strategy = {0, 1, 2, 3}
  Estimate = {3}
  SizeFloor = 1
  SizeMax = 3
  Cost <- MCCost
  Collateral = 1
  Attached = {0, 19, 40}
  IdModulus = 3
  FirstId = 0
INVARIANTS
  ThresholdHonoured
