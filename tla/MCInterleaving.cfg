SPECIFICATION FairSpec
CONSTANTS
  c1 = c1
  c2 = c2
  h1 = h1
  h2 = h2
  Call = {c1, c2}
  NumServices = 2
  Supported = {1}
  Malformed = {}
  Unkeyed = {}
  Host = {h1, h2}
  HostOf <- MCHostOf
  HostnameOf <- MCHostnameOf
  Value = {1}
  Code = {7}
  BadResponse = {"json"}
  Strategy = {0}
  Estimate = {2}
  SizeFloor = 1
  SizeMax = 3
  Cost <- MCCost
  Collateral = 1
  Attached = {22}
  IdModulus = 8
  FirstId = 6
INVARIANTS
  CyclesCovered
  MetricsBalance
  SettledBeforeReply
  IdsInFlightDistinct
  UsageCountsOkResults
PROPERTIES
  EveryCallAnswered
  ResultsAreFinal
  RetryIsLargerAndPaid
  ImplementsMultiCall
