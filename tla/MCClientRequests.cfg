CONSTANTS
  c1 = c1
  r1 = r1
  r2 = r2
  Endpoint = {"eth_call", "eth_feeHistory", "eth_getBlockByNumber", "eth_getLogs", "eth_sendRawTransaction"}
  Client = {c1}
  Request = {r1, r2}
  Sources = {"EthSepolia"}
  Consensus = {2}
  Estimate = {0, 4096}
  MaxRange = {2}
  Number = {0, 2}
  Opaque = {1}
  Cycles = {20}
  NoProviders <- MCNoProviders
  DefaultRange = 1
  MaxPayload = 1997952
  MaxCalls = 2
SYMMETRY RequestSymmetry
SPECIFICATION Spec
INVARIANTS
  ForwardedAsAsked
  RangeEnforced
CHECK_DEADLOCK FALSE
