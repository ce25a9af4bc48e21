SPECIFICATION Spec
CONSTANTS
  Replica = {1, 2, 3, 4}
  Method = {"eth_sendRawTransaction"}
  Status = {200}
  Header = {"d1"}
  Order = {"o1"}
  Client = {"Nethermind"}
  MaxAttempts = 1
  Digest <- MCDigest
INVARIANTS
  ReplayHidden
CHECK_DEADLOCK FALSE
