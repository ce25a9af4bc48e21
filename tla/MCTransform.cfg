SPECIFICATION Spec
CONSTANTS
  Replica = {1, 2}
  Method = {"eth_getLogs", "eth_getBlockByNumber", "eth_feeHistory",
            "eth_getTransactionReceipt", "eth_sendRawTransaction", "request"}
  Status = {200, 429}
  Header = {"d1", "d2"}
  Order = {"o1", "o2"}
  Client = {"Geth", "Erigon", "Besu"}
  MaxAttempts = 2
  Digest <- MCDigest
INVARIANTS
  EncodingsAgree
  KeyOrderHidden
  ContentKept
  ReplayHidden
  StatusTruthful
CHECK_DEADLOCK FALSE
