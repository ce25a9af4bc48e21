SPECIFICATION Spec
CONSTANTS
  s1 = s1
  s2 = s2
  s3 = s3
  Service = {s1, s2, s3}
  Strategy = {0, 1, 2, 4}
  Method = {"eth_getLogs", "eth_getBlockByNumber", "eth_feeHistory", "eth_getTransactionReceipt", "eth_sendRawTransaction", "eth_call"}
  Failure <- MCFailure
  Byzantium = 1
  Paris = 2
  U64 = 3
  U128 = 4
  ChainByzantium = 1
  TxTypes = {0, 1, 2, 3, 4}
SYMMETRY ServiceSymmetry
INVARIANTS
  InRange
  ResultBacked
  CountedIsShown
  OnlyForkFieldsHidden
CHECK_DEADLOCK FALSE
