SPECIFICATION Spec
CONSTANTS
  k1 = k1
  k2 = k2
  bad = bad
  manager = manager
  other = other
  root = root
  f1 = f1
  huge = huge
  o1 = o1
  broken = broken
  Call = {call}
  ProviderId = {1, 2, 3, 9}
  Provider = {1, 2, 3}
  Authenticated = {2, 3}
  NoPublicUrl = {3}
  ApiKey = {k1, k2, bad}
  InvalidKey = {bad}
  Principal = {manager, other, root}
  Controller = {root}
  LogFilter = {f1, huge}
  OversizedFilter = {huge}
  Override = {o1, broken}
  InvalidOverride = {broken}
  Nodes = {13, 40}
  None = None
  Entries <- MCEntries
  InstallArgs <- MCInstallArgs
  MaxRequests = 2
INVARIANTS
  TypeOK
  KeysUsable
PROPERTIES
  AllOrNothing
  KeysChangedByManagers
