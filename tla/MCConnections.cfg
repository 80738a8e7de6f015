SPECIFICATION MCSpec
CONSTANTS
  Owners = {"ota", "weather"}
  Fds = {"s5", "s6"}
  None = None
  Creds = {"a", "b"}
  MaxRetry = 2
  Window = 2
  Grace = 4
  AuthLimit = 2
  SilentLimit = 2
  BlindLimit = 3
  DownLimit = 3
INVARIANTS
  TypesOK
  CutsOwnConnection
PROPERTIES
  ImplementsTransfers
  TransferEnds
  GoodCredentialsKept
  LinkRecovers
CHECK_DEADLOCK FALSE
