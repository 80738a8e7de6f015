SPECIFICATION MCSpec
CONSTANTS
  Pads <- MCPads
  None = None
  LedPads <- MCLedPads
  BtnPads <- MCBtnPads
  EnvPads <- MCEnvPads
  Links <- MCLinks
  DefaultLink <- MCDefaultLink
  SeedLed = 3
  Values = {v1, v2}
  DefaultValue = v1
  Models = {m1, m2}
  AutoModel = AutoModel
  NoId = NoId
  Keep = Keep
  Attempts = 2
  MaxRev = 3
  FailThreshold = 3
  FailMax = 4
  MaxRestarts = 2
  Hold = 2
  Wrap = 4
  Gaps <- MCGaps
SYMMETRY Perms
INVARIANTS
  TypesOK
  SafeModeExact
  WatchdogExact
  CommitsKept
  PinsKept
  IdentityScope
PROPERTIES
  FlashKept
CHECK_DEADLOCK FALSE
