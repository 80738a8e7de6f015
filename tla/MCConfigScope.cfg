SPECIFICATION ConfigSpec
CONSTANTS
  Pads <- MCPads
  None = None
  LedPads <- MCLedPads
  BtnPads <- MCBtnPads
  EnvPads <- MCEnvPads
  Links <- MCLinks
  DefaultLink <- MCDefaultLink
  SeedLed = 3
  Values = {v1, v2}
  DefaultValue = v1
  Models = {m1, m2}
  AutoModel = AutoModel
  NoId = NoId
  Keep = Keep
  Attempts = 2
  MaxRev = 4
SYMMETRY Perms
INVARIANTS
  RecorderScoped
