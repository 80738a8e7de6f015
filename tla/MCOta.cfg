SPECIFICATION MCSpec
CONSTANTS
  Artifacts <- MCArtifacts
  Ver <- MCVer
  Signed <- MCSigned
  Factory = "old"
  None = None
  MaxGen = 2
  BaseWindow = 1
  HardCap = 2
  Gateways = {a, b}
  Native = {b}
  NoGateway = NoGateway
  FullTicks = 2
  ProbeTries = 1
  Prompt = TRUE
  MaxForms = 2
  MaxRenamed = 3
  MaxFaults = 1
INVARIANTS
  TypeOK
  AlwaysBoots
  InstallExact
  HubScoped
  OneHubTask
PROPERTIES
  OtaSettles
