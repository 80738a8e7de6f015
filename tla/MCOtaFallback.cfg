SPECIFICATION Spec
CONSTANTS
  Artifacts <- MCArtifacts
  Ver <- MCVer
  Signed <- MCSigned
  Factory = "run"
  None = None
  MaxGen = 2
  BaseWindow = 1
  HardCap = 2
PROPERTIES
  FallbackSparesInstall
