SPECIFICATION MCSpec
CONSTANTS
  Sites <- MCSites
  AskedTwice <- MCAskedTwice
  HoldCap = 2
  MaxAsked = 2
  MaxBeside = 1
  Profiles = {"P", "Q"}
  Rows <- MCRows
  Withheld <- MCWithheld
  RingCap = 1
  TornSaves = FALSE
  MaxChanges = 1
  MaxFaults = 1
INVARIANTS
  TypesOK
  ResetExact
  TlsAlone
  
PROPERTIES
  ResultsBound
  RefreshSettled
  Converges
CHECK_DEADLOCK FALSE
