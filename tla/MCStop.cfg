SPECIFICATION StopSpec
CONSTANTS
  PumpSources = {"a", "b"}
  FirstPlant = "a"
  StopWindow = 2
  QueueCap = 1
  MaxHour = 3
  MaxStops = 1
  MaxEvents = 2
  MaxTogether = 4
INVARIANTS
  ReportScoped
  EvidenceExact
PROPERTIES
  EvidenceSettles
CHECK_DEADLOCK FALSE
