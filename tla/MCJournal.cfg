SPECIFICATION MCSpec
CONSTANTS
  SourceSeq <- TwoSources
  Targets = {1}
  Sectors = 4
  PerSector = 2
  Window = 2
  RetryLimit = 2
  MaxAbandoned = 1
  Fill = 8
  MaxBucket = 6
  MaxSeq = 28
  MaxEvents = 3
  Step = 4
  RingSlots = 5
  Allowance = 1
  Downtimes = {1}
  Reach = 2
  Phases = {0, 3}
  LastTime = 33
  MaxSeams = 2
INVARIANTS
  JournalExact
  TrendExact
PROPERTIES
  EraseSparesWindow
  Catches
CHECK_DEADLOCK FALSE
