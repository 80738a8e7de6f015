SPECIFICATION JournalSpec
CONSTANTS
  SourceSeq <- OneSource
  Targets = {1}
  Sectors = 4
  PerSector = 2
  Window = 2
  RetryLimit = 2
  MaxAbandoned = 1
  Fill = 8
  MaxBucket = 6
  MaxSeq = 28
  MaxEvents = 3
INVARIANT CompatibleRestored
CHECK_DEADLOCK FALSE
