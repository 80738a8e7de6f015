SPECIFICATION RetSpec
CONSTANTS
  Profiles = {"P", "Q"}
  Rows <- MCRows
  Withheld <- MCWithheld
  RingCap = 1
  TornSaves = FALSE
  MaxChanges = 2
  MaxFaults = 1
INVARIANT Reannounced
CHECK_DEADLOCK FALSE
