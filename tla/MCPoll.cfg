SPECIFICATION MCSpec
CONSTANTS
  Wires = {"l", "m"}
  FirstWire = "l"
  Units <- MCUnits
  Pages = {"a", "b", "c"}
  Rating = "a"
  Signatures <- MCSignatures
  Generic = "generic"
  Order <- MCOrder
  Tries = 3
  Twice = 2
  Revisions = 2
  Choices <- MCChoices
  MaxRequests = 1
  DwellModels = {"P", "Q"}
  MaxGap = 4
  Cadence = 2
  Reboot = 1
  Pauses = {1, 3, 5}
  MaxLog = 4
  MaxForms = 1
  RestartMidForm = FALSE
  Callers = {"c", "d"}
  Registers = {"r", "s"}
  Tickets = 3
  MaxProbes = 1
  HourTicks = 2
  Completed = 2
  LongestGap = 2
  DhwTail = 2
  Sights <- MCSights
  LastTick = 6
  MaxResets = 1
  Slots = 3
  LastWall = 5
  MaxBoots = 2
  MaxRuns = 1
  MaxMishaps = 1
  OneAtATime = TRUE
  Quiet = 4
  Grace = 2
  Settle = 2
  ChargeMin = 2
  BlindRun = 2
  BlindMax = 2
  Lapse = 1
  Down = 1
  Looks <- MCLooks
  LastMoment = 9
INVARIANTS
  SourceScoped
  AgesExact
  AnswersOwn
  HoursExact
  RevisionsExact
  LossExact

  
CHECK_DEADLOCK FALSE
