SPECIFICATION Spec
CONSTANTS
  Sites <- MCSites
  AskedTwice <- MCAskedTwice
INVARIANTS
  LatchKept
