SPECIFICATION FairSpec
CONSTANTS
  NoSession = NoSession
  BackoffCap = 3
  MaxEvents = 4
  MaxFaults = 4
INVARIANTS
  TypeOK
  ResumePoint
  GapIsOwed
  PausesGrow
PROPERTIES
  NoSilentLoss
  CatchesUp
CHECK_DEADLOCK FALSE
