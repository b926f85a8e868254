SPECIFICATION Spec
CONSTANTS
  Delay = 2
  Timeout = 3
  WriteDeadline = 2
  MaxInFlight = 2
  Nobody = Nobody
INVARIANTS
  TypeOK
  NoFalseAlarm
  SilenceNoticed
CHECK_DEADLOCK FALSE
