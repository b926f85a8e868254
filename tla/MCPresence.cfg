SPECIFICATION FairSpec
CONSTANTS
  Fields = {status, custom}
  Writers = {w1, w2}
  Unset = Unset
  MaxWrites = 3
  MaxFaults = 2
INVARIANTS
  TypeOK
  QuietIsCurrent
PROPERTIES
  NeverOlder
  PresenceArrives
CHECK_DEADLOCK FALSE
