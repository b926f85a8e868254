SPECIFICATION Spec
CONSTANTS
  Fields = {status}
  Writers = {w1, w2}
  Unset = Unset
  MaxWrites = 2
  MaxFaults = 0
INVARIANT FileShowsPresence
CHECK_DEADLOCK FALSE
