SPECIFICATION IndexSpec
CONSTANTS
  MaxPosts = 2
  Atts = {"a1", "a2", "a3", "b1"}
  MessageOf <- MCMessageOf
  Base <- MCBase
  Short <- MCShort
  Limit = 1
  PinLimit = 1
  Opens = {"o1", "o2"}
  Reads = {"r1"}
  MaxOpens = 4
  MaxRefreshes = 1
  MaxChanges = 4
INVARIANTS
  IndexTypeOK
  IndexIsCurrent
  PathsResolve
CHECK_DEADLOCK FALSE
