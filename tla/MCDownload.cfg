SPECIFICATION FairSpec
CONSTANTS
  Fids = {f1}
  Calls = {r1, r2}
  NoCall = NoCall
  NoFid = NoFid
  NoBody = NoBody
  Length = 2
  MaxReads = 3
  MaxFaults = 2
INVARIANTS
  TypeOK
  BytesInPlace
  NoStreamLeft
PROPERTIES
  CloseReturns
  ReadReturns
CHECK_DEADLOCK FALSE
