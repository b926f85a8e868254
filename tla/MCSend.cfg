SPECIFICATION FairSpec
CONSTANTS
  Fids = {"f1", "f2"}
  Letters <- MCLetters
  Absent = Absent
  PieceSize = 3
  MaxBuffer = 12
  MaxContent = 3
  SniffSize = 2
  PartSizes = {2, 4}
  MaxParts = 2
INVARIANTS
  TypeOK
  PostedOnce
  PostedAsMeant
PROPERTIES
  CloseReturns
  IsDelivery
CHECK_DEADLOCK FALSE
