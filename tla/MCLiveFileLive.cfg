SPECIFICATION KeenSpec
CONSTANTS
  Subs = {s1}
  Channels = {c1}
  Global = Global
  NoTopic = NoTopic
  SubscriberBuffer = 2
  MaxPosted = 6
  Calls = {r1, r2}
  NoCall = NoCall
  NoSub = NoSub
  RecordPieces = 2
INVARIANTS
  TypeOK
  GapIsNext
PROPERTIES
  CloseUnblocks
  LossReportedUnlessStranded
CHECK_DEADLOCK FALSE
