SPECIFICATION Spec
CONSTANTS
  Subs = {s1, s2}
  Channels = {c1, c2}
  Global = Global
  NoTopic = NoTopic
  SubscriberBuffer = 1
  MaxPosted = 3
  Calls = {r1, r2}
  NoCall = NoCall
  NoSub = NoSub
  RecordPieces = 1
SYMMETRY Symmetry
INVARIANTS
  NoSendOnClosed
  LossAccounting
PROPERTY IsOrderedFeed
CHECK_DEADLOCK FALSE
