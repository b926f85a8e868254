SPECIFICATION Spec
CONSTANTS
  Subs = {s1}
  Channels = {c1}
  Global = Global
  NoTopic = NoTopic
  SubscriberBuffer = 1
  MaxPosted = 3
  Calls = {r1}
  NoCall = NoCall
  NoSub = NoSub
  RecordPieces = 1
INVARIANT GapBeforeNewer
CHECK_DEADLOCK FALSE
