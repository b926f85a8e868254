SPECIFICATION Spec
CONSTANTS
  NoSession = NoSession
  BackoffCap = 1
  MaxEvents = 3
  MaxFaults = 2
  Subs = {s1}
  Channels = {c1, c2}
  Global = Global
  NoTopic = NoTopic
  SubscriberBuffer = 1
  MaxPosted = 5
  Calls = {r1}
  NoCall = NoCall
  NoSub = NoSub
  RecordPieces = 1
SYMMETRY Symmetry
INVARIANT NoSilentLossEndToEnd
CHECK_DEADLOCK FALSE
