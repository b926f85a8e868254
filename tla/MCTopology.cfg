SPECIFICATION FairSpec
CONSTANTS
  Users = {"u1", "u2"}
  DMs = {"d1", "d2"}
  Chans = {"k1", "k2", "k3"}
  Guild = "g"
  DMOf <- MCDMOf
  Boot <- MCBoot
  Bases <- MCBases
  Short <- MCShort
  Gateway = "gateway"
  Senders = {"t1", "t2"}
  Nobody = "nobody"
  MaxUpdates = 1
  MaxSends = 2
INVARIANTS
  TypeOK
  TreeShowsStore
  OnlyClashesHide
  NodesAreKept
  OneDMEach
PROPERTY EveryCallEnds
CHECK_DEADLOCK FALSE
