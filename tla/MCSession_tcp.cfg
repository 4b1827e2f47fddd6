CONSTANTS
  Session = {s1}
  Stopper = {p1, p2}
  StreamType = "binary"
  ProtoType = "none"
  MaxQueue = 2
SPECIFICATION FairSessSpec
PROPERTIES StopReleases
CHECK_DEADLOCK FALSE
