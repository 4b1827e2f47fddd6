CONSTANTS
  Session = {s1}
  Stopper = {v1, v2}
  SvStopper = {v1, v2}
  StreamType = "binary"
  ProtoType = "none"
  MaxQueue = 1
  MaxStart = 2
  MaxUserStop = 1
SPECIFICATION FairSpec
PROPERTIES ServerStopDrains LoopsEnd
CHECK_DEADLOCK FALSE
