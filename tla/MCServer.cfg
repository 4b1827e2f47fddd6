CONSTANTS
  Session = {s1, s2}
  Stopper = {v1, v2}
  SvStopper = {v1, v2}
  StreamType = "binary"
  ProtoType = "none"
  MaxQueue = 0
  MaxStart = 2
  MaxUserStop = 1
SPECIFICATION Spec
SYMMETRY Symmetry
INVARIANTS AcceptorAgrees
PROPERTIES UnaskedStop ServerUsesSessions
CHECK_DEADLOCK FALSE
