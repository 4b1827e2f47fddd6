CONSTANTS
  Session = {s1}
  Stopper = {p1, p2, p3}
  StreamType = "ssl"
  ProtoType = "ws"
  MaxQueue = 2
SPECIFICATION SessSpec
INVARIANTS OneTeardown ManagerAgrees OneLateRecv NothingLeft IInv
PROPERTIES SessionLifeSpec
CHECK_DEADLOCK FALSE
