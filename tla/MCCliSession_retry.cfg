CONSTANTS
  IsReconn = TRUE
  RetryNum = 2
  PlainStop = {1, 2}
  ErrorStop = {}
  MaxConn = 3
  MaxMsg = 2
SPECIFICATION FairCliSpec
INVARIANTS CliTypeOK OneChain Retried NothingLostOrDoubled SocketReleased
PROPERTIES StopSticks OutageEnds TakenUp
CHECK_DEADLOCK FALSE
