CONSTANTS
  Owners = {"client", "server"}
  Main = Main
  Other = Other
  None = None
  Callers <- Everywhere
  NCtx = 2
  PoolSize = 2
  MaxSession = 3
  IsReconn = TRUE
  RetryNum = 1
SPECIFICATION FairPoolSpec
INVARIANTS Quiet
PROPERTIES JoinReturns StartReturns
CHECK_DEADLOCK FALSE
