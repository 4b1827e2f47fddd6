CONSTANTS
  Kinds = {"pipeline", "exchange"}
  IsReconn = TRUE
  SilentSets <- SilentOrNot
  PlainStop = {1}
  MaxReq = 3
  MaxConn = 2
SPECIFICATION FairRqSpec
INVARIANTS RqTypeOK Accounted OneInFlight
PROPERTIES OwnResponse Answered
CHECK_DEADLOCK FALSE
