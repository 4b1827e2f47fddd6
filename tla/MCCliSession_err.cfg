CONSTANTS
  IsReconn = TRUE
  RetryNum = 2
  PlainStop = {1}
  ErrorStop = {2}
  MaxConn = 3
  MaxMsg = 2
SPECIFICATION CliSpec
INVARIANTS ConsumersCounted Attended
PROPERTIES ClientLifeSpec
CHECK_DEADLOCK FALSE
