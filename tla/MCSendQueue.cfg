CONSTANTS
  Owner = w
  Other = {a, b}
  MaxSend = 2
SPECIFICATION FairQueueSpec
INVARIANTS SenderOrder WaitsForASend
PROPERTIES Delivered
CHECK_DEADLOCK FALSE
