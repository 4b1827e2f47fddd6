CONSTANTS
  CliMsgs = 2
  SrvMsgs = 1
  DeadLink = 3
  ToSrv = 2
  ToCli = 1
  None = None
SPECIFICATION FairKcpSpec
INVARIANTS InStep
PROPERTIES HandshakeEnds DropNoticed
CHECK_DEADLOCK FALSE
