CONSTANTS
  Conns <- MCConns
  Users <- MCUsers
  ConnTxCap = 1
  NoConn = NoConn
SPECIFICATION Spec
INVARIANT TypeOK FailedNotPooled
PROPERTY LostInboundRemoved InboundListened
CHECK_DEADLOCK FALSE
