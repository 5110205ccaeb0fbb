CONSTANTS
  Conns <- MCConns
  Users <- MCUsers
  ConnTxCap = 1
  NoConn = NoConn
SPECIFICATION Spec
PROPERTY ListenersStopWhenDropped
CHECK_DEADLOCK FALSE
