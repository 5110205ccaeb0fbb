CONSTANTS
  Peers <- MCPeers
  Script <- MCScript
  Args <- MCArgs
SPECIFICATION Spec
INVARIANT TypeOK
PROPERTY ClosedConnectionReleased
CHECK_DEADLOCK FALSE
