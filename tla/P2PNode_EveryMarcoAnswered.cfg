CONSTANTS
  Peers <- MCPeers
  Script <- MCScript
  Args <- MCArgs
SPECIFICATION Spec
PROPERTY EveryMarcoAnswered
CHECK_DEADLOCK FALSE
