CONSTANTS
  Peers <- MCPeers
  Tokens <- MCTokens
  NoToken = NoToken
SPECIFICATION Spec
PROPERTY OpenPseudoBiResolves
CHECK_DEADLOCK FALSE
